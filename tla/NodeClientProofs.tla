-------------------------- MODULE NodeClientProofs --------------------------
(***************************************************************************)
(* Proofs about NodeClient, for any number of calls and slots, any of them *)
(* oversized, with close() and the connection lost at any time.            *)
(***************************************************************************)
EXTENDS NodeClient, FiniteSetTheorems, SequenceTheorems, TLAPS

Has(q, x) == \E i \in 1..Len(q) : q[i] = x

Distinct(q) == \A i, j \in 1..Len(q) : q[i] = q[j] => i = j

InFree(s) == Has(free, s)

InMicro(c) == Has(micro, c)

InWaiters(c) == Has(waiters, c)

\* No slot is on the free list twice, no call twice in a queue.
NoneTwice == Distinct(free) /\ Distinct(micro) /\ Distinct(waiters)

\* A call is in one queue at a time, and is not settled while it is there.
QueuedWaits ==
    /\ \A c \in Calls : InMicro(c) => ~InWaiters(c) /\ promise[c] = "waits"
    /\ \A c \in Calls : InWaiters(c) => promise[c] = "waits"

\* A call that is about to go on has its slot for itself.
ResumingOwnsSlot ==
    /\ \A c \in Calls, s \in Slots : InMicro(c) /\ slot[c] = s => ~InFree(s) /\ pending[s] = None
    /\ \A c, d \in Calls : InMicro(c) /\ InMicro(d) /\ slot[c] = slot[d] => c = d

\* So has a pending call.
PendingOwnsSlot ==
    \A s \in Slots, c \in Calls : pending[s] = c =>
        slot[c] = s /\ promise[c] # "new" /\ ~InFree(s) /\ ~InWaiters(c)

\* A request at the server is the pending one of its slot.
WireIsPending == \A s \in Slots, c \in Calls : <<s, c>> \in wire => pending[s] = c

\* _fail runs only when nothing can be read any more.
EventsAfterEnd ==
    /\ events # <<>> => socket = "destroyed"
    /\ socket = "destroyed" => wire = {}

\* No slot is lost before that.
NoSlotLost ==
    socket # "destroyed" =>
        \A s \in Slots : InFree(s) \/ pending[s] # None \/ \E c \in Calls : InMicro(c) /\ slot[c] = s

\* What makes OneHolderPerSlot and NoCrossTalk inductive.
Inv ==
    /\ TypeOK /\ NoneTwice /\ QueuedWaits /\ ResumingOwnsSlot /\ PendingOwnsSlot
    /\ WireIsPending /\ EventsAfterEnd /\ NoSlotLost /\ NoCrossTalk

-----------------------------------------------------------------------------
USE NodeClientAssumption DEF Slots

LEMMA PushHas ==
    ASSUME NEW S, NEW q \in Seq(S), NEW x \in S
    PROVE  /\ Append(q, x) \in Seq(S)
           /\ \A y : Has(Append(q, x), y) <=> Has(q, y) \/ y = x
           /\ Distinct(q) /\ ~Has(q, x) => Distinct(Append(q, x))
<1> DEFINE p == Append(q, x)
<1>1. /\ p \in Seq(S) /\ Len(p) = Len(q) + 1 /\ Len(q) \in Nat
      /\ p[Len(q) + 1] = x
      /\ \A i \in 1..Len(q) : p[i] = q[i]
  OBVIOUS
<1> HIDE DEF p
<1>2. \A y : Has(p, y) <=> Has(q, y) \/ y = x
  BY <1>1 DEF Has
<1>3. Distinct(q) /\ ~Has(q, x) => Distinct(p)
  BY <1>1 DEF Has, Distinct
<1> QED
  BY <1>1, <1>2, <1>3 DEF p

LEMMA ShiftHas ==
    ASSUME NEW S, NEW q \in Seq(S), q # <<>>, Distinct(q)
    PROVE  /\ Tail(q) \in Seq(S) /\ Head(q) \in S /\ Has(q, Head(q)) /\ Distinct(Tail(q))
           /\ \A y : Has(Tail(q), y) <=> Has(q, y) /\ y # Head(q)
<1> DEFINE p == Tail(q)
<1>1. /\ p \in Seq(S) /\ Len(q) \in Nat \ {0} /\ Len(p) = Len(q) - 1
      /\ Head(q) = q[1] /\ q[1] \in S
      /\ \A i \in 1..Len(p) : p[i] = q[i + 1]
  OBVIOUS
<1> HIDE DEF p
<1>2. Has(q, Head(q)) /\ Distinct(p)
  BY <1>1 DEF Has, Distinct
<1>3. ASSUME NEW y PROVE Has(p, y) <=> Has(q, y) /\ y # Head(q)
  <2>1. ASSUME Has(p, y) PROVE Has(q, y) /\ y # Head(q)
    <3>1. PICK i \in 1..Len(p) : p[i] = y
      BY <2>1 DEF Has
    <3>2. i + 1 \in 1..Len(q) /\ 1 \in 1..Len(q) /\ q[i + 1] = y /\ i + 1 # 1
      BY <1>1, <3>1
    <3> QED
      BY <1>1, <3>2 DEF Has, Distinct
  <2>2. ASSUME Has(q, y), y # Head(q) PROVE Has(p, y)
    <3>1. PICK i \in 1..Len(q) : q[i] = y /\ i # 1
      BY <1>1, <2>2 DEF Has
    <3>2. i - 1 \in 1..Len(p) /\ p[i - 1] = y
      BY <1>1, <3>1
    <3> QED
      BY <3>2 DEF Has
  <2> QED
    BY <2>1, <2>2
<1> QED
  BY <1>1, <1>2, <1>3 DEF p

LEMMA PopHas ==
    ASSUME NEW S, NEW q \in Seq(S), q # <<>>, Distinct(q)
    PROVE  LET p == SubSeq(q, 1, Len(q) - 1)
               x == q[Len(q)]
           IN  /\ p \in Seq(S) /\ x \in S /\ Has(q, x) /\ Distinct(p)
               /\ \A y : Has(p, y) <=> Has(q, y) /\ y # x
<1>1. PICK n \in Nat : n = Len(q) - 1 /\ Len(q) = n + 1
  OBVIOUS
<1>2. q[Len(q)] \in S /\ \A i \in 1..n : i \in 1..Len(q) /\ i # Len(q) /\ q[i] \in S
  BY <1>1
<1> DEFINE p == SubSeq(q, 1, n)
           x == q[Len(q)]
<1>3. /\ p \in Seq(S)
      /\ Len(p) = IF 1 <= n THEN n - 1 + 1 ELSE 0
      /\ \A i \in 1..(n - 1 + 1) : p[i] = q[1 + i - 1]
  BY <1>2, SubSeqProperties
<1> HIDE DEF p
<1>4. Len(p) = n /\ \A i \in 1..n : p[i] = q[i]
  BY <1>3
<1>5. Has(q, x) /\ Distinct(p)
  <2>1. Has(q, x)
    BY <1>1 DEF Has
  <2>2. Distinct(p)
    BY <1>2, <1>4 DEF Distinct
  <2> QED
    BY <2>1, <2>2
<1>6. \A y : Has(p, y) <=> Has(q, y) /\ y # x
  <2>1. Len(q) \in 1..Len(q) /\ \A i \in 1..Len(q) : i \in 1..n \/ i = Len(q)
    BY <1>1
  <2>2. \A i \in 1..n : p[i] = q[i] /\ q[i] # x
    BY <1>2, <1>4, <2>1 DEF Distinct
  <2> QED
    BY <1>2, <1>4, <2>1, <2>2 DEF Has
<1> QED
  BY <1>1, <1>2, <1>3, <1>5, <1>6 DEF p

LEMMA InitInv == Init => Inv
<1> SUFFICES ASSUME Init PROVE Inv
  OBVIOUS
<1>1. /\ free \in Seq(Slots) /\ Len(free) = maxInflight
      /\ \A i \in 1..maxInflight : free[i] = i - 1
  BY DEF Init
<1>2. TypeOK
  <2>1. 0 \in Slots
    OBVIOUS
  <2>2. \A S : <<>> \in Seq(S)
    OBVIOUS
  <2>3. slot \in [Calls -> Slots] /\ waiters \in Seq(Calls) /\ micro \in Seq(Calls)
        /\ events \in Seq({"error", "close"})
    BY <2>1, <2>2, Zenon DEF Init
  <2>4. handling \in BOOLEAN /\ closed \in BOOLEAN
    BY Zenon DEF Init
  <2> QED
    BY <1>1, <2>3, <2>4 DEF Init, TypeOK
<1>3. Distinct(free) /\ \A s \in Slots : InFree(s)
  <2>1. \A s \in Slots : s + 1 \in 1..maxInflight /\ free[s + 1] = s
    BY <1>1
  <2> QED
    BY <1>1, <2>1 DEF Distinct, InFree, Has
<1>4. (\A c : ~InMicro(c) /\ ~InWaiters(c)) /\ Distinct(micro) /\ Distinct(waiters)
  BY DEF Init, InMicro, InWaiters, Has, Distinct
<1> QED
  BY <1>2, <1>3, <1>4 DEF Init, Inv, NoneTwice, QueuedWaits, ResumingOwnsSlot, PendingOwnsSlot,
     WireIsPending, EventsAfterEnd, NoSlotLost, NoCrossTalk

-----------------------------------------------------------------------------
LEMMA NextInv == Inv /\ [Next]_vars => Inv'
<1> SUFFICES ASSUME Inv, [Next]_vars PROVE Inv'
  OBVIOUS
<1>0. /\ TypeOK /\ NoneTwice /\ QueuedWaits /\ ResumingOwnsSlot /\ PendingOwnsSlot
      /\ WireIsPending /\ EventsAfterEnd /\ NoSlotLost /\ NoCrossTalk
  BY DEF Inv
<1>T. /\ promise \in [Calls -> {"new", "waits", "resolved", "rejected"}]
      /\ slot \in [Calls -> Slots] /\ body \in [Calls -> Calls \cup {None}]
      /\ free \in Seq(Slots) /\ pending \in [Slots -> Calls \cup {None}]
      /\ waiters \in Seq(Calls) /\ micro \in Seq(Calls) /\ wire \subseteq Slots \X Calls
      /\ Distinct(free) /\ Distinct(micro) /\ Distinct(waiters)
  BY <1>0 DEF TypeOK, NoneTwice
<1> DEFINE Same == UNCHANGED <<free, waiters, micro>>
<1>Q. ASSUME Same
      PROVE  /\ \A x : InFree(x)' = InFree(x) /\ InMicro(x)' = InMicro(x) /\ InWaiters(x)' = InWaiters(x)
             /\ NoneTwice' = NoneTwice
  BY <1>Q DEF InFree, InMicro, InWaiters, NoneTwice
<1>1. ASSUME NEW c \in Calls, SendClosed(c) PROVE Inv'
  <2>1. /\ promise[c] = "new" /\ promise' = [promise EXCEPT ![c] = "rejected"] /\ Same
        /\ UNCHANGED <<slot, body, pending, handling, closed, connecting, socket, events, wire>>
    BY <1>1 DEF SendClosed, Callable, Now, poolVars, netVars
  <2>2. TypeOK' /\ NoCrossTalk'
    BY <1>0, <1>T, <2>1 DEF TypeOK, NoCrossTalk
  <2>3. QueuedWaits' /\ ResumingOwnsSlot' /\ PendingOwnsSlot'
    BY <1>0, <1>T, <1>Q, <2>1 DEF QueuedWaits, ResumingOwnsSlot, PendingOwnsSlot
  <2>4. WireIsPending' /\ EventsAfterEnd' /\ NoSlotLost'
    BY <1>0, <1>Q, <2>1 DEF WireIsPending, EventsAfterEnd, NoSlotLost
  <2> QED
    BY <1>0, <1>Q, <2>1, <2>2, <2>3, <2>4 DEF Inv
<1>2. ASSUME NEW c \in Calls, SendNow(c) PROVE Inv'
  <2>1. /\ promise[c] = "new" /\ promise' = [promise EXCEPT ![c] = "waits"] /\ free # <<>>
        /\ free' = SubSeq(free, 1, Len(free) - 1) /\ micro' = Append(micro, c)
        /\ UNCHANGED <<body, pending, waiters, handling, closed, connecting, socket, events, wire>>
    BY <1>2 DEF SendNow, Callable, Now, netVars
  <2>2. PICK id : id = free[Len(free)] /\ slot' = [slot EXCEPT ![c] = id]
    BY <1>2 DEF SendNow
  <2>3. /\ free' \in Seq(Slots) /\ id \in Slots /\ InFree(id) /\ Distinct(free')
        /\ \A s : InFree(s)' <=> InFree(s) /\ s # id
    BY <1>T, <2>1, <2>2, PopHas DEF InFree
  <2>4. ~InMicro(c) /\ ~InWaiters(c) /\ \A s \in Slots : pending[s] # c
    BY <1>0, <2>1 DEF QueuedWaits, PendingOwnsSlot
  <2>5. /\ micro' \in Seq(Calls) /\ Distinct(micro')
        /\ \A d : InMicro(d)' <=> InMicro(d) \/ d = c
        /\ \A d : InWaiters(d)' <=> InWaiters(d)
    BY <1>T, <2>1, <2>4, PushHas DEF InMicro, InWaiters
  <2>6. TypeOK' /\ NoneTwice' /\ NoCrossTalk'
    BY <1>0, <1>T, <2>1, <2>2, <2>3, <2>5 DEF TypeOK, NoneTwice, NoCrossTalk
  <2>7. QueuedWaits' /\ PendingOwnsSlot'
    BY <1>0, <1>T, <2>1, <2>2, <2>3, <2>4, <2>5 DEF QueuedWaits, PendingOwnsSlot
  <2>8. ResumingOwnsSlot'
    <3>1. pending[id] = None /\ \A d \in Calls : InMicro(d) => slot[d] # id
      BY <1>0, <1>T, <2>3 DEF PendingOwnsSlot, ResumingOwnsSlot
    <3>2. \A d \in Calls : slot'[d] = IF d = c THEN id ELSE slot[d]
      BY <1>T, <2>2
    <3> QED
      BY <1>0, <2>1, <2>3, <2>5, <3>1, <3>2 DEF ResumingOwnsSlot
  <2>9. NoSlotLost'
    <3>1. ASSUME socket # "destroyed", NEW s \in Slots
          PROVE  InFree(s)' \/ pending[s] # None \/ \E d \in Calls : InMicro(d)' /\ slot'[d] = s
      <4>1. CASE s = id
        BY <1>T, <2>2, <2>5, <4>1
      <4>2. ASSUME NEW d \in Calls, InMicro(d), slot[d] = s
            PROVE  InMicro(d)' /\ slot'[d] = s
        BY <1>T, <2>2, <2>4, <2>5, <4>2
      <4> QED
        BY <1>0, <2>3, <3>1, <4>1, <4>2 DEF NoSlotLost
    <3> QED
      BY <2>1, <3>1 DEF NoSlotLost
  <2> QED
    BY <1>0, <2>1, <2>6, <2>7, <2>8, <2>9 DEF Inv, WireIsPending, EventsAfterEnd
<1>3. ASSUME NEW c \in Calls, SendWaits(c) PROVE Inv'
  <2>1. /\ promise[c] = "new" /\ promise' = [promise EXCEPT ![c] = "waits"]
        /\ waiters' = Append(waiters, c)
        /\ UNCHANGED <<slot, body, free, pending, micro, handling, closed, connecting, socket, events, wire>>
    BY <1>3 DEF SendWaits, Callable, Now, netVars
  <2>2. ~InMicro(c) /\ ~InWaiters(c) /\ \A s \in Slots : pending[s] # c
    BY <1>0, <2>1 DEF QueuedWaits, PendingOwnsSlot
  <2>3. /\ waiters' \in Seq(Calls) /\ Distinct(waiters')
        /\ \A d : InWaiters(d)' <=> InWaiters(d) \/ d = c
        /\ \A x : (InMicro(x)' <=> InMicro(x)) /\ (InFree(x)' <=> InFree(x))
    BY <1>T, <2>1, <2>2, PushHas DEF InMicro, InWaiters, InFree
  <2>4. TypeOK' /\ NoneTwice' /\ NoCrossTalk'
    BY <1>0, <1>T, <2>1, <2>3 DEF TypeOK, NoneTwice, NoCrossTalk
  <2>5. QueuedWaits' /\ ResumingOwnsSlot' /\ PendingOwnsSlot'
    BY <1>0, <1>T, <2>1, <2>2, <2>3 DEF QueuedWaits, ResumingOwnsSlot, PendingOwnsSlot
  <2>6. NoSlotLost'
    BY <1>0, <2>1, <2>3 DEF NoSlotLost
  <2> QED
    BY <1>0, <2>1, <2>4, <2>5, <2>6 DEF Inv, WireIsPending, EventsAfterEnd
<1>4. ASSUME NEW c \in Calls, Resume(c) PROVE Inv'
  <2>1. /\ micro # <<>> /\ c = Head(micro) /\ micro' = Tail(micro)
        /\ UNCHANGED <<slot, body, free, waiters, handling, closed, connecting>>
    BY <1>4 DEF Resume
  <2>2. PICK id \in Slots : id = slot[c] /\ pending' = [pending EXCEPT ![id] = c]
    BY <1>4, <1>T DEF Resume
  <2>3. /\ micro' \in Seq(Calls) /\ Distinct(micro') /\ InMicro(c)
        /\ \A d : InMicro(d)' <=> InMicro(d) /\ d # c
        /\ \A x : (InWaiters(x)' <=> InWaiters(x)) /\ (InFree(x)' <=> InFree(x))
    BY <1>T, <2>1, ShiftHas DEF InMicro, InWaiters, InFree
  <2>4. /\ ~InWaiters(c) /\ promise[c] = "waits" /\ ~InFree(id) /\ pending[id] = None
        /\ \A d \in Calls : InMicro(d) /\ d # c => slot[d] # id
    BY <1>0, <2>2, <2>3 DEF QueuedWaits, ResumingOwnsSlot
  <2>5. /\ \A d \in Calls : d # c => promise'[d] = promise[d]
        /\ promise'[c] \in {"waits", "rejected"}
        /\ promise' \in [Calls -> {"new", "waits", "resolved", "rejected"}]
    BY <1>4, <1>T, <2>4 DEF Resume, Now
  <2>6. /\ wire' \subseteq wire \cup {<<id, c>>} /\ (socket' # "destroyed" => socket # "destroyed")
        /\ socket' \in {"open", "ended", "destroyed"} /\ events' \in Seq({"error", "close"})
        /\ EventsAfterEnd'
    <3>1. CASE UNCHANGED netVars
      BY <1>0, <3>1 DEF netVars, TypeOK, EventsAfterEnd
    <3>2. CASE socket = "open" /\ wire' = wire \cup {<<id, c>>} /\ UNCHANGED <<socket, events>>
      BY <1>0, <3>2 DEF TypeOK, EventsAfterEnd
    <3>3. CASE socket = "ended" /\ socket' = "destroyed" /\ events' = <<"error", "close">> /\ wire' = {}
      BY <3>3 DEF EventsAfterEnd
    <3> QED
      BY <1>4, <2>2, <3>1, <3>2, <3>3 DEF Resume, Written
  <2>7. TypeOK' /\ NoneTwice' /\ NoCrossTalk'
    BY <1>0, <1>T, <2>1, <2>2, <2>3, <2>4, <2>5, <2>6 DEF TypeOK, NoneTwice, NoCrossTalk
  <2>8. QueuedWaits' /\ ResumingOwnsSlot'
    BY <1>0, <1>T, <2>1, <2>2, <2>3, <2>4, <2>5 DEF QueuedWaits, ResumingOwnsSlot
  <2>9. PendingOwnsSlot'
    BY <1>0, <1>T, <2>1, <2>2, <2>3, <2>4, <2>5 DEF PendingOwnsSlot
  <2>10. WireIsPending'
    BY <1>0, <1>T, <2>2, <2>4, <2>6 DEF WireIsPending
  <2>11. NoSlotLost'
    BY <1>0, <1>T, <2>1, <2>2, <2>3, <2>6 DEF NoSlotLost
  <2> QED
    BY <2>6, <2>7, <2>8, <2>9, <2>10, <2>11 DEF Inv
<1>5. ASSUME NEW req \in wire, OnFrame(req) PROVE Inv'
  <2>1. PICK id \in Slots, c \in Calls : req = <<id, c>> /\ pending[id] = c
    BY <1>0, <1>T DEF WireIsPending
  <2>2. /\ pending' = [pending EXCEPT ![id] = None] /\ release(id)
        /\ promise' = [promise EXCEPT ![c] = "resolved"] /\ body' = [body EXCEPT ![c] = c]
        /\ wire' = wire \ {<<id, c>>} /\ handling' = TRUE
        /\ UNCHANGED <<closed, connecting, socket, events>>
    BY <1>5, <2>1 DEF OnFrame, Now
  <2>3. slot[c] = id /\ ~InFree(id) /\ ~InWaiters(c) /\ ~InMicro(c)
        /\ \A d \in Calls : InMicro(d) => slot[d] # id
    BY <1>0, <1>T, <2>1 DEF PendingOwnsSlot, ResumingOwnsSlot
  <2>4. \A s \in Slots : s # id => pending[s] # c
    BY <1>0, <2>1, <2>3 DEF PendingOwnsSlot
  <2>5. NoCrossTalk' /\ EventsAfterEnd' /\ WireIsPending'
    BY <1>0, <1>T, <2>1, <2>2 DEF NoCrossTalk, EventsAfterEnd, WireIsPending
  <2>6. handling' \in BOOLEAN
    BY <2>2, Zenon
  <2>7. CASE waiters = <<>>
    <3>1. free' = Append(free, id) /\ UNCHANGED <<waiters, micro, slot>>
      BY <2>2, <2>7 DEF release
    <3>2. /\ free' \in Seq(Slots) /\ Distinct(free')
          /\ \A s : InFree(s)' <=> InFree(s) \/ s = id
          /\ \A x : (InMicro(x)' <=> InMicro(x)) /\ (InWaiters(x)' <=> InWaiters(x))
      BY <1>T, <2>3, <3>1, PushHas DEF InFree, InMicro, InWaiters
    <3>3. TypeOK' /\ NoneTwice'
      BY <1>0, <1>T, <2>2, <2>6, <3>1, <3>2 DEF TypeOK, NoneTwice
    <3>4. QueuedWaits' /\ ResumingOwnsSlot' /\ PendingOwnsSlot'
      BY <1>0, <1>T, <2>2, <2>3, <2>4, <3>1, <3>2 DEF QueuedWaits, ResumingOwnsSlot, PendingOwnsSlot
    <3>5. NoSlotLost'
      BY <1>0, <1>T, <2>2, <3>1, <3>2 DEF NoSlotLost
    <3> QED
      BY <2>5, <3>3, <3>4, <3>5 DEF Inv
  <2>8. CASE waiters # <<>>
    <3>1. PICK d \in Calls : /\ d = Head(waiters) /\ InWaiters(d)
                             /\ waiters' \in Seq(Calls) /\ Distinct(waiters')
                             /\ \A x : InWaiters(x)' <=> InWaiters(x) /\ x # d
      <4>1. waiters' = Tail(waiters)
        BY <2>2, <2>8 DEF release
      <4>2. /\ Tail(waiters) \in Seq(Calls) /\ Head(waiters) \in Calls
            /\ Has(waiters, Head(waiters)) /\ Distinct(Tail(waiters))
            /\ \A x : Has(Tail(waiters), x) <=> Has(waiters, x) /\ x # Head(waiters)
        BY <1>T, <2>8, ShiftHas
      <4> QED
        BY <4>1, <4>2 DEF InWaiters
    <3>2. micro' = Append(micro, d) /\ slot' = [slot EXCEPT ![d] = id] /\ free' = free
      BY <2>2, <2>8, <3>1 DEF release
    <3>3. promise[d] = "waits" /\ ~InMicro(d) /\ d # c /\ \A s \in Slots : pending[s] # d
      BY <1>0, <2>3, <3>1 DEF QueuedWaits, PendingOwnsSlot
    <3>4. /\ micro' \in Seq(Calls) /\ Distinct(micro')
          /\ \A x : InMicro(x)' <=> InMicro(x) \/ x = d
          /\ \A x : InFree(x)' <=> InFree(x)
      BY <1>T, <3>2, <3>3, PushHas DEF InMicro, InFree
    <3>5. TypeOK' /\ NoneTwice'
      <4>1. TypeOK'
        BY <1>0, <1>T, <2>2, <2>6, <3>1, <3>2, <3>4 DEF TypeOK
      <4>2. NoneTwice'
        BY <1>0, <2>2, <3>1, <3>2, <3>4 DEF NoneTwice
      <4> QED
        BY <4>1, <4>2
    <3>6. QueuedWaits' /\ PendingOwnsSlot'
      <4>1. QueuedWaits'
        BY <1>0, <1>T, <2>2, <2>3, <2>4, <3>1, <3>3, <3>4 DEF QueuedWaits
      <4>2. PendingOwnsSlot'
        BY <1>0, <1>T, <2>2, <2>3, <2>4, <3>1, <3>2, <3>3, <3>4 DEF PendingOwnsSlot
      <4> QED
        BY <4>1, <4>2
    <3>7. ResumingOwnsSlot'
      BY <1>0, <1>T, <2>2, <2>3, <3>2, <3>3, <3>4 DEF ResumingOwnsSlot
    <3>8. NoSlotLost'
      <4>1. ASSUME socket # "destroyed", NEW s \in Slots
            PROVE  InFree(s)' \/ pending'[s] # None \/ \E x \in Calls : InMicro(x)' /\ slot'[x] = s
        <5>1. CASE s = id
          BY <1>T, <3>2, <3>4, <5>1
        <5>2. CASE s # id
          <6>1. \A x \in Calls : InMicro(x) => InMicro(x)' /\ slot'[x] = slot[x]
            BY <1>T, <3>2, <3>3, <3>4
          <6> QED
            BY <1>0, <1>T, <2>2, <3>4, <4>1, <5>2, <6>1 DEF NoSlotLost
        <5> QED
          BY <5>1, <5>2
      <4> QED
        BY <2>2, <4>1 DEF NoSlotLost
    <3> QED
      BY <2>5, <3>5, <3>6, <3>7, <3>8 DEF Inv
  <2> QED
    BY <2>7, <2>8
\* What neither the pool nor the calls notice.
<1>6. CASE EndOfChunk \/ (\E ok \in BOOLEAN : OnHandshake(ok)) \/ close \/ Reset \/ ServerGone
           \/ ConnectionEnds \/ UNCHANGED vars
  <2>1. Same /\ UNCHANGED <<promise, slot, body, pending>>
    BY <1>6 DEF EndOfChunk, OnHandshake, close, Reset, ServerGone, ConnectionEnds, vars,
       callVars, poolVars
  <2>2. wire' \subseteq wire /\ (socket' # "destroyed" => socket # "destroyed")
    BY <1>6 DEF EndOfChunk, OnHandshake, close, Reset, ServerGone, ConnectionEnds, vars, netVars
  <2>3. EventsAfterEnd'
    BY <1>0, <1>6 DEF EndOfChunk, OnHandshake, close, Reset, ServerGone, ConnectionEnds, vars,
       netVars, EventsAfterEnd
  <2>4. handling' \in BOOLEAN /\ closed' \in BOOLEAN
    BY <1>0, <1>6, Zenon DEF EndOfChunk, OnHandshake, close, Reset, ServerGone, ConnectionEnds, vars, TypeOK
  <2>5. /\ connecting' \in {"pending", "resolved", "rejected"}
        /\ socket' \in {"open", "ended", "destroyed"} /\ events' \in Seq({"error", "close"})
    <3>1. <<"error", "close">> \in Seq({"error", "close"}) /\ <<"close">> \in Seq({"error", "close"})
      OBVIOUS
    <3>2. events' \in {events, <<"error", "close">>, <<"close">>}
      BY <1>6, Zenon DEF EndOfChunk, OnHandshake, close, Reset, ServerGone, ConnectionEnds, vars, netVars
    <3>3. connecting' \in {"pending", "resolved", "rejected"} /\ socket' \in {"open", "ended", "destroyed"}
      BY <1>0, <1>6 DEF EndOfChunk, OnHandshake, close, Reset, ServerGone, ConnectionEnds, vars,
         netVars, TypeOK
    <3> QED
      BY <1>0, <3>1, <3>2, <3>3 DEF TypeOK
  <2>6. TypeOK'
    BY <1>0, <2>1, <2>2, <2>4, <2>5 DEF TypeOK
  <2>7. QueuedWaits' /\ ResumingOwnsSlot' /\ PendingOwnsSlot'
    BY <1>0, <1>Q, <2>1 DEF QueuedWaits, ResumingOwnsSlot, PendingOwnsSlot
  <2>8. WireIsPending' /\ NoSlotLost' /\ NoCrossTalk'
    BY <1>0, <1>Q, <2>1, <2>2 DEF WireIsPending, NoSlotLost, NoCrossTalk
  <2> QED
    BY <1>0, <1>Q, <2>1, <2>3, <2>6, <2>7, <2>8 DEF Inv
<1>7. CASE OnEvent
  <2>1. /\ Same /\ UNCHANGED <<slot, body, handling, closed, socket, wire>>
        /\ events # <<>> /\ events' = Tail(events)
        /\ pending' = [s \in Slots |-> None]
    BY <1>7 DEF OnEvent, fail
  <2>2. /\ \A c \in Calls : \/ promise'[c] = promise[c]
                            \/ promise'[c] = "rejected" /\ \E s \in Slots : pending[s] = c
        /\ promise' \in [Calls -> {"new", "waits", "resolved", "rejected"}]
        /\ connecting' \in {"pending", "resolved", "rejected"}
    BY <1>0, <1>7 DEF OnEvent, fail, TypeOK
  <2>3. socket = "destroyed" /\ wire = {}
    BY <1>0, <2>1 DEF EventsAfterEnd
  <2>4. TypeOK'
    BY <1>0, <2>1, <2>2 DEF TypeOK
  <2>5. \A c \in Calls : InMicro(c) \/ InWaiters(c) => promise'[c] = promise[c]
    BY <1>0, <2>2 DEF PendingOwnsSlot, ResumingOwnsSlot
  <2>6. QueuedWaits' /\ ResumingOwnsSlot' /\ PendingOwnsSlot'
    BY <1>0, <1>T, <1>Q, <2>1, <2>5 DEF QueuedWaits, ResumingOwnsSlot, PendingOwnsSlot
  <2>7. WireIsPending' /\ NoSlotLost' /\ NoCrossTalk' /\ EventsAfterEnd'
    BY <1>0, <2>1, <2>2, <2>3 DEF WireIsPending, NoSlotLost, NoCrossTalk, EventsAfterEnd
  <2> QED
    BY <1>0, <1>Q, <2>1, <2>4, <2>6, <2>7 DEF Inv
<1> QED
  BY <1>1, <1>2, <1>3, <1>4, <1>5, <1>6, <1>7 DEF Next, Send, EventLoop, Server

LEMMA SpecInv == Spec => []Inv
BY InitInv, NextInv, PTL DEF Spec

\* Every variable of the client keeps its type.
THEOREM TypeCorrect == Spec => []TypeOK
<1>1. Inv => TypeOK
  BY DEF Inv
<1> QED
  BY <1>1, SpecInv, PTL

\* No call is resolved with the response to another call's request
\* (dataset-client.mjs, _onData).
THEOREM ResponsesMatch == Spec => []NoCrossTalk
<1>1. Inv => NoCrossTalk
  BY DEF Inv
<1> QED
  BY <1>1, SpecInv, PTL

\* A set with at most one member, counted.
LEMMA AtMostOne ==
    ASSUME NEW S, \A x, y \in S : x = y
    PROVE  Cardinality(S) = IF S = {} THEN 0 ELSE 1
<1>1. CASE S = {}
  BY <1>1, FS_EmptySet
<1>2. CASE S # {}
  <2>1. PICK x : S = {x}
    BY <1>2
  <2> QED
    BY <1>2, <2>1, FS_Singleton
<1> QED
  BY <1>1, <1>2

\* A slot never has two holders, and always one until _fail has run
\* (dataset-client.mjs, _acquire and _release).
THEOREM SlotsHeldOnce == Spec => []OneHolderPerSlot
<1>1. Inv => OneHolderPerSlot
  <2> SUFFICES ASSUME Inv, NEW s \in Slots
               PROVE  Holders(s) <= 1 /\ (socket # "destroyed" => Holders(s) = 1)
    BY DEF OneHolderPerSlot
  <2>1. Cardinality(FreeAt(s)) = IF InFree(s) THEN 1 ELSE 0
    <3>1. \A i, j \in FreeAt(s) : i = j
      BY DEF FreeAt, Inv, NoneTwice, Distinct
    <3>2. FreeAt(s) = {} <=> ~InFree(s)
      BY DEF FreeAt, InFree, Has
    <3> QED
      BY <3>1, <3>2, AtMostOne
  <2>2. Cardinality(Resuming(s)) = IF \E c \in Calls : InMicro(c) /\ slot[c] = s THEN 1 ELSE 0
    <3>1. Resuming(s) = {c \in Calls : InMicro(c) /\ slot[c] = s}
      BY DEF Resuming, InMicro, Has
    <3>2. \A c, d \in Resuming(s) : c = d
      BY <3>1 DEF Inv, ResumingOwnsSlot
    <3> QED
      BY <3>1, <3>2, AtMostOne
  <2>3. /\ InFree(s) => pending[s] = None /\ ~\E c \in Calls : InMicro(c) /\ slot[c] = s
        /\ (\E c \in Calls : InMicro(c) /\ slot[c] = s) => pending[s] = None
    BY DEF Inv, TypeOK, PendingOwnsSlot, ResumingOwnsSlot
  <2>4. socket # "destroyed" =>
           InFree(s) \/ pending[s] # None \/ \E c \in Calls : InMicro(c) /\ slot[c] = s
    BY DEF Inv, NoSlotLost
  <2> QED
    BY <2>1, <2>2, <2>3, <2>4 DEF Holders
<1> QED
  BY <1>1, SpecInv, PTL
=============================================================================
