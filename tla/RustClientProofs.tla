-------------------------- MODULE RustClientProofs --------------------------
(***************************************************************************)
(* Proofs about RustClient, for any number of callers, slots and calls,    *)
(* with calls dropped at any await, frames cut and too long, answers to    *)
(* bytes that are no frame, and the connection closing at any time.        *)
(***************************************************************************)
EXTENDS RustClient, FiniteSetTheorems, SequenceTheorems, TLAPS

InFree(s) == \E i \in 1..Len(free) : free[i] = s

\* The free list is free: no slot is on it twice, no sender waits in it.
FreeIsFree ==
    /\ \A i, j \in 1..Len(free) : free[i] = free[j] => i = j
    /\ \A i \in 1..Len(free) : senders[free[i]] = Nobody

\* A request on the connection has its own sender in its slot.
WireOwnsSlot ==
    \A req \in wire : senders[req[1]] = req[2] /\ ~InFree(req[1])

\* So has a call that is about to write its frame, and nobody else has used
\* that slot yet.  Once read_loop has returned this no longer holds, but then
\* nothing more is put on the connection.
WriterOwnsSlot ==
    conn = "open" => \A c \in Callers : pc[c] = "write" =>
                /\ senders[slot[c]] = Current(c)
                /\ ~InFree(slot[c])
                /\ \A req \in wire : req[1] # slot[c]

\* read_loop ends only after the connection has closed.
ReaderEndsAfterClose ==
    reader.at \in {"eof", "stopped"} => conn = "closed" /\ wire = {}

\* read_loop holds the sender of the call whose response it has read.
ReaderHoldsOwnSender ==
    reader.at = "sending" => reader.to \in {Nobody, reader.body}

ReceiverIsClean ==
    \A c \in Callers :
        /\ pc[c] \in {"acquire", "alloc"} => rx[c] = Nobody
        /\ pc[c] \in {"write", "await"} => rx[c] \in {Nobody, Closed, Current(c)}

WireUnique == \A r1, r2 \in wire : r1[1] = r2[1] => r1 = r2

\* What holds until an answer to bytes that are no frame has been read.
Tidy ==
    /\ FreeIsFree /\ WireOwnsSlot /\ WriterOwnsSlot /\ WireUnique
    /\ ReaderHoldsOwnSender /\ ReceiverIsClean

\* What makes NoCrossTalk inductive.
Inv == TypeOK /\ ReaderEndsAfterClose /\ (strays = 0 => Tidy)

-----------------------------------------------------------------------------
USE RustClientAssumption DEF Slots, CallId

LEMMA InitInv == Init => Inv
<1> SUFFICES ASSUME Init PROVE Inv
  OBVIOUS
<1>1. TypeOK /\ ReaderEndsAfterClose
  BY DEF Init, TypeOK, ReaderEndsAfterClose, Labels, ReaderState, Framings
<1>2. Tidy
  BY DEF Init, Tidy, FreeIsFree, WireOwnsSlot, WriterOwnsSlot, InFree, WireUnique,
         ReaderHoldsOwnSender, ReceiverIsClean
<1> QED
  BY <1>1, <1>2 DEF Inv

LEMMA PopStack ==
    ASSUME NEW S, NEW q \in Seq(S), q # <<>>
    PROVE  LET p == SubSeq(q, 1, Len(q) - 1)
           IN  /\ Len(q) \in Nat \ {0} /\ q[Len(q)] \in S
               /\ p \in Seq(S) /\ Len(p) = Len(q) - 1
               /\ \A i \in 1..Len(p) : i \in 1..Len(q) /\ i # Len(q) /\ p[i] = q[i]
<1>1. PICK n \in Nat : n = Len(q) - 1 /\ Len(q) = n + 1
  OBVIOUS
<1>2. q[Len(q)] \in S /\ \A i \in 1..n : i \in 1..Len(q) /\ i # Len(q) /\ q[i] \in S
  BY <1>1
<1> DEFINE p == SubSeq(q, 1, n)
<1>3. /\ p \in Seq(S)
      /\ Len(p) = IF 1 <= n THEN n - 1 + 1 ELSE 0
      /\ \A i \in 1..(n - 1 + 1) : p[i] = q[1 + i - 1]
  BY <1>2, SubSeqProperties
<1> HIDE DEF p
<1>4. Len(p) = n /\ \A i \in 1..n : p[i] = q[i]
  BY <1>3
<1>5. p = SubSeq(q, 1, Len(q) - 1)
  BY <1>1 DEF p
<1>6. Len(p) = Len(q) - 1 /\ \A i \in 1..Len(p) : i \in 1..Len(q) /\ i # Len(q) /\ p[i] = q[i]
  BY <1>1, <1>2, <1>4
<1> QED
  BY <1>2, <1>3, <1>5, <1>6

LEMMA PushStack ==
    ASSUME NEW S, NEW q \in Seq(S), NEW x \in S
    PROVE  LET p == Append(q, x)
           IN  /\ p \in Seq(S) /\ Len(p) = Len(q) + 1 /\ Len(q) \in Nat
               /\ p[Len(q) + 1] = x
               /\ \A i \in 1..Len(q) : p[i] = q[i]
               /\ \A i \in 1..Len(p) : i \in 1..Len(q) \/ i = Len(q) + 1
OBVIOUS

\* Senders that are dropped leave every receiver something of its type.
LEMMA DroppedType ==
    ASSUME TypeOK, NEW slots, Dropped(slots)
    PROVE  rx' \in [Callers -> CallId \cup {Nobody, Closed, Stray}]
BY DEF TypeOK, Dropped

LEMMA NextType == TypeOK /\ [Next]_vars => TypeOK'
<1> SUFFICES ASSUME TypeOK, [Next]_vars PROVE TypeOK'
  OBVIOUS
<1>0. TypeOK
  OBVIOUS
<1>1. ASSUME NEW c \in Callers, Call(c) PROVE TypeOK'
  <2>1. pc' \in [Callers -> Labels]
    BY <1>1 DEF Call, TypeOK, Goto, Labels
  <2>2. calls' \in [Callers -> Nat] /\ rx' \in [Callers -> CallId \cup {Nobody, Closed, Stray}]
    BY <1>1 DEF Call, TypeOK
  <2> QED
    BY <1>1, <2>1, <2>2 DEF Call, TypeOK, clientVars, damageVars
<1>11. ASSUME NEW c \in Callers, Acquire(c) \/ AllocPanics(c) \/ Return(c) PROVE TypeOK'
  <2>1. pc' \in [Callers -> Labels]
    BY <1>11 DEF Acquire, AllocPanics, Return, TypeOK, Goto, Labels
  <2>2. sem' \in Nat
    BY <1>11 DEF Acquire, AllocPanics, Return, TypeOK
  <2> QED
    BY <1>11, <2>1, <2>2 DEF Acquire, AllocPanics, Return, TypeOK, damageVars
<1>12. ASSUME NEW c \in Callers, Cancel(c) PROVE TypeOK'
  <2>1. pc' \in [Callers -> Labels]
    BY <1>12 DEF Cancel, TypeOK, Goto, Labels
  <2>2. sem' \in Nat
    BY <1>12 DEF Cancel, TypeOK
  <2> QED
    BY <1>12, <2>1, <2>2 DEF Cancel, TypeOK, damageVars
<1>13. ASSUME NEW c \in Callers, Cut(c) PROVE TypeOK'
  <2>1. pc' \in [Callers -> Labels]
    BY <1>13 DEF Cut, TypeOK, Goto, Labels
  <2>2. framing' \in Framings /\ sem' \in Nat
    BY <1>13 DEF Cut, TypeOK, Framings
  <2> QED
    BY <1>13, <2>1, <2>2 DEF Cut, TypeOK
<1>14. ASSUME NEW c \in Callers, WriteTooLong(c) PROVE TypeOK'
  <2>1. pc' \in [Callers -> Labels] /\ framing' \in Framings
    BY <1>14 DEF WriteTooLong, TypeOK, Goto, Labels, Framings
  <2> QED
    BY <1>14, <2>1 DEF WriteTooLong, TypeOK, clientVars
<1>2. ASSUME NEW c \in Callers, Alloc(c) PROVE TypeOK'
  <2>1. Current(c) \in CallId
    BY DEF TypeOK, Current
  <2>2. free # <<>> /\ free \in Seq(Slots)
    BY <1>2 DEF Alloc, TypeOK
  <2>3. free[Len(free)] \in Slots /\ SubSeq(free, 1, Len(free) - 1) \in Seq(Slots)
    BY <2>2, PopStack
  <2>4. rx' \in [Callers -> CallId \cup {Nobody, Closed, Stray}]
    BY <1>2, DroppedType DEF Alloc
  <2>5. pc' \in [Callers -> Labels] /\ slot' \in [Callers -> Slots] /\ free' \in Seq(Slots)
        /\ senders' \in [Slots -> CallId \cup {Nobody}]
    BY <1>2, <2>1, <2>3 DEF Alloc, TypeOK, Goto, Labels
  <2> QED
    BY <1>2, <2>4, <2>5 DEF Alloc, TypeOK, damageVars
<1>3. ASSUME NEW c \in Callers, Write(c) PROVE TypeOK'
  <2>1. Current(c) \in CallId /\ slot[c] \in Slots
    BY DEF TypeOK, Current
  <2>2. wire' \subseteq Slots \X CallId /\ framing' \in Framings
    BY <1>3, <2>1 DEF Write, TypeOK, Framings
  <2> QED
    BY <1>3, <2>2 DEF Write, TypeOK, Goto, Labels, clientVars
<1>4. ASSUME NEW req \in wire, Receive(req) PROVE TypeOK'
  <2>1. req[1] \in Slots /\ req[2] \in CallId
    BY DEF TypeOK
  <2>2. reader' \in ReaderState /\ senders' \in [Slots -> CallId \cup {Nobody}]
        /\ free' \in Seq(Slots) /\ wire' \subseteq Slots \X CallId
    BY <1>4, <2>1, PushStack DEF Receive, TypeOK, ReaderState
  <2> QED
    BY <1>4, <2>2 DEF Receive, TypeOK, damageVars
<1>5. ASSUME NEW id \in Slots, ReceiveStray(id) PROVE TypeOK'
  <2>1. reader' \in ReaderState /\ senders' \in [Slots -> CallId \cup {Nobody}]
        /\ free' \in Seq(Slots)
    BY <1>5, PushStack DEF ReceiveStray, TypeOK, ReaderState
  <2> QED
    BY <1>5, <2>1 DEF ReceiveStray, TypeOK
<1>6. CASE ReaderPanics
  BY <1>6 DEF ReaderPanics, TypeOK, ReaderState, clientVars
<1>7. CASE Deliver
  <2>1. reader.body \in CallId \cup {Stray}
    BY <1>7 DEF Deliver, TypeOK, ReaderState
  <2> QED
    BY <1>7, <2>1 DEF Deliver, TypeOK, ReaderState, clientVars, damageVars
<1>8. CASE ReadFails \/ Close
  BY <1>8 DEF ReadFails, Close, TypeOK, ReaderState, clientVars, damageVars
<1>9. CASE DropSenders
  BY <1>9, DroppedType DEF DropSenders, TypeOK, ReaderState, damageVars
<1>10. CASE UNCHANGED vars
  BY <1>10 DEF vars, clientVars, damageVars, TypeOK
<1> QED
  BY <1>1, <1>2, <1>3, <1>4, <1>5, <1>6, <1>7, <1>8, <1>9, <1>10, <1>11, <1>12, <1>13,
     <1>14 DEF Next, CallStep, ReadLoop, Finished

LEMMA NextEnds == TypeOK /\ ReaderEndsAfterClose /\ [Next]_vars => ReaderEndsAfterClose'
BY DEF ReaderEndsAfterClose, Next, CallStep, ReadLoop, Finished, Call, Acquire, Alloc,
       AllocPanics, Write, WriteTooLong, Return, Cancel, Cut, Receive, ReceiveStray,
       ReaderPanics, Deliver, Close, ReadFails, DropSenders, vars

LEMMA NextTidy ==
    TypeOK /\ TypeOK' /\ ReaderEndsAfterClose /\ Tidy /\ strays = 0 /\ [Next]_vars /\ strays' = 0
        => Tidy'
<1> SUFFICES ASSUME TypeOK, TypeOK', ReaderEndsAfterClose, Tidy, strays = 0, [Next]_vars,
                    strays' = 0
             PROVE  Tidy'
  OBVIOUS
<1>0. /\ TypeOK /\ FreeIsFree /\ WireOwnsSlot /\ WriterOwnsSlot /\ WireUnique
      /\ ReaderEndsAfterClose /\ ReaderHoldsOwnSender /\ ReceiverIsClean
  BY DEF Tidy
<1> DEFINE Goal == /\ FreeIsFree' /\ WireOwnsSlot' /\ WriterOwnsSlot' /\ WireUnique'
                   /\ ReaderHoldsOwnSender' /\ ReceiverIsClean'
<1> SUFFICES Goal
  BY DEF Tidy
<1>1. ASSUME NEW c \in Callers, Call(c) PROVE Goal
  <2> USE <1>0, <1>1 DEF Call, TypeOK, Goto, clientVars
  <2>1. FreeIsFree' /\ WireOwnsSlot' /\ WireUnique'
    BY DEF FreeIsFree, WireOwnsSlot, WireUnique, InFree
  <2>2. WriterOwnsSlot' /\ ReceiverIsClean'
    BY DEF Labels, WriterOwnsSlot, InFree, ReceiverIsClean, Current
  <2> QED
    BY <2>1, <2>2 DEF ReaderHoldsOwnSender
<1>2. ASSUME NEW c \in Callers, Acquire(c) PROVE Goal
  <2> USE <1>0, <1>2 DEF Acquire, TypeOK, Goto
  <2>1. FreeIsFree' /\ WireOwnsSlot' /\ WireUnique'
    BY DEF FreeIsFree, WireOwnsSlot, WireUnique, InFree
  <2>2. WriterOwnsSlot' /\ ReceiverIsClean'
    BY DEF Labels, WriterOwnsSlot, InFree, ReceiverIsClean, Current
  <2> QED
    BY <2>1, <2>2 DEF ReaderHoldsOwnSender
<1>3. ASSUME NEW c \in Callers, Alloc(c) PROVE Goal
  <2> PICK id : id = free[Len(free)]
    OBVIOUS
  <2>1. /\ Len(free) \in Nat \ {0} /\ id \in Slots
        /\ free' \in Seq(Slots)
        /\ \A i \in 1..Len(free') : i \in 1..Len(free) /\ i # Len(free) /\ free'[i] = free[i]
    <3> DEFINE p == SubSeq(free, 1, Len(free) - 1)
    <3>1. /\ Len(free) \in Nat \ {0} /\ free[Len(free)] \in Slots
          /\ p \in Seq(Slots) /\ Len(p) = Len(free) - 1
          /\ \A i \in 1..Len(p) : i \in 1..Len(free) /\ i # Len(free) /\ p[i] = free[i]
      <4>1. free \in Seq(Slots) /\ free # <<>>
        BY <1>0, <1>3 DEF Alloc, TypeOK
      <4> QED
        BY <4>1, PopStack
    <3>2. free' = p
      BY <1>3 DEF Alloc
    <3> HIDE DEF p
    <3> QED
      BY <3>1, <3>2
  <2>2. InFree(id) /\ ~InFree(id)' /\ \A s : InFree(s)' => InFree(s)
    <3>1. \A i \in 1..Len(free) : free[i] = id => i = Len(free)
      BY <1>0, <2>1 DEF FreeIsFree
    <3>2. InFree(id) /\ ~InFree(id)'
      BY <2>1, <3>1 DEF InFree
    <3> QED
      BY <2>1, <3>2 DEF InFree
  <2>3. \A req \in wire : req[1] # id
    BY <1>0, <2>2 DEF WireOwnsSlot
  <2>4. senders' = [senders EXCEPT ![id] = Current(c)] /\ Current(c) \in CallId
    BY <1>0, <1>3 DEF Alloc, TypeOK, Current, CallId
  <2>5. rx' = rx
    <3>1. senders[id] = Nobody
      BY <1>0, <2>1 DEF FreeIsFree
    <3>2. \A d \in Callers : ~Waiting(d, senders[id])
      BY <1>0, <3>1 DEF Waiting, Current, TypeOK
    <3>3. rx' = [d \in Callers |-> IF \E s \in {id} : Waiting(d, senders[s]) THEN Closed ELSE rx[d]]
      BY <1>3 DEF Alloc, Dropped
    <3>4. rx' = [d \in Callers |-> rx[d]]
      BY <3>2, <3>3
    <3> QED
      BY <1>0, <3>4 DEF TypeOK
  <2>6. FreeIsFree'
    <3>1. \A i, j \in 1..Len(free') : free'[i] = free'[j] => i = j
      BY <1>0, <2>1 DEF FreeIsFree
    <3>2. \A i \in 1..Len(free') : senders[free'[i]] = Nobody /\ free'[i] # id
      BY <1>0, <2>1, <2>2 DEF FreeIsFree, InFree
    <3>3. \A i \in 1..Len(free') : free'[i] \in Slots
      BY <2>1
    <3> QED
      BY <1>0, <2>4, <3>1, <3>2, <3>3 DEF FreeIsFree, TypeOK
  <2>7. WireOwnsSlot' /\ WireUnique'
    BY <1>0, <1>3, <2>2, <2>3, <2>4 DEF Alloc, WireOwnsSlot, WireUnique, TypeOK
  <2>8. WriterOwnsSlot'
    <3> SUFFICES ASSUME conn = "open", NEW d \in Callers, pc'[d] = "write",
                        NEW t, t = slot'[d]
                 PROVE  /\ senders'[t] = Current(d)
                        /\ ~InFree(t)'
                        /\ \A req \in wire : req[1] # t
      BY <1>3, Zenon DEF Alloc, WriterOwnsSlot, InFree, Current
    <3>1. CASE d = c
      BY <3>1, <1>0, <1>3, <2>1, <2>2, <2>3, <2>4 DEF Alloc, TypeOK
    <3>2. CASE d # c
      <4>1. slot[d] = t /\ pc[d] = "write"
        BY <3>2, <1>0, <1>3 DEF Alloc, Goto, TypeOK
      <4>2. /\ senders[t] = Current(d) /\ ~InFree(t)
            /\ \A req \in wire : req[1] # t
        BY <4>1, <1>0 DEF WriterOwnsSlot
      <4> QED
        BY <4>1, <4>2, <1>0, <2>2, <2>4 DEF TypeOK
    <3> QED
      BY <3>1, <3>2
  <2> QED
    BY <1>0, <1>3, <2>5, <2>6, <2>7, <2>8
       DEF Alloc, Goto, TypeOK, ReaderHoldsOwnSender, ReceiverIsClean, Current
<1>4. ASSUME NEW c \in Callers, AllocPanics(c) PROVE Goal
  <2> USE <1>0, <1>4 DEF AllocPanics, TypeOK, Goto
  <2>1. FreeIsFree' /\ WireOwnsSlot' /\ WireUnique'
    BY DEF FreeIsFree, WireOwnsSlot, WireUnique, InFree
  <2>2. WriterOwnsSlot' /\ ReceiverIsClean'
    BY DEF Labels, WriterOwnsSlot, InFree, ReceiverIsClean, Current
  <2> QED
    BY <2>1, <2>2 DEF ReaderHoldsOwnSender
<1>5. ASSUME NEW c \in Callers, Write(c) \/ WriteTooLong(c) PROVE Goal
  <2>1. /\ \A s : InFree(s)' <=> InFree(s)
        /\ FreeIsFree' /\ ReceiverIsClean' /\ ReaderHoldsOwnSender'
        /\ pc[c] = "write"
        /\ \A d \in Callers : pc'[d] = "write" => d # c /\ pc[d] = "write"
        /\ senders' = senders /\ slot' = slot /\ calls' = calls /\ conn' = conn
    BY <1>0, <1>5 DEF Write, WriteTooLong, Goto, clientVars, TypeOK, InFree, FreeIsFree,
                      ReceiverIsClean, ReaderHoldsOwnSender, Current
  <2>2. CASE wire' = wire
    BY <2>1, <2>2, <1>0 DEF WireOwnsSlot, WriterOwnsSlot, WireUnique, Current
  <2>3. CASE conn = "open" /\ wire' = wire \cup {<<slot[c], Current(c)>>}
    <3> DEFINE new == <<slot[c], Current(c)>>
    <3>1. wire' = wire \cup {new} /\ new[1] = slot[c] /\ new[2] = Current(c)
      BY <2>3
    <3>2. /\ senders[slot[c]] = Current(c) /\ ~InFree(slot[c])
          /\ \A req \in wire : req[1] # slot[c]
      BY <2>1, <2>3, <1>0 DEF WriterOwnsSlot
    <3>3. WireOwnsSlot'
      BY <1>0, <2>1, <3>1, <3>2 DEF WireOwnsSlot
    <3>4. WireUnique'
      BY <1>0, <3>1, <3>2 DEF WireUnique
    <3>5. WriterOwnsSlot'
      <4> SUFFICES ASSUME NEW d \in Callers, d # c, pc[d] = "write"
                   PROVE  /\ senders[slot[d]] = Current(d)
                          /\ ~InFree(slot[d])
                          /\ \A req \in wire' : req[1] # slot[d]
        BY <2>1 DEF WriterOwnsSlot, Current
      <4>1. /\ senders[slot[d]] = Current(d) /\ ~InFree(slot[d])
            /\ \A req \in wire : req[1] # slot[d]
        BY <2>3, <1>0 DEF WriterOwnsSlot
      <4>2. slot[d] # slot[c]
        BY <4>1, <3>2 DEF Current
      <4> QED
        BY <4>1, <4>2, <3>1
    <3> QED
      BY <2>1, <3>3, <3>4, <3>5
  <2> QED
    BY <2>2, <2>3, <1>0, <1>5 DEF TypeOK, Write, WriteTooLong
<1>6. ASSUME NEW c \in Callers, Return(c) PROVE Goal
  <2> USE <1>0, <1>6 DEF Return, TypeOK, Goto
  <2>1. FreeIsFree' /\ WireOwnsSlot' /\ WireUnique'
    BY DEF FreeIsFree, WireOwnsSlot, WireUnique, InFree
  <2>2. WriterOwnsSlot' /\ ReceiverIsClean'
    BY DEF Labels, WriterOwnsSlot, InFree, ReceiverIsClean, Current
  <2> QED
    BY <2>1, <2>2 DEF ReaderHoldsOwnSender
<1>7. ASSUME NEW c \in Callers, Cancel(c) \/ Cut(c) PROVE Goal
  <2> USE <1>0, <1>7 DEF Cancel, Cut, TypeOK, Goto
  <2>1. FreeIsFree' /\ WireOwnsSlot' /\ WireUnique'
    BY DEF FreeIsFree, WireOwnsSlot, WireUnique, InFree
  <2>2. WriterOwnsSlot' /\ ReceiverIsClean'
    BY DEF Labels, WriterOwnsSlot, InFree, ReceiverIsClean, Current
  <2> QED
    BY <2>1, <2>2 DEF ReaderHoldsOwnSender
<1>8. ASSUME NEW req \in wire, Receive(req) PROVE Goal
  <2> DEFINE id == req[1]
  <2>1. id \in Slots /\ req[2] \in CallId /\ senders[id] = req[2] /\ ~InFree(id)
    BY <1>0 DEF TypeOK, WireOwnsSlot
  <2>2. /\ free' \in Seq(Slots) /\ Len(free) \in Nat
        /\ free'[Len(free) + 1] = id
        /\ \A i \in 1..Len(free) : free'[i] = free[i]
        /\ \A i \in 1..Len(free') : i \in 1..Len(free) \/ i = Len(free) + 1
    BY <1>0, <1>8, <2>1, PushStack DEF Receive, TypeOK
  <2>3. \A s : InFree(s)' => InFree(s) \/ s = id
    BY <2>2 DEF InFree
  <2>4. \A r \in wire' : r \in wire /\ r[1] # id
    BY <1>0, <1>8 DEF Receive, WireUnique
  <2>5. ReaderHoldsOwnSender'
    BY <1>8, <2>1 DEF Receive, ReaderHoldsOwnSender
  <2>6. FreeIsFree'
    <3>1. \A i \in 1..Len(free) : free[i] \in Slots /\ free[i] # id
      BY <1>0, <2>1 DEF TypeOK, InFree
    <3>2. senders'[id] = Nobody /\ \A s \in Slots : s # id => senders'[s] = senders[s]
      BY <1>0, <1>8, <2>1 DEF Receive, TypeOK
    <3>3. /\ \A i, j \in 1..Len(free) : free[i] = free[j] => i = j
          /\ \A i \in 1..Len(free) : senders[free[i]] = Nobody
      BY <1>0 DEF FreeIsFree
    <3> HIDE DEF id
    <3>4. \A i, j \in 1..Len(free') : free'[i] = free'[j] => i = j
      BY <2>2, <3>1, <3>3
    <3>5. \A i \in 1..Len(free') : senders'[free'[i]] = Nobody
      BY <2>2, <3>1, <3>2, <3>3
    <3> QED
      BY <3>4, <3>5 DEF FreeIsFree
  <2>7. WireOwnsSlot' /\ WireUnique'
    BY <1>0, <1>8, <2>1, <2>3, <2>4 DEF Receive, TypeOK, WireOwnsSlot, WireUnique
  <2>8. WriterOwnsSlot'
    <3> SUFFICES ASSUME conn = "open", NEW d \in Callers, pc[d] = "write"
                 PROVE  /\ senders'[slot[d]] = Current(d)
                        /\ ~InFree(slot[d])'
                        /\ \A r \in wire' : r[1] # slot[d]
      BY <1>8 DEF Receive, WriterOwnsSlot, Current, InFree
    <3>1. /\ senders[slot[d]] = Current(d) /\ ~InFree(slot[d])
          /\ \A r \in wire : r[1] # slot[d]
      BY <1>0 DEF WriterOwnsSlot
    <3> QED
      BY <1>0, <1>8, <2>3, <2>4, <3>1 DEF Receive, TypeOK
  <2> QED
    BY <1>0, <1>8, <2>5, <2>6, <2>7, <2>8
       DEF Receive, ReceiverIsClean, Current
<1>9. CASE Deliver
  <2> USE <1>0, <1>9 DEF Deliver, clientVars, TypeOK
  <2>2. FreeIsFree' /\ WireOwnsSlot' /\ WireUnique'
    BY DEF FreeIsFree, WireOwnsSlot, WireUnique, InFree
  <2>3. ReceiverIsClean'
    <3> SUFFICES ASSUME NEW c \in Callers
                 PROVE  /\ pc[c] \in {"acquire", "alloc"} => rx'[c] = Nobody
                        /\ pc[c] \in {"write", "await"} => rx'[c] \in {Nobody, Closed, Current(c)}
      BY DEF ReceiverIsClean, Current
    <3>1. CASE Waiting(c, reader.to)
      <4>1. reader.to = Current(c) /\ rx'[c] = reader.body /\ pc[c] \in {"write", "await"}
        BY <3>1 DEF Waiting
      <4>2. reader.to # Nobody
        BY <4>1 DEF Current
      <4> QED
        BY <4>1, <4>2 DEF ReaderHoldsOwnSender
    <3>2. CASE ~Waiting(c, reader.to)
      BY <3>2 DEF ReceiverIsClean
    <3> QED
      BY <3>1, <3>2
  <2>4. WriterOwnsSlot'
    BY DEF WriterOwnsSlot, InFree, Current
  <2> QED
    BY <2>2, <2>3, <2>4 DEF ReaderHoldsOwnSender
<1>10. CASE ReadFails \/ Close
  <2> USE <1>0, <1>10 DEF ReadFails, Close, clientVars, TypeOK
  <2>1. FreeIsFree' /\ WireOwnsSlot' /\ WireUnique' /\ WriterOwnsSlot'
    BY DEF FreeIsFree, WireOwnsSlot, WriterOwnsSlot, WireUnique, InFree, Current
  <2> QED
    BY <2>1 DEF ReaderHoldsOwnSender, ReceiverIsClean, Current
<1>11. CASE DropSenders
  <2>1. conn = "closed" /\ wire = {} /\ wire' = wire /\ conn' = conn
    BY <1>0, <1>11 DEF DropSenders, ReaderEndsAfterClose
  <2>2. FreeIsFree'
    BY <1>0, <1>11 DEF DropSenders, FreeIsFree, TypeOK
  <2>3. ReceiverIsClean'
    BY <1>0, <1>11 DEF DropSenders, Dropped, ReceiverIsClean, Waiting, Current, TypeOK
  <2> QED
    BY <1>11, <2>1, <2>2, <2>3
       DEF DropSenders, WireOwnsSlot, WriterOwnsSlot, WireUnique, ReaderHoldsOwnSender
<1>12. CASE ReaderPanics \/ \E id \in Slots : ReceiveStray(id)
  <2>1. strays' = strays + 1
    BY <1>12 DEF ReaderPanics, ReceiveStray
  <2> QED
    BY <2>1
<1>13. CASE UNCHANGED vars
  BY <1>0, <1>13 DEF vars, clientVars, TypeOK, FreeIsFree, WireOwnsSlot, WriterOwnsSlot,
         WireUnique, InFree, ReaderHoldsOwnSender, ReceiverIsClean, Current
<1> QED
  BY <1>1, <1>2, <1>3, <1>4, <1>5, <1>6, <1>7, <1>8, <1>9, <1>10, <1>11,
     <1>12, <1>13 DEF Next, CallStep, ReadLoop, Finished

LEMMA NextInv == Inv /\ [Next]_vars => Inv'
<1> SUFFICES ASSUME Inv, [Next]_vars PROVE Inv'
  OBVIOUS
<1>1. TypeOK /\ ReaderEndsAfterClose /\ TypeOK' /\ ReaderEndsAfterClose'
  BY NextType, NextEnds DEF Inv
<1>2. strays' \in {strays, strays + 1} /\ strays \in Nat
  BY <1>1 DEF TypeOK, damageVars, Next, CallStep, ReadLoop, Finished, Call, Acquire, Alloc,
       AllocPanics, Write, WriteTooLong, Return, Cancel, Cut, Receive, ReceiveStray,
       ReaderPanics, Deliver, Close, ReadFails, DropSenders, vars
<1>3. strays' = 0 => Tidy'
  BY <1>1, <1>2, NextTidy DEF Inv
<1> QED
  BY <1>1, <1>3 DEF Inv

LEMMA SpecInv == Spec => []Inv
BY InitInv, NextInv, PTL DEF Spec

\* Every variable of the client keeps its type.
THEOREM TypeCorrect == Spec => []TypeOK
<1>1. Inv => TypeOK
  BY DEF Inv
<1> QED
  BY <1>1, SpecInv, PTL

\* No call gets the response to another call's request, with calls dropped
\* anywhere, inside a frame too, until an answer to no frame has been read.
THEOREM ResponsesMatch == Spec => []NoCrossTalk
<1>1. Inv => NoCrossTalk
  BY DEF Inv, Tidy, ReceiverIsClean, NoCrossTalk, Matched
<1> QED
  BY <1>1, SpecInv, PTL

\* Until then the slot of a request on the connection is neither free nor
\* shared.
THEOREM SlotsExclusive == Spec => []SlotExclusive
<1>1. Inv => SlotExclusive
  BY DEF Inv, Tidy, FreeIsFree, WireOwnsSlot, WireUnique, InFree, SlotExclusive
<1> QED
  BY <1>1, SpecInv, PTL

-----------------------------------------------------------------------------
Holders == {c \in Callers : HasPermit(c)}

LEMMA HoldersFinite == IsFiniteSet(Holders) /\ Cardinality(Holders) \in Nat
BY FS_Subset, FS_CardinalityType DEF Holders

LEMMA TakePermit ==
    ASSUME NEW c \in Callers, c \notin Holders, Holders' = Holders \cup {c},
           sem \in Nat, sem' = sem - 1, PermitsBalanced
    PROVE  PermitsBalanced'
<1>1. Cardinality(Holders') = Cardinality(Holders) + 1
  BY HoldersFinite, FS_AddElement
<1>2. Cardinality(Holders) \in Nat /\ sem + Cardinality(Holders) = max_inflight
  BY HoldersFinite DEF PermitsBalanced, Holders
<1>3. sem' + Cardinality(Holders') = max_inflight
  BY <1>1, <1>2
<1> QED
  BY <1>3 DEF PermitsBalanced, Holders

LEMMA DropPermit ==
    ASSUME NEW c \in Holders, Holders' = Holders \ {c},
           sem \in Nat, sem' = sem + 1, PermitsBalanced
    PROVE  PermitsBalanced'
<1>1. Cardinality(Holders') = Cardinality(Holders) - 1
  BY HoldersFinite, FS_RemoveElement
<1>2. Cardinality(Holders) \in Nat /\ sem + Cardinality(Holders) = max_inflight
  BY HoldersFinite DEF PermitsBalanced, Holders
<1>3. sem' + Cardinality(Holders') = max_inflight
  BY <1>1, <1>2
<1> QED
  BY <1>3 DEF PermitsBalanced, Holders

LEMMA KeepPermit ==
    ASSUME Holders' = Holders, sem' = sem, PermitsBalanced
    PROVE  PermitsBalanced'
BY DEF PermitsBalanced, Holders

\* Permits are neither lost nor created, on any way out of a call.
THEOREM PermitsAlwaysBalanced == Spec => []PermitsBalanced
<1>1. Init => PermitsBalanced
  <2> SUFFICES ASSUME Init PROVE PermitsBalanced
    OBVIOUS
  <2>1. Holders = {} /\ sem = max_inflight
    BY DEF Init, Holders, HasPermit
  <2>2. sem + Cardinality(Holders) = max_inflight
    BY <2>1, FS_EmptySet
  <2> QED
    BY <2>2 DEF PermitsBalanced, Holders
<1>2. TypeOK /\ PermitsBalanced /\ [Next]_vars => PermitsBalanced'
  <2> SUFFICES ASSUME TypeOK, PermitsBalanced, [Next]_vars PROVE PermitsBalanced'
    OBVIOUS
  <2>0. pc \in [Callers -> Labels] /\ sem \in Nat
    BY DEF TypeOK
  <2> USE <2>0 DEF Goto, HasPermit, clientVars
  <2>1. ASSUME NEW c \in Callers, Acquire(c) PROVE PermitsBalanced'
    <3>1. c \notin Holders /\ Holders' = Holders \cup {c}
      BY <2>1 DEF Acquire, Holders
    <3> QED
      BY <2>1, <3>1, TakePermit DEF Acquire
  <2>2. ASSUME NEW c \in Callers, Return(c) \/ AllocPanics(c) PROVE PermitsBalanced'
    <3>1. c \in Holders /\ Holders' = Holders \ {c}
      BY <2>2 DEF Return, AllocPanics, Holders
    <3> QED
      BY <2>2, <3>1, DropPermit DEF Return, AllocPanics
  <2>3. ASSUME NEW c \in Callers, Cancel(c) \/ Cut(c) PROVE PermitsBalanced'
    <3>1. CASE HasPermit(c)
      <4>1. c \in Holders /\ Holders' = Holders \ {c} /\ sem' = sem + 1
        BY <2>3, <3>1 DEF Cancel, Cut, Holders
      <4> QED
        BY <4>1, DropPermit
    <3>2. CASE ~HasPermit(c)
      <4>1. Holders' = Holders /\ sem' = sem
        BY <2>3, <3>2 DEF Cancel, Cut, Holders
      <4> QED
        BY <4>1, KeepPermit
    <3> QED
      BY <3>1, <3>2
  <2>4. ASSUME NEW c \in Callers, Call(c) \/ Alloc(c) \/ Write(c) \/ WriteTooLong(c)
        PROVE  PermitsBalanced'
    <3>1. Holders' = Holders /\ sem' = sem
      BY <2>4 DEF Call, Alloc, Write, WriteTooLong, Holders
    <3> QED
      BY <3>1, KeepPermit
  <2>5. CASE ReadLoop \/ (\E id \in Slots : ReceiveStray(id)) \/ ReaderPanics \/ Close
             \/ UNCHANGED vars
    <3>1. pc' = pc /\ sem' = sem
      BY <2>5 DEF ReadLoop, ReceiveStray, ReaderPanics, Receive, Deliver, ReadFails, DropSenders, Close, vars
    <3> QED
      BY <3>1, KeepPermit DEF Holders
  <2> QED
    BY <2>1, <2>2, <2>3, <2>4, <2>5 DEF Next, CallStep, Finished
<1> QED
  BY <1>1, <1>2, TypeCorrect, PTL DEF Spec

-----------------------------------------------------------------------------
(***************************************************************************)
(* Why a permit means a free slot: a slot that is not free holds a sender, *)
(* no call has a sender in two slots, and a call that waits for its slot   *)
(* has none.  When all the senders belong to calls that wait for their     *)
(* response, each of these has a permit, so as many permits are out as     *)
(* slots are taken, and the caller that is about to take a slot has one    *)
(* more.                                                                   *)
(***************************************************************************)
TakenHasSender == reader.at # "stopped" => \A s \in Slots : senders[s] # Nobody \/ InFree(s)

\* A sender is of a call that has been made and has had its turn to allocate.
SenderOfPast ==
    \A s \in Slots, c \in Callers, n \in Nat : senders[s] = <<c, n>> =>
        n <= calls[c] /\ (pc[c] \in {"acquire", "alloc"} => n < calls[c])

SenderOnce == \A s, t \in Slots : senders[s] = senders[t] /\ senders[s] # Nobody => s = t

SenderInv == TakenHasSender /\ SenderOfPast /\ SenderOnce

\* Steps that leave the slots alone, and take no call back before its slot.
LEMMA SendersSame ==
    ASSUME TypeOK, SenderInv, senders' = senders, free' = free, reader' = reader,
           \A c \in Callers :
              \/ calls'[c] = calls[c] /\ (pc'[c] \in {"acquire", "alloc"} => pc[c] \in {"acquire", "alloc"})
              \/ calls'[c] = calls[c] + 1
    PROVE  SenderInv'
<1>1. TakenHasSender' /\ SenderOnce'
  BY DEF SenderInv, TakenHasSender, SenderOnce, InFree
<1>2. SenderOfPast'
  <2> SUFFICES ASSUME NEW s \in Slots, NEW c \in Callers, NEW n \in Nat, senders[s] = <<c, n>>
               PROVE  n <= calls'[c] /\ (pc'[c] \in {"acquire", "alloc"} => n < calls'[c])
    BY DEF SenderOfPast
  <2>1. n <= calls[c] /\ (pc[c] \in {"acquire", "alloc"} => n < calls[c]) /\ calls[c] \in Nat
    BY DEF SenderInv, SenderOfPast, TypeOK
  <2> QED
    BY <2>1
<1> QED
  BY <1>1, <1>2 DEF SenderInv

\* Steps that take senders out of their slots.
LEMMA SendersFewer ==
    ASSUME TypeOK, SenderInv, calls' = calls, pc' = pc,
           \A s \in Slots : senders'[s] \in {senders[s], Nobody}, TakenHasSender'
    PROVE  SenderInv'
<1>1. SenderOnce'
  BY DEF SenderInv, SenderOnce
<1>2. SenderOfPast'
  <2> SUFFICES ASSUME NEW s \in Slots, NEW c \in Callers, NEW n \in Nat, senders'[s] = <<c, n>>
               PROVE  n <= calls[c] /\ (pc[c] \in {"acquire", "alloc"} => n < calls[c])
    BY DEF SenderOfPast
  <2>1. senders[s] = <<c, n>>
    <3>1. <<c, n>> \in Callers \X Nat
      OBVIOUS
    <3>2. senders'[s] # Nobody
      BY <3>1
    <3> QED
      BY <3>2
  <2> QED
    BY <2>1 DEF SenderInv, SenderOfPast
<1> QED
  BY <1>1, <1>2 DEF SenderInv

LEMMA AllocSenders ==
    ASSUME TypeOK, SenderInv, NEW c \in Callers, Alloc(c)
    PROVE  SenderInv'
<1> DEFINE id == free[Len(free)]
           p == SubSeq(free, 1, Len(free) - 1)
<1>1. /\ Len(free) \in Nat \ {0} /\ id \in Slots /\ Len(p) = Len(free) - 1
      /\ \A i \in 1..Len(p) : p[i] = free[i]
  <2>1. free \in Seq(Slots) /\ free # <<>>
    BY DEF Alloc, TypeOK
  <2> QED
    BY <2>1, PopStack
<1>2. /\ free' = p /\ senders' = [senders EXCEPT ![id] = Current(c)]
      /\ calls' = calls /\ reader' = reader
      /\ pc \in [Callers -> Labels] /\ pc[c] = "alloc" /\ pc' = [pc EXCEPT ![c] = "write"]
      /\ senders \in [Slots -> CallId \cup {Nobody}] /\ calls \in [Callers -> Nat]
  BY DEF Alloc, TypeOK, Goto
<1>3. Current(c) = <<c, calls[c]>> /\ Current(c) # Nobody
  BY <1>2 DEF Current
<1> HIDE DEF p, id
<1>4. TakenHasSender'
  <2> SUFFICES ASSUME reader.at # "stopped", NEW s \in Slots, s # id
               PROVE  senders[s] # Nobody \/ InFree(s)'
    BY <1>1, <1>2, <1>3 DEF TakenHasSender
  <2>1. CASE InFree(s)
    <3>1. PICK i \in 1..Len(free) : free[i] = s
      BY <2>1 DEF InFree
    <3>2. i \in 1..Len(p)
      BY <1>1, <3>1 DEF id
    <3> QED
      BY <1>1, <1>2, <3>1, <3>2 DEF InFree
  <2> QED
    BY <2>1 DEF SenderInv, TakenHasSender
<1>5. \A s \in Slots : senders[s] # Current(c)
  BY <1>2, <1>3 DEF SenderInv, SenderOfPast
<1>6. SenderOnce'
  BY <1>1, <1>2, <1>5 DEF SenderInv, SenderOnce
<1>7. SenderOfPast'
  <2> SUFFICES ASSUME NEW s \in Slots, NEW d \in Callers, NEW n \in Nat, senders'[s] = <<d, n>>
               PROVE  n <= calls[d] /\ (pc'[d] \in {"acquire", "alloc"} => n < calls[d])
    BY <1>2 DEF SenderOfPast
  <2>1. CASE s = id
    <3>1. d = c /\ n = calls[c] /\ pc'[d] = "write"
      BY <1>2, <1>3, <2>1
    <3> QED
      BY <1>2, <3>1
  <2>2. CASE s # id
    <3>1. senders[s] = <<d, n>> /\ (pc'[d] \in {"acquire", "alloc"} => pc[d] \in {"acquire", "alloc"})
      BY <1>2, <2>2
    <3> QED
      BY <3>1 DEF SenderInv, SenderOfPast
  <2> QED
    BY <2>1, <2>2
<1> QED
  BY <1>4, <1>6, <1>7 DEF SenderInv

LEMMA NextSenders == TypeOK /\ SenderInv /\ [Next]_vars => SenderInv'
<1> SUFFICES ASSUME TypeOK, SenderInv, [Next]_vars PROVE SenderInv'
  OBVIOUS
<1>0. /\ pc \in [Callers -> Labels] /\ calls \in [Callers -> Nat] /\ free \in Seq(Slots)
      /\ senders \in [Slots -> CallId \cup {Nobody}] /\ wire \subseteq Slots \X CallId
  BY DEF TypeOK
<1>1. ASSUME NEW c \in Callers,
             \/ Call(c) \/ Acquire(c) \/ AllocPanics(c) \/ Write(c) \/ WriteTooLong(c)
             \/ Return(c) \/ Cancel(c) \/ Cut(c)
      PROVE  SenderInv'
  BY <1>0, <1>1, SendersSame
     DEF Call, Acquire, AllocPanics, Write, WriteTooLong, Return, Cancel, Cut, Goto, clientVars
<1>2. ASSUME NEW c \in Callers, Alloc(c) PROVE SenderInv'
  BY <1>2, AllocSenders
<1>3. CASE Close \/ UNCHANGED vars
  BY <1>3, SendersSame DEF Close, vars, clientVars
<1>4. ASSUME NEW id \in Slots, ReceiveStray(id) \/ \E req \in wire : req[1] = id /\ Receive(req)
      PROVE  SenderInv'
  <2>2. /\ senders' = [senders EXCEPT ![id] = Nobody] /\ free' = Append(free, id)
        /\ calls' = calls /\ pc' = pc /\ reader.at # "stopped"
    BY <1>4 DEF Receive, ReceiveStray
  <2>3. /\ Len(free') = Len(free) + 1 /\ Len(free) \in Nat /\ free'[Len(free) + 1] = id
        /\ \A i \in 1..Len(free) : free'[i] = free[i]
    BY <1>0, <2>2, PushStack
  <2>4. \A s \in Slots : InFree(s) \/ s = id => InFree(s)'
    BY <2>3 DEF InFree
  <2>5. TakenHasSender'
    BY <1>0, <2>2, <2>4 DEF SenderInv, TakenHasSender
  <2> QED
    BY <1>0, <2>2, <2>5, SendersFewer
<1>5. CASE Deliver \/ ReadFails \/ ReaderPanics
  <2>1. UNCHANGED <<pc, calls, senders, free>> /\ reader.at # "stopped"
    BY <1>5 DEF Deliver, ReadFails, ReaderPanics, clientVars
  <2>2. TakenHasSender'
    BY <2>1 DEF SenderInv, TakenHasSender, InFree
  <2> QED
    BY <2>1, <2>2, SendersFewer
<1>6. CASE DropSenders
  <2>1. pc' = pc /\ calls' = calls /\ \A s \in Slots : senders'[s] = Nobody
    BY <1>6 DEF DropSenders
  <2>2. TakenHasSender'
    BY <1>6 DEF DropSenders, TakenHasSender
  <2> QED
    BY <2>1, <2>2, SendersFewer
<1>7. \A req \in wire : req[1] \in Slots
  BY <1>0
<1> QED
  BY <1>1, <1>2, <1>3, <1>4, <1>5, <1>6, <1>7 DEF Next, CallStep, ReadLoop, Finished

\* Until read_loop has returned, a caller that holds a permit finds a free
\* slot, unless the slot of a dropped call is still out (lib.rs, Client.sem).
THEOREM PermitMeansSlot == Spec => []PermitGuaranteesSlotOpen
<1>1. Init => SenderInv
  <2> SUFFICES ASSUME Init PROVE SenderInv
    OBVIOUS
  <2>1. ASSUME NEW s \in Slots PROVE InFree(s) /\ senders[s] = Nobody
    <3>1. s + 1 \in 1..max_inflight /\ free[s + 1] = s /\ Len(free) = max_inflight
      BY DEF Init
    <3> QED
      BY <3>1 DEF Init, InFree
  <2> QED
    BY <2>1 DEF SenderInv, TakenHasSender, SenderOfPast, SenderOnce
<1>2. TypeOK /\ SenderInv /\ PermitsBalanced => PermitGuaranteesSlotOpen
  <2> SUFFICES ASSUME TypeOK, SenderInv, PermitsBalanced, reader.at # "stopped", Orphans = {},
                      NEW c \in Callers, pc[c] = "alloc", free = <<>>
               PROVE  FALSE
    BY DEF PermitGuaranteesSlotOpen, PermitGuaranteesSlot
  <2>1. ASSUME NEW s \in Slots
        PROVE  \E d \in Holders \ {c} : senders[s] = Current(d)
    <3>1. senders[s] # Nobody
      BY DEF SenderInv, TakenHasSender, InFree
    <3>2. PICK d \in Callers : Waiting(d, senders[s])
      BY <3>1 DEF Orphans
    <3> QED
      BY <3>2 DEF Waiting, Holders, HasPermit
  <2> DEFINE owner == [s \in Slots |-> CHOOSE d \in Holders \ {c} : senders[s] = Current(d)]
  <2>2. \A s \in Slots : owner[s] \in Holders \ {c} /\ senders[s] = Current(owner[s])
    BY <2>1
  <2>3. \A s \in Slots : senders[s] # Nobody
    BY DEF SenderInv, TakenHasSender, InFree
  <2>4. owner \in Injection(Slots, Holders \ {c})
    <3>1. owner \in [Slots -> Holders \ {c}]
      BY <2>2
    <3>2. ASSUME NEW s \in Slots, NEW t \in Slots, owner[s] = owner[t] PROVE s = t
      <4>1. senders[s] = senders[t]
        BY <2>2, <3>2
      <4> QED
        BY <2>3, <4>1 DEF SenderInv, SenderOnce
    <3> HIDE DEF owner
    <3> QED
      BY <3>1, <3>2 DEF Injection, IsInjective
  <2> HIDE DEF owner
  <2>5. c \in Holders /\ IsFiniteSet(Holders) /\ Cardinality(Holders) \in Nat
    BY HoldersFinite DEF Holders, HasPermit
  <2>6. Cardinality(Holders \ {c}) = Cardinality(Holders) - 1 /\ IsFiniteSet(Holders \ {c})
    BY <2>5, FS_RemoveElement
  <2>7. Cardinality(Slots) <= Cardinality(Holders \ {c})
    BY <2>4, <2>6, FS_Injection
  <2>8. Cardinality(Slots) = max_inflight
    <3>1. 0 \in Int /\ max_inflight - 1 \in Int /\ ~(0 > max_inflight - 1)
      OBVIOUS
    <3>2. Cardinality(0..(max_inflight - 1)) = (max_inflight - 1) - 0 + 1
      BY <3>1, FS_Interval
    <3> QED
      BY <3>2
  <2>9. sem \in Nat /\ sem + Cardinality(Holders) = max_inflight
    BY DEF TypeOK, PermitsBalanced, Holders
  <2> QED
    BY <2>5, <2>6, <2>7, <2>8, <2>9
<1> QED
  BY <1>1, <1>2, NextSenders, TypeCorrect, PermitsAlwaysBalanced, PTL DEF Spec
=============================================================================
