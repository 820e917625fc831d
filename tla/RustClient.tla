----------------------------- MODULE RustClient -----------------------------
(***************************************************************************)
(* The Rust client's multiplexing (src/clients/rust/src/lib.rs): caller    *)
(* tasks share one connection.  A call takes a semaphore permit, then a    *)
(* free slot whose number is its req_id, writes its frame and waits on its *)
(* oneshot; read_loop hands each response to the sender in its slot.       *)
(*                                                                         *)
(* The critical sections under the slots mutex contain no await, so each   *)
(* is one step.  A call's future may be dropped at any of its awaits       *)
(* (tokio::time::timeout, select!), inside write_all too, and the          *)
(* connection may close.                                                   *)
(*                                                                         *)
(* A frame cut inside write_all, or with a payload longer than its length  *)
(* field can say, leaves the server parsing the stream out of step         *)
(* (Wire).  Here that means: later frames may be swallowed, and the server *)
(* may answer bytes that are no frame of a call, with any req_id.          *)
(***************************************************************************)
EXTENDS Integers, Sequences, FiniteSets

CONSTANTS
    Callers,       \* tasks sharing the client
    max_inflight,  \* slots, and permits of the semaphore
    MaxCalls,      \* bound on the calls of all tasks together, for TLC
    MayCancel,     \* callers may drop the future of a call
    MayClose,      \* the connection may close
    Damage,        \* how frames may be damaged: "cut" inside write_all, too "long"
    MaxStrays,     \* bound on the answers to bytes that are no frame, for TLC
    Nobody,        \* no sender, no response yet
    Closed,        \* the receiver's error: the sender was dropped
    Stray          \* the body of an answer to bytes that are no frame of a call

ASSUME RustClientAssumption ==
    /\ IsFiniteSet(Callers)
    /\ max_inflight \in Nat \ {0} /\ MaxCalls \in Nat
    /\ MayCancel \in BOOLEAN /\ MayClose \in BOOLEAN
    /\ Nobody \notin Callers \X Nat /\ Closed \notin Callers \X Nat
    /\ Nobody # Closed

ASSUME DamageAssumption ==
    /\ Damage \subseteq {"cut", "long"} /\ MaxStrays \in Nat
    /\ Stray \notin Callers \X Nat /\ Stray # Nobody /\ Stray # Closed

VARIABLES
    pc,        \* where each caller's current call is
    calls,     \* how many calls each caller has made
    slot,      \* the req_id of each caller's current call
    rx,        \* what each caller's oneshot receiver holds
    sem,       \* permits left
    senders,   \* Slots.senders: the call whose oneshot sender is in each slot
    free,      \* Slots.free, a stack
    wire,      \* requests on the connection, unanswered or their answers unread
    conn,      \* "open" or "closed"
    reader,    \* what read_loop is doing
    framing,   \* what the server makes of the next bytes written
    strays     \* how many answers to no frame of a call read_loop has read

clientVars == <<sem, senders, free>>
damageVars == <<framing, strays>>
vars == <<pc, calls, slot, rx, clientVars, wire, conn, reader, damageVars>>

Slots == 0..(max_inflight - 1)

\* A call is its caller and its number; the body of a response is the call
\* whose request it answers.
CallId == Callers \X Nat

Current(c) == <<c, calls[c]>>

\* idle; acquire: waits for a permit; alloc: waits for the slots mutex;
\* write: waits for the write half; await: waits for its response; panicked.
Labels == {"idle", "acquire", "alloc", "write", "await", "panicked"}

HasPermit(c) == pc[c] \in {"alloc", "write", "await"}

\* reading a frame; sending: holds the sender it took and the body it read;
\* eof: has left its loop; stopped: has dropped the senders and returned;
\* panicked: has indexed senders out of range.
ReaderState == [at: {"reading", "eof", "stopped", "panicked"}]
               \cup [at: {"sending"}, to: CallId \cup {Nobody}, body: CallId \cup {Stray}]

\* whole: the server stands at the start of a frame; cut: inside a frame whose
\* rest will not come; astray: it parses bytes that are no frame.
Framings == {"whole", "cut", "astray"}

TypeOK ==
    /\ pc \in [Callers -> Labels]
    /\ calls \in [Callers -> Nat]
    /\ slot \in [Callers -> Slots]
    /\ rx \in [Callers -> CallId \cup {Nobody, Closed, Stray}]
    /\ sem \in Nat
    /\ senders \in [Slots -> CallId \cup {Nobody}]
    /\ free \in Seq(Slots)
    /\ wire \subseteq Slots \X CallId
    /\ conn \in {"open", "closed"}
    /\ reader \in ReaderState
    /\ framing \in Framings /\ strays \in Nat

\* Client::connect, the handshake done.
Init ==
    /\ pc = [c \in Callers |-> "idle"]
    /\ calls = [c \in Callers |-> 0]
    /\ slot = [c \in Callers |-> 0]
    /\ rx = [c \in Callers |-> Nobody]
    /\ sem = max_inflight
    /\ senders = [s \in Slots |-> Nobody]
    /\ free = [i \in 1..max_inflight |-> i - 1]
    /\ wire = {} /\ conn = "open" /\ reader = [at |-> "reading"]
    /\ framing = "whole" /\ strays = 0

-----------------------------------------------------------------------------
(***************************************************************************)
(* Client::call.                                                           *)
(***************************************************************************)
Goto(c, label) == pc' = [pc EXCEPT ![c] = label]

\* The calls made so far.
Made == {call \in Callers \X (1..MaxCalls) : call[2] <= calls[call[1]]}

Call(c) ==
    /\ pc[c] = "idle" /\ Cardinality(Made) < MaxCalls
    /\ Goto(c, "acquire")
    /\ calls' = [calls EXCEPT ![c] = @ + 1]
    /\ rx' = [rx EXCEPT ![c] = Nobody]
    /\ UNCHANGED <<slot, clientVars, wire, conn, reader, damageVars>>

Acquire(c) ==
    /\ pc[c] = "acquire" /\ sem > 0
    /\ Goto(c, "alloc")
    /\ sem' = sem - 1
    /\ UNCHANGED <<calls, slot, rx, senders, free, wire, conn, reader, damageVars>>

\* The caller of a call that is still waiting for its response.
Waiting(c, call) == call = Current(c) /\ pc[c] \in {"write", "await"}

\* The senders in these slots are dropped: their receivers get an error.
Dropped(slots) ==
    rx' = [c \in Callers |-> IF \E s \in slots : Waiting(c, senders[s]) THEN Closed ELSE rx[c]]

Alloc(c) ==
    /\ pc[c] = "alloc" /\ free # <<>>
    /\ Goto(c, "write")
    /\ LET id == free[Len(free)]
       IN  /\ slot' = [slot EXCEPT ![c] = id]
           /\ senders' = [senders EXCEPT ![id] = Current(c)]
           /\ Dropped({id})
    /\ free' = SubSeq(free, 1, Len(free) - 1)
    /\ UNCHANGED <<calls, sem, wire, conn, reader, damageVars>>

\* The expect on an empty free list: the task unwinds and drops its permit.
AllocPanics(c) ==
    /\ pc[c] = "alloc" /\ free = <<>>
    /\ Goto(c, "panicked")
    /\ sem' = sem + 1
    /\ UNCHANGED <<calls, slot, rx, senders, free, wire, conn, reader, damageVars>>

\* The result of write_all is ignored.  Behind a cut frame the server takes
\* the frame for the rest of that one; later it may swallow a frame or, if its
\* first byte starts one for the server, find it whole.
Write(c) ==
    /\ pc[c] = "write"
    /\ Goto(c, "await")
    /\ IF conn = "closed"
       THEN UNCHANGED <<wire, framing>>
       ELSE \/ /\ framing # "cut"
               /\ wire' = wire \cup {<<slot[c], Current(c)>>}
               /\ UNCHANGED framing
            \/ framing # "whole" /\ framing' = "astray" /\ UNCHANGED wire
    /\ UNCHANGED <<calls, slot, rx, clientVars, conn, reader, strays>>

\* A payload of more than 65535 bytes: its length is cast to u16, so the server
\* takes its end for the next frame and its own request is not the one sent.
WriteTooLong(c) ==
    /\ "long" \in Damage
    /\ pc[c] = "write" /\ conn = "open"
    /\ Goto(c, "await")
    /\ framing' = "astray"
    /\ UNCHANGED <<calls, slot, rx, clientVars, wire, conn, reader, strays>>

\* Mutant: the permit is not dropped.
Return_keeps_permit(c) ==
    /\ pc[c] = "await" /\ rx[c] # Nobody
    /\ Goto(c, "idle")
    /\ UNCHANGED <<calls, slot, rx, clientVars, wire, conn, reader, damageVars>>

\* The response, or "ERR connection closed"; the permit is dropped.
Return(c) ==
    /\ pc[c] = "await" /\ rx[c] # Nobody
    /\ Goto(c, "idle")
    /\ sem' = sem + 1
    /\ UNCHANGED <<calls, slot, rx, senders, free, wire, conn, reader, damageVars>>

\* Mutant: dropping the future frees its slot.
Cancel_frees_slot(c) ==
    /\ MayCancel
    /\ pc[c] \in {"acquire", "alloc", "write", "await"}
    /\ Goto(c, "idle")
    /\ sem' = IF HasPermit(c) THEN sem + 1 ELSE sem
    /\ free' = IF pc[c] \in {"write", "await"} THEN Append(free, slot[c]) ELSE free
    /\ UNCHANGED <<calls, slot, rx, senders, wire, conn, reader, damageVars>>

\* The future is dropped at an await, before its frame or after all of it.
Cancel(c) ==
    /\ MayCancel
    /\ pc[c] \in {"acquire", "alloc", "write", "await"}
    /\ Goto(c, "idle")
    /\ sem' = IF HasPermit(c) THEN sem + 1 ELSE sem
    /\ UNCHANGED <<calls, slot, rx, senders, free, wire, conn, reader, damageVars>>

\* The future is dropped inside write_all, with a part of its frame written.
Cut(c) ==
    /\ MayCancel /\ "cut" \in Damage
    /\ pc[c] = "write" /\ conn = "open"
    /\ Goto(c, "idle")
    /\ sem' = sem + 1
    /\ framing' = IF framing = "whole" THEN "cut" ELSE "astray"
    /\ UNCHANGED <<calls, slot, rx, senders, free, wire, conn, reader, strays>>

-----------------------------------------------------------------------------
(***************************************************************************)
(* read_loop.  The server answers requests in any order.                   *)
(***************************************************************************)
\* Mutant: the slot of an answered request is not freed.
Receive_keeps_slot(req) ==
    /\ reader.at = "reading" /\ req \in wire
    /\ wire' = wire \ {req}
    /\ reader' = [at |-> "sending", to |-> senders[req[1]], body |-> req[2]]
    /\ senders' = [senders EXCEPT ![req[1]] = Nobody]
    /\ UNCHANGED <<pc, calls, slot, rx, sem, free, conn, damageVars>>

\* Mutant: the number read from the frame is used as a 1-based slot.
Receive_off_by_one(req) ==
    /\ reader.at = "reading" /\ req \in wire
    /\ wire' = wire \ {req}
    /\ reader' = [at |-> "sending", to |-> senders[req[1]], body |-> req[2]]
    /\ senders' = [senders EXCEPT ![req[1]] = Nobody]
    /\ free' = Append(free, req[1] + 1)
    /\ UNCHANGED <<pc, calls, slot, rx, sem, conn, damageVars>>

Receive(req) ==
    /\ reader.at = "reading" /\ req \in wire
    /\ wire' = wire \ {req}
    /\ reader' = [at |-> "sending", to |-> senders[req[1]], body |-> req[2]]
    /\ senders' = [senders EXCEPT ![req[1]] = Nobody]
    /\ free' = Append(free, req[1])
    /\ UNCHANGED <<pc, calls, slot, rx, sem, conn, damageVars>>

\* The answer to bytes that are no frame of a call, a frame that ends in
\* another one included.  Its req_id is any number: for a slot, the call that
\* has its sender there gets the body.
ReceiveStray(id) ==
    /\ reader.at = "reading" /\ framing = "astray" /\ strays < MaxStrays
    /\ strays' = strays + 1
    /\ reader' = [at |-> "sending", to |-> senders[id], body |-> Stray]
    /\ senders' = [senders EXCEPT ![id] = Nobody]
    /\ free' = Append(free, id)
    /\ UNCHANGED <<pc, calls, slot, rx, sem, wire, conn, framing>>

\* For a number that is no slot the index panics, before the slots change;
\* the client keeps the slots, so their senders stay.
ReaderPanics ==
    /\ reader.at = "reading" /\ framing = "astray" /\ strays < MaxStrays
    /\ strays' = strays + 1
    /\ reader' = [at |-> "panicked"]
    /\ UNCHANGED <<pc, calls, slot, rx, clientVars, wire, conn, framing>>

\* The oneshot reaches its call, unless that one's future is gone.
Deliver ==
    /\ reader.at = "sending"
    /\ reader' = [at |-> "reading"]
    /\ rx' = [c \in Callers |-> IF Waiting(c, reader.to) THEN reader.body ELSE rx[c]]
    /\ UNCHANGED <<pc, calls, slot, clientVars, wire, conn, damageVars>>

\* Bytes that are no frame may also make the server end the connection.
Close ==
    /\ MayClose \/ framing = "astray"
    /\ conn = "open"
    /\ conn' = "closed"
    /\ UNCHANGED <<pc, calls, slot, rx, clientVars, wire, reader, damageVars>>

\* read_exact fails: what was still on the connection is lost.
ReadFails ==
    /\ reader.at = "reading" /\ conn = "closed"
    /\ reader' = [at |-> "eof"]
    /\ wire' = {}
    /\ UNCHANGED <<pc, calls, slot, rx, clientVars, conn, damageVars>>

\* Mutant: read_loop returns without dropping the senders.
DropSenders_not ==
    /\ reader.at = "eof"
    /\ reader' = [at |-> "stopped"]
    /\ UNCHANGED <<pc, calls, slot, rx, clientVars, wire, conn, damageVars>>

\* Mutant: every slot is put on the free list.
DropSenders_frees_all ==
    /\ reader.at = "eof"
    /\ reader' = [at |-> "stopped"]
    /\ senders' = [s \in Slots |-> Nobody]
    /\ free' = free \o [i \in 1..max_inflight |-> i - 1]
    /\ Dropped(Slots)
    /\ UNCHANGED <<pc, calls, slot, sem, wire, conn, damageVars>>

DropSenders ==
    /\ reader.at = "eof"
    /\ reader' = [at |-> "stopped"]
    /\ senders' = [s \in Slots |-> Nobody]
    /\ Dropped(Slots)
    /\ UNCHANGED <<pc, calls, slot, sem, free, wire, conn, damageVars>>

CallStep(c) ==
    \/ Acquire(c) \/ Alloc(c) \/ AllocPanics(c)
    \/ Write(c) \/ WriteTooLong(c) \/ Return(c)

ReadLoop == (\E req \in wire : Receive(req)) \/ Deliver \/ ReadFails \/ DropSenders

\* Every task has made its calls and the client is at rest.
Finished ==
    /\ \A c \in Callers : pc[c] \in {"idle", "panicked"}
    /\ Cardinality(Made) = MaxCalls \/ \A c \in Callers : pc[c] = "panicked"
    /\ UNCHANGED vars

Next ==
    \/ \E c \in Callers : Call(c) \/ CallStep(c) \/ Cancel(c) \/ Cut(c)
    \/ ReadLoop
    \/ \E id \in Slots : ReceiveStray(id)
    \/ ReaderPanics
    \/ Close
    \/ Finished

Spec == Init /\ [][Next]_vars

\* Tasks that are ready are polled, and the server answers what it has read.
Fairness == WF_vars(ReadLoop) /\ \A c \in Callers : WF_vars(CallStep(c))

FairSpec == Spec /\ Fairness

-----------------------------------------------------------------------------
\* A call that gets a response gets the one to its own request (lib.rs, call:
\* "await its response, matched by req_id").
Matched == \A c \in Callers : pc[c] = "await" => rx[c] \in {Nobody, Closed, Current(c)}

\* So it is, whatever was cancelled, cut, closed or reused before, until
\* read_loop has read an answer to bytes that are no frame of a call: a slot
\* goes back to the free list only when the response to its last request has
\* been read.
NoCrossTalk == strays = 0 => Matched

\* Until then a request on the connection owns its slot: the slot is not free,
\* no other request has it, and the free list never holds a slot twice.
SlotExclusive ==
    strays = 0 =>
        /\ \A req \in wire : \A i \in 1..Len(free) : free[i] # req[1]
        /\ \A r1, r2 \in wire : r1[1] = r2[1] => r1 = r2
        /\ \A i, j \in 1..Len(free) : free[i] = free[j] => i = j

\* Holding a permit guarantees a free slot exists, so allocation never fails
\* (lib.rs, Client.sem).  The code keeps this promise only under the conditions
\* of PermitGuaranteesSlotOpen; AllocPanics is what happens otherwise.
PermitGuaranteesSlot ==
    \A c \in Callers : pc[c] = "alloc" => free # <<>>

\* Slots whose sender belongs to a call that is gone: its future was dropped.
Orphans == {s \in Slots : senders[s] # Nobody /\ \A c \in Callers : ~Waiting(c, senders[s])}

\* The same until read_loop has dropped the senders, unless the slot of a
\* dropped call is still out: a response frees its slot before the call that
\* waits for it can drop its permit, and only cancellation breaks that order.
\* Stray answers free slots too early, never too late.
PermitGuaranteesSlotOpen == reader.at # "stopped" /\ Orphans = {} => PermitGuaranteesSlot

\* Every permit that is out is held by a call: the permit is dropped on every
\* way out of call, and backpressure never loosens or tightens.
PermitsBalanced == sem + Cardinality({c \in Callers : HasPermit(c)}) = max_inflight

\* When the connection closes, every call that has its sender in a slot, or had
\* it there, gets an answer or the error, and returns, unless read_loop has
\* panicked (lib.rs, read_loop: "drop every outstanding sender so awaiting
\* callers get a RecvError").  This holds behind damage too.
OutstandingReturn ==
    \A c \in Callers :
        (pc[c] \in {"write", "await"} /\ conn = "closed" /\ reader.at # "stopped")
            ~> (pc[c] = "idle" \/ reader.at = "panicked")

\* A call that has been started returns or panics, or the connection closes, or
\* a frame is damaged: no task is starved of a permit, of its slot or of its
\* response by calls that others drop between frames.  (Behind a cut frame the
\* server swallows a later one, whose call then waits until the connection
\* closes.  When a call panics is what PermitGuaranteesSlotOpen says.)
CallsReturnOpen ==
    \A c \in Callers :
        (pc[c] = "acquire")
            ~> (pc[c] \in {"idle", "panicked"} \/ reader.at = "stopped" \/ framing # "whole")

\* A call that has been started returns (lib.rs: "awaiting callers get a
\* RecvError instead of hanging forever").
CallsReturn == \A c \in Callers : (pc[c] = "acquire") ~> (pc[c] \in {"idle", "panicked"})
=============================================================================
