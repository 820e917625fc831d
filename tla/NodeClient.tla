----------------------------- MODULE NodeClient -----------------------------
(***************************************************************************)
(* The Node client (src/clients/node/dataset-client.mjs).  JavaScript runs *)
(* one job to completion at a time: the handler of a chunk of data, the    *)
(* handler of a socket event, or a continuation from the microtask queue,  *)
(* which is emptied before the next event.  A call that waits for a slot   *)
(* goes on in a continuation, so anything may happen between _acquire and  *)
(* the rest of _send.                                                      *)
(*                                                                         *)
(* The socket and the server are external: once the socket is shut for     *)
(* writing a write destroys it with an error, and on a destroyed socket a  *)
(* write does nothing; a destroyed socket emits 'close' at the end.        *)
(***************************************************************************)
EXTENDS Integers, Sequences, FiniteSets

CONSTANTS
    Calls,         \* get, set, setex and del calls, each made once
    Oversized,     \* those whose payload is longer than 65535 bytes
    maxInflight,
    MayLose,       \* the connection may be lost
    MayClose,      \* the application may call close()
    None

ASSUME NodeClientAssumption ==
    /\ IsFiniteSet(Calls) /\ Oversized \subseteq Calls /\ None \notin Calls
    /\ maxInflight \in Nat \ {0} /\ MayLose \in BOOLEAN /\ MayClose \in BOOLEAN

VARIABLES
    promise,    \* of each call: "new" (not made), "waits", "resolved" or "rejected"
    slot,       \* the slot each call was given
    body,       \* the call whose response each call was resolved with
    free,       \* a stack
    pending,    \* slot -> the call to resolve, or None
    waiters,    \* calls waiting for a slot, first come first
    micro,      \* the microtask queue: calls whose slot is there
    handling,   \* _onData is looping over the frames of a chunk
    closed,
    connecting, \* connect()'s promise: "pending", "resolved" or "rejected"
    socket,     \* "open", "ended" (shut for writing) or "destroyed"
    events,     \* 'error' and 'close' events to be emitted
    wire        \* requests the server has and not answered

callVars == <<promise, slot, body>>
poolVars == <<free, pending, waiters, micro>>
netVars == <<socket, events, wire>>
vars == <<callVars, poolVars, handling, closed, connecting, netVars>>

Slots == 0..(maxInflight - 1)

TypeOK ==
    /\ promise \in [Calls -> {"new", "waits", "resolved", "rejected"}]
    /\ slot \in [Calls -> Slots]
    /\ body \in [Calls -> Calls \cup {None}]
    /\ free \in Seq(Slots) /\ pending \in [Slots -> Calls \cup {None}]
    /\ waiters \in Seq(Calls) /\ micro \in Seq(Calls)
    /\ handling \in BOOLEAN /\ closed \in BOOLEAN
    /\ connecting \in {"pending", "resolved", "rejected"}
    /\ socket \in {"open", "ended", "destroyed"}
    /\ events \in Seq({"error", "close"})
    /\ wire \subseteq Slots \X Calls

\* Mutant: slots are counted from 1.
Init_from_one ==
    /\ promise = [c \in Calls |-> "new"] /\ slot = [c \in Calls |-> 0]
    /\ body = [c \in Calls |-> None]
    /\ free = [i \in 1..maxInflight |-> i]
    /\ pending = [s \in Slots |-> None]
    /\ waiters = <<>> /\ micro = <<>>
    /\ handling = FALSE /\ closed = FALSE /\ connecting = "pending"
    /\ socket = "open" /\ events = <<>> /\ wire = {}

\* connect() has been called and its handshake is on the way.
Init ==
    /\ promise = [c \in Calls |-> "new"] /\ slot = [c \in Calls |-> 0]
    /\ body = [c \in Calls |-> None]
    /\ free = [i \in 1..maxInflight |-> i - 1]
    /\ pending = [s \in Slots |-> None]
    /\ waiters = <<>> /\ micro = <<>>
    /\ handling = FALSE /\ closed = FALSE /\ connecting = "pending"
    /\ socket = "open" /\ events = <<>> /\ wire = {}

-----------------------------------------------------------------------------
(***************************************************************************)
(* _send and _acquire.                                                     *)
(***************************************************************************)
Now(c, state) == promise' = [promise EXCEPT ![c] = state]

Callable(c) == promise[c] = "new" /\ ~handling /\ connecting = "resolved"

SendClosed(c) ==
    /\ Callable(c) /\ closed
    /\ Now(c, "rejected")
    /\ UNCHANGED <<slot, body, poolVars, handling, closed, connecting, netVars>>

\* Mutant: the slot stays on the free list.
SendNow_keeps_free(c) ==
    /\ Callable(c) /\ ~closed /\ free # <<>>
    /\ Now(c, "waits")
    /\ slot' = [slot EXCEPT ![c] = free[Len(free)]]
    /\ micro' = Append(micro, c)
    /\ UNCHANGED <<body, free, pending, waiters, handling, closed, connecting, netVars>>

SendNow(c) ==
    /\ Callable(c) /\ ~closed /\ free # <<>>
    /\ Now(c, "waits")
    /\ slot' = [slot EXCEPT ![c] = free[Len(free)]]
    /\ free' = SubSeq(free, 1, Len(free) - 1)
    /\ micro' = Append(micro, c)
    /\ UNCHANGED <<body, pending, waiters, handling, closed, connecting, netVars>>

SendWaits(c) ==
    /\ Callable(c) /\ ~closed /\ free = <<>>
    /\ Now(c, "waits")
    /\ waiters' = Append(waiters, c)
    /\ UNCHANGED <<slot, body, free, pending, micro, handling, closed, connecting, netVars>>

\* socket.write
Written(s, c) ==
    \/ /\ socket = "open"
       /\ wire' = wire \cup {<<s, c>>}
       /\ UNCHANGED <<socket, events>>
    \/ /\ socket = "ended"
       /\ socket' = "destroyed" /\ events' = <<"error", "close">> /\ wire' = {}
    \/ /\ socket = "destroyed"
       /\ UNCHANGED netVars

\* The rest of _send.  The length of an oversized payload makes _writeFrame
\* throw: the call is rejected, and its entry stays in pending.
Resume(c) ==
    /\ ~handling /\ micro # <<>> /\ c = Head(micro)
    /\ micro' = Tail(micro)
    /\ pending' = [pending EXCEPT ![slot[c]] = c]
    /\ IF c \in Oversized THEN Now(c, "rejected") /\ UNCHANGED netVars
       ELSE Written(slot[c], c) /\ UNCHANGED promise
    /\ UNCHANGED <<slot, body, free, waiters, handling, closed, connecting>>

-----------------------------------------------------------------------------
(***************************************************************************)
(* _onData and _release.                                                   *)
(***************************************************************************)
\* Mutant: the slot goes back to the free list, and nobody is woken.
release_wakes_nobody(s) == free' = Append(free, s) /\ UNCHANGED <<waiters, micro, slot>>

\* Mutant: the slot is given to a waiter and to the free list.
release_twice(s) ==
    /\ free' = Append(free, s)
    /\ IF waiters = <<>> THEN UNCHANGED <<waiters, micro, slot>>
       ELSE /\ waiters' = Tail(waiters)
            /\ micro' = Append(micro, Head(waiters))
            /\ slot' = [slot EXCEPT ![Head(waiters)] = s]

release(s) ==
    IF waiters = <<>>
    THEN free' = Append(free, s) /\ UNCHANGED <<waiters, micro, slot>>
    ELSE /\ waiters' = Tail(waiters)
         /\ micro' = Append(micro, Head(waiters))
         /\ slot' = [slot EXCEPT ![Head(waiters)] = s]
         /\ UNCHANGED free

\* The server answers requests in any order; the frames of a chunk are handled
\* in one job, so the waiters they wake go on after the last of them.
OnFrame(req) ==
    /\ handling \/ micro = <<>>
    /\ connecting # "pending" /\ socket # "destroyed" /\ req \in wire
    /\ handling' = TRUE
    /\ wire' = wire \ {req}
    /\ LET c == pending[req[1]]
       IN  IF c = None THEN UNCHANGED <<callVars, poolVars>>
           ELSE /\ pending' = [pending EXCEPT ![req[1]] = None]
                /\ release(req[1])
                /\ Now(c, "resolved")
                /\ body' = [body EXCEPT ![c] = req[2]]
    /\ UNCHANGED <<closed, connecting, socket, events>>

EndOfChunk ==
    /\ handling /\ handling' = FALSE
    /\ UNCHANGED <<callVars, poolVars, closed, connecting, netVars>>

\* The first frame is the reply to the handshake.
OnHandshake(ok) ==
    /\ micro = <<>> /\ connecting = "pending" /\ socket # "destroyed"
    /\ connecting' = IF ok THEN "resolved" ELSE "rejected"
    /\ UNCHANGED <<callVars, poolVars, handling, closed, netVars>>

-----------------------------------------------------------------------------
(***************************************************************************)
(* close, the socket's events and _fail.                                   *)
(***************************************************************************)
close ==
    /\ MayClose /\ ~closed /\ ~handling
    /\ closed' = TRUE
    /\ socket' = IF socket = "open" THEN "ended" ELSE socket
    /\ UNCHANGED <<callVars, poolVars, handling, connecting, events, wire>>

\* The connection is reset, or the server's process ends and closes it: then
\* the socket shuts its own side too, before it is destroyed.
Reset ==
    /\ MayLose /\ ~handling /\ socket # "destroyed"
    /\ socket' = "destroyed" /\ wire' = {} /\ events' = <<"error", "close">>
    /\ UNCHANGED <<callVars, poolVars, handling, closed, connecting>>

ServerGone ==
    /\ MayLose /\ ~handling /\ socket # "destroyed"
    /\ socket' = "ended" /\ wire' = {}
    /\ UNCHANGED <<callVars, poolVars, handling, closed, connecting, events>>

\* The server ends a connection that the client has shut, or that it refused,
\* once it has answered every request (server.rs, handle_conn).
ConnectionEnds ==
    /\ ~handling /\ wire = {}
    /\ socket = "ended" \/ (socket = "open" /\ connecting = "rejected")
    /\ socket' = "destroyed" /\ events' = <<"close">>
    /\ UNCHANGED <<callVars, poolVars, handling, closed, connecting, wire>>

\* Mutant: the requests outstanding are forgotten.
fail_forgets(err) ==
    /\ connecting' = IF connecting = "pending" /\ err THEN "rejected" ELSE connecting
    /\ pending' = [s \in Slots |-> None]
    /\ UNCHANGED promise

\* Mutant: connect()'s promise is not settled.
fail_not_connect(err) ==
    /\ pending' = [s \in Slots |-> None]
    /\ promise' = [c \in Calls |->
                      IF err /\ \E s \in Slots : pending[s] = c THEN "rejected" ELSE promise[c]]
    /\ UNCHANGED connecting

\* err: there is an error to reject with.
fail(err) ==
    /\ connecting' = IF connecting = "pending" /\ err THEN "rejected" ELSE connecting
    /\ pending' = [s \in Slots |-> None]
    /\ promise' = [c \in Calls |->
                      IF err /\ \E s \in Slots : pending[s] = c THEN "rejected" ELSE promise[c]]

\* After close() the 'close' event is no error.
OnEvent ==
    /\ ~handling /\ micro = <<>> /\ events # <<>>
    /\ events' = Tail(events)
    /\ fail(~(closed /\ Head(events) = "close"))
    /\ UNCHANGED <<slot, body, free, waiters, micro, handling, closed, socket, wire>>

Send(c) == SendClosed(c) \/ SendNow(c) \/ SendWaits(c)

EventLoop ==
    \/ \E c \in Calls : Resume(c)
    \/ (\E req \in wire : OnFrame(req)) \/ EndOfChunk
    \/ OnEvent

Server == (\E ok \in BOOLEAN : OnHandshake(ok)) \/ ConnectionEnds

Next ==
    \/ \E c \in Calls : Send(c)
    \/ EventLoop \/ Server
    \/ close
    \/ Reset \/ ServerGone

Spec == Init /\ [][Next]_vars

\* The event loop runs, and the server answers while the connection is there.
Fairness == WF_vars(EventLoop) /\ WF_vars(Server)

FairSpec == Spec /\ Fairness

-----------------------------------------------------------------------------
\* A call is resolved with the response to its own request, also when slots
\* were handed on, requests were answered out of order or the connection was
\* lost in between (dataset-client.mjs: "a free slot guarantees a unique id").
NoCrossTalk == \A c \in Calls : promise[c] = "resolved" => body[c] = c

FreeAt(s) == {i \in 1..Len(free) : free[i] = s}

Resuming(s) == {c \in Calls : slot[c] = s /\ \E i \in 1..Len(micro) : micro[i] = c}

Holders(s) ==
    Cardinality(FreeAt(s)) + Cardinality(Resuming(s)) + (IF pending[s] = None THEN 0 ELSE 1)

\* A slot is free, on its way to one call, or pending, and never two of them;
\* and it is one of them as long as _fail has not run.
OneHolderPerSlot ==
    \A s \in Slots : Holders(s) <= 1 /\ (socket # "destroyed" => Holders(s) = 1)

Leaked == {s \in Slots : pending[s] \in Oversized}

Settled(c) == promise[c] \in {"resolved", "rejected"}

\* A call that was made is settled while the connection is there: nobody waits
\* for a slot that is free, and nobody is passed over.  Only the oversized
\* payloads that keep their slot can stop the others.
CallsSettle ==
    \A c \in Calls :
        (promise[c] = "waits") ~> (Settled(c) \/ socket = "destroyed" \/ Leaked = Slots)

Outstanding(c) == promise[c] = "waits" /\ \E s \in Slots : pending[s] = c

\* A call whose request was outstanding when the connection was lost is settled,
\* unless the application has called close() (then _fail has no error and drops
\* it).
OutstandingSettle ==
    \A c \in Calls :
        (Outstanding(c) /\ socket # "destroyed") ~> (Settled(c) \/ closed)

\* connect() resolves or rejects, unless the application closes the client
\* first (dataset-client.mjs: "Resolves once the server replies OK to the
\* handshake; rejects on auth failure or connection error").
ConnectSettles == (connecting = "pending") ~> (connecting # "pending" \/ closed)
=============================================================================
