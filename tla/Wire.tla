-------------------------------- MODULE Wire --------------------------------
(***************************************************************************)
(* The bytes between a client and the server: how the Rust client frames   *)
(* its handshake and requests (src/clients/rust/src/lib.rs), and how the   *)
(* server cuts the stream into frames again (src/src/common.rs), checks    *)
(* the credentials (server.rs) and parses the commands (utils.rs).         *)
(*                                                                         *)
(* A cell of the stream stands for a byte or for a whole integer field: a  *)
(* field of two bytes holds a number below LenMod, so a length written to  *)
(* it is taken % LenMod.  The stream reaches the server in pieces cut      *)
(* anywhere, and a call whose future is dropped in the middle of write_all *)
(* leaves part of its frame on the connection.                             *)
(***************************************************************************)
EXTENDS Integers, Sequences

CONSTANTS
    LenMod,          \* 2^16
    MAX_FRAME_SIZE,
    Ids,             \* req_ids
    Names,           \* user names and passwords, as sequences of cells
    Keys,            \* sequences of cells
    Values,          \* sequences of cells
    TTLs,            \* ttl_ms of SETEX
    None,
    MaxCalls         \* bound on the number of calls

ASSUME WireAssumption ==
    /\ LenMod \in Nat \ {0} /\ MAX_FRAME_SIZE \in 0..LenMod /\ MaxCalls \in Nat
    /\ Ids \subseteq Nat /\ TTLs \subseteq Nat /\ None \notin Nat
    /\ Names \cup Keys \cup Values \subseteq Seq(Nat)

HANDSHAKE == 1
REQUEST == 3
RESPONSE == 4
HEARTBEAT == 5
FrameKinds == {HANDSHAKE, REQUEST, RESPONSE, HEARTBEAT}

OP_GET == 1
OP_SET == 2
OP_DEL == 3
OP_SETEX == 4

\* [header][req_id][len], one cell each.
FRAME_HEAD_LEN == 3

-----------------------------------------------------------------------------
(***************************************************************************)
(* What a client builds: Client::connect, encode, setex and call.          *)
(***************************************************************************)
frame(kind, id, payload) == <<kind, id, Len(payload) % LenMod>> \o payload

field(bytes) == <<Len(bytes) % LenMod>> \o bytes

creds(user, pass) == field(user) \o pass

\* The commands clients send: SETEX has its ttl between the key and the value.
Command ==
    [op: {OP_GET, OP_DEL}, key: Keys, ttl: {None}, val: {<<>>}]
    \cup [op: {OP_SET}, key: Keys, ttl: {None}, val: Values]
    \cup [op: {OP_SETEX}, key: Keys, ttl: TTLs, val: Values]

encode(cmd) ==
    <<cmd.op>> \o field(cmd.key)
    \o (IF cmd.op = OP_SETEX THEN <<cmd.ttl>> ELSE <<>>) \o cmd.val

\* A payload whose length its two bytes can hold.
Fits(payload) == Len(payload) < LenMod

-----------------------------------------------------------------------------
(***************************************************************************)
(* SimpleCodec: a response as the server writes it; what decode makes of   *)
(* its buffer, a frame, Incomplete or Bad.                                 *)
(***************************************************************************)
\* Mutant: the length is cast to fewer bits.
response_short(id, payload) == <<RESPONSE, id, Len(payload) % (LenMod \div 4)>> \o payload

response(id, payload) == <<RESPONSE, id, Len(payload) % LenMod>> \o payload

Incomplete == [kind |-> 0, id |-> 0, payload |-> <<>>]
Bad == [kind |-> -1, id |-> 0, payload |-> <<>>]

\* Mutant: the size limit is applied to the whole frame.
decode_limits_frame(src) ==
    IF Len(src) < FRAME_HEAD_LEN THEN Incomplete
    ELSE IF src[1] \notin FrameKinds \/ FRAME_HEAD_LEN + src[3] > MAX_FRAME_SIZE THEN Bad
    ELSE IF Len(src) < FRAME_HEAD_LEN + src[3] THEN Incomplete
    ELSE [kind |-> src[1], id |-> src[2],
          payload |-> SubSeq(src, FRAME_HEAD_LEN + 1, FRAME_HEAD_LEN + src[3])]

decode(src) ==
    IF Len(src) < FRAME_HEAD_LEN THEN Incomplete
    ELSE IF src[1] \notin FrameKinds \/ src[3] > MAX_FRAME_SIZE THEN Bad
    ELSE IF Len(src) < FRAME_HEAD_LEN + src[3] THEN Incomplete
    ELSE [kind |-> src[1], id |-> src[2],
          payload |-> SubSeq(src, FRAME_HEAD_LEN + 1, FRAME_HEAD_LEN + src[3])]

(***************************************************************************)
(* ClientCommand::parse, read_field and parse_credentials.                 *)
(***************************************************************************)
Truncated(buf) == Len(buf) < 1 \/ Len(buf) < 1 + buf[1]

\* What a field holds, and what follows it.
read_field(buf) ==
    [bytes |-> SubSeq(buf, 2, 1 + buf[1]), rest |-> SubSeq(buf, 2 + buf[1], Len(buf))]

Malformed == [op |-> 0, key |-> <<>>, ttl |-> None, val |-> <<>>]

\* Mutant: the ttl is left in the value.
parse_keeps_ttl(buf) ==
    IF buf = <<>> \/ Truncated(Tail(buf)) THEN Malformed
    ELSE LET f == read_field(Tail(buf))
         IN  CASE buf[1] \in {OP_GET, OP_DEL} ->
                    [op |-> buf[1], key |-> f.bytes, ttl |-> None, val |-> <<>>]
               [] buf[1] = OP_SET ->
                    [op |-> OP_SET, key |-> f.bytes, ttl |-> None, val |-> f.rest]
               [] buf[1] = OP_SETEX /\ f.rest # <<>> ->
                    [op |-> OP_SETEX, key |-> f.bytes, ttl |-> f.rest[1], val |-> f.rest]
               [] OTHER -> Malformed

parse(buf) ==
    IF buf = <<>> \/ Truncated(Tail(buf)) THEN Malformed
    ELSE LET f == read_field(Tail(buf))
         IN  CASE buf[1] \in {OP_GET, OP_DEL} ->
                    [op |-> buf[1], key |-> f.bytes, ttl |-> None, val |-> <<>>]
               [] buf[1] = OP_SET ->
                    [op |-> OP_SET, key |-> f.bytes, ttl |-> None, val |-> f.rest]
               [] buf[1] = OP_SETEX /\ f.rest # <<>> ->
                    [op |-> OP_SETEX, key |-> f.bytes, ttl |-> f.rest[1], val |-> Tail(f.rest)]
               [] OTHER -> Malformed

parse_credentials(p) ==
    IF Truncated(p) THEN [bytes |-> <<>>, rest |-> <<>>] ELSE read_field(p)

\* main: authentication is on when both variables are set and not empty.
auth_of(user, pass) == IF user = <<>> \/ pass = <<>> THEN None ELSE <<user, pass>>

\* Mutant: only the password is compared.
Accepts_any_user(auth, p) ==
    auth = None \/ parse_credentials(p).rest = auth[2]

Accepts(auth, p) ==
    auth = None \/ (parse_credentials(p).bytes = auth[1] /\ parse_credentials(p).rest = auth[2])

-----------------------------------------------------------------------------
VARIABLES
    auth,       \* the server's credentials, None: authentication is off
    login,      \* the client's user name and password
    calls,      \* number of calls so far
    stream,     \* history: every cell written to the connection
    sent,       \* history: the requests written as a whole, in order
    intact,     \* history: how many of them precede the first damage, or None
    received,   \* how many cells the server has received
    consumed,   \* how many of them it has decoded
    got,        \* the requests it decoded, in order
    server      \* "handshake", "serving" or "ended"

clientVars == <<login, calls, stream, sent, intact>>
serverVars == <<received, consumed, got, server>>
vars == <<auth, clientVars, serverVars>>

Cells == Nat

TypeOK ==
    /\ auth \in (Names \X Names) \cup {None} /\ login \in Names \X Names
    /\ calls \in 0..MaxCalls
    /\ stream \in Seq(Cells)
    /\ sent \in Seq([id: Ids, cmd: Command])
    /\ intact \in 0..MaxCalls \cup {None}
    /\ consumed \in 0..received /\ received \in 0..Len(stream)
    /\ got \in Seq([id: Cells, cmd: [op: 0..4, key: Seq(Cells), ttl: Cells \cup {None},
                                     val: Seq(Cells)]])
    /\ server \in {"handshake", "serving", "ended"}

\* The client has connected, and has written its handshake; credentials that are
\* too long for its length damage the stream from the start.
Init ==
    /\ \E user, pass \in Names : auth = auth_of(user, pass)
    /\ login \in Names \X Names
    /\ stream = frame(HANDSHAKE, 0, creds(login[1], login[2]))
    /\ intact = IF Fits(creds(login[1], login[2])) THEN None ELSE 0
    /\ calls = 0 /\ sent = <<>>
    /\ received = 0 /\ consumed = 0 /\ got = <<>> /\ server = "handshake"

-----------------------------------------------------------------------------
(***************************************************************************)
(* The client.  A call writes its frame under the lock of the write half,  *)
(* once connect has read the OK to its handshake.                          *)
(***************************************************************************)
Begin == server = "serving" /\ calls < MaxCalls /\ calls' = calls + 1

\* The first damage to the stream comes after the requests sent so far.
Damaged == intact' = IF intact = None THEN Len(sent) ELSE intact

Call(id, cmd) ==
    /\ Begin
    /\ stream' = stream \o frame(REQUEST, id, encode(cmd))
    /\ sent' = Append(sent, [id |-> id, cmd |-> cmd])
    /\ IF Fits(encode(cmd)) THEN UNCHANGED intact ELSE Damaged
    /\ UNCHANGED <<auth, login, serverVars>>

\* The future of the call is dropped when a part of its frame is written.
Cancel(id, cmd) ==
    /\ Begin
    /\ \E n \in 1..(Len(frame(REQUEST, id, encode(cmd))) - 1) :
          stream' = stream \o SubSeq(frame(REQUEST, id, encode(cmd)), 1, n)
    /\ Damaged
    /\ UNCHANGED <<auth, login, sent, serverVars>>

-----------------------------------------------------------------------------
(***************************************************************************)
(* The server: FramedRead reads what there is and decodes all it can.      *)
(***************************************************************************)
Buffered == SubSeq(stream, consumed + 1, received)

Next_frame == decode(Buffered)

Receive(n) ==
    /\ server # "ended" /\ Next_frame = Incomplete
    /\ n <= Len(stream) - received
    /\ received' = received + n
    /\ UNCHANGED <<auth, clientVars, consumed, got, server>>

\* Mutant: one cell too many is taken off the buffer.
Take_one_more(f) == consumed' = consumed + FRAME_HEAD_LEN + Len(f.payload) + 1

Take(f) == consumed' = consumed + FRAME_HEAD_LEN + Len(f.payload)

Handshake ==
    /\ server = "handshake" /\ Next_frame \notin {Incomplete, Bad}
    /\ Take(Next_frame)
    /\ server' = IF Next_frame.kind = HANDSHAKE /\ Accepts(auth, Next_frame.payload)
                 THEN "serving" ELSE "ended"
    /\ UNCHANGED <<auth, clientVars, received, got>>

\* A request is parsed; plan answers frames of the other kinds by itself.
Decode ==
    /\ server = "serving" /\ Next_frame \notin {Incomplete, Bad}
    /\ Take(Next_frame)
    /\ got' = IF Next_frame.kind = REQUEST
              THEN Append(got, [id |-> Next_frame.id, cmd |-> parse(Next_frame.payload)]) ELSE got
    /\ UNCHANGED <<auth, clientVars, received, server>>

DecodeFails ==
    /\ server # "ended" /\ Next_frame = Bad
    /\ server' = "ended"
    /\ UNCHANGED <<auth, clientVars, received, consumed, got>>

Reader == (\E n \in 1..Len(stream) : Receive(n)) \/ Handshake \/ Decode \/ DecodeFails

Finished ==
    /\ server = "ended" \/ (calls = MaxCalls /\ received = Len(stream) /\ Next_frame = Incomplete)
    /\ UNCHANGED vars

Next ==
    \/ \E id \in Ids, cmd \in Command : Call(id, cmd) \/ Cancel(id, cmd)
    \/ Reader
    \/ Finished

Spec == Init /\ [][Next]_vars

\* What was written is delivered, and the connection's task is polled.
Fairness == WF_vars(Reader)

FairSpec == Spec /\ Fairness

-----------------------------------------------------------------------------
Undamaged == IF intact = None THEN Len(sent) ELSE intact

\* However the stream is cut into pieces, the requests the server decodes are
\* those the client sent, in order and unchanged, up to the first frame that a
\* dropped call left unfinished or whose length did not fit its two bytes.
DecodedAsSent ==
    \A i \in 1..Undamaged : i <= Len(got) => got[i] = sent[i]

\* A value can always be answered: whatever the server was made to parse, also
\* behind a damaged frame, the value it would store and send back fits the
\* length field of the response (SimpleCodec.encode casts the length to u16).
ValuesFitResponses ==
    \A i \in 1..Len(got) :
        LET r == decode(response(got[i].id, got[i].cmd.val))
        IN  r.kind = RESPONSE /\ r.payload = got[i].cmd.val

\* A client is served only with the exact user name and password, although the
\* two are sent in one payload with one length (or when authentication is off).
AuthExact ==
    server = "serving" /\ Fits(creds(login[1], login[2])) => auth \in {None, login}

\* Every request that was written as a whole on an undamaged stream is decoded:
\* the decoder never waits for bytes that do not come.
RequestsDecoded ==
    \A n \in 1..MaxCalls : (Undamaged >= n) ~> (Len(got) >= n)
=============================================================================
