------------------------------ MODULE MCServer ------------------------------
(***************************************************************************)
(* Small instances of Server for TLC.                                      *)
(***************************************************************************)
EXTENDS Server, TLC

CONSTANTS c1, c2, k1, k2

\* k1 and k2 belong to different shards of two or more.
MCHash == (k1 :> 1) @@ (k2 :> 2)

Hello == [kind |-> "HandShake", op |-> "accepted", key |-> None]
Refused == [kind |-> "HandShake", op |-> "rejected", key |-> None]
Req(op, k) == [kind |-> "Request", op |-> op, key |-> k]
Other(kind) == [kind |-> kind, op |-> "none", key |-> None]

\* One connection pipelines requests for two shards or for one key, and may send
\* what cannot be decoded in the middle of a chunk; the other one sends little,
\* with or without a proper handshake.
MCTraffic ==
    (c1 :> {<<Hello, Req("set", k1), Req("set", k2)>>,
            <<Hello, Req("set", k1), Req("get", k1)>>,
            <<Hello, Other("Heartbeat"), Req("setex", k1), Other("undecodable")>>})
    @@ (c2 :> {<<Hello, Req("del", k1)>>, <<Hello, Req("setex", k1)>>, <<Refused, Req("set", k1)>>,
               <<Req("malformed", None)>>, <<Other("undecodable")>>, <<>>})

\* A client that sets a key, and one that would read it.
SetGet ==
    (c1 :> {<<Hello, Req("set", k1)>>}) @@ (c2 :> {<<Hello, Req("get", k1)>>})
=============================================================================
