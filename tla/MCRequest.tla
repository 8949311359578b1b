------------------------------ MODULE MCRequest ------------------------------
(* Small instances of Request for TLC: the streams that clients send. *)
EXTENDS Request

Field(name, value) == [name |-> name, value |-> value]
Length(n) == Field("content-length", n)
Key(k) == Field("x-api-key", k)
Json == Field("content-type", TRUE)
Form == Field("content-type", FALSE)
Chunked == Field("transfer-encoding", TRUE)
Identity == Field("transfer-encoding", FALSE)
Junk == Field("malformed", 0)
Host == Field("host", 0)

\* Headers without a length, with several, and with contradicting keys.
GoodHeaders == {
    <<Host>>, <<Length(1)>>, <<Length(2), Key("right")>>, <<Length(1), Length(2)>>,
    <<Key("wrong"), Key("right"), Json, Length(1)>>, <<Key("right"), Key("wrong"), Json, Length(1)>>}

\* Headers that are refused, most of them for two reasons.
BadHeaders == {
    <<Length(BodyCap + 1), Junk>>, <<Junk, Length(BodyCap + 1)>>, <<Length(-1), Length(1)>>,
    <<Chunked, Identity>>, <<Chunked, Length(-1)>>}

Stream(hlens, sizes, headers) ==
    [hlen : hlens, size : sizes, lines : headers, method : {"PUT"}, path : {"kv_key"},
     query : {"none"}, text : {"good"}]

\* Streams around every limit: a header that just fits or is too long by one
\* byte, bodies shorter and longer than announced.
ReadStreams ==
    Stream({2, HeaderCap - 1}, 0 .. 3, GoodHeaders)
    \cup Stream({HeaderCap - 1}, {BodyCap, BodyCap + 1}, {<<Length(BodyCap)>>})
    \cup Stream({2}, {1}, BadHeaders) \cup Stream({HeaderCap}, {0, 1}, {<<Length(1)>>})

Methods == {"GET", "POST", "PUT", "DELETE"}

\* Requests of every method for every path, with every key and kind of body.
RouteStreams ==
    [hlen : {2}, size : {1}, lines : {<<Json, Key(k), Length(1)>> : k \in {"none", "right", "wrong"}},
     method : Methods, path : Paths, query : {"none"}, text : {"good"}]
    \cup
    [hlen : {2}, size : {0}, lines : {<<Json, Key("right")>>, <<Json, Key("right"), Length(0)>>},
     method : Methods, path : Paths, query : {"none"}, text : {"good"}]
    \cup
    [hlen : {2}, size : {1}, lines : {<<Form, Length(1), Key("right")>>, <<Json, Length(1), Key("right")>>},
     method : {"POST", "PUT"}, path : {"echo", "kv_key", "notes", "note_id"}, query : {"none"},
     text : {"missing", "malformed", "emptytitle", "longtitle"}]
    \cup
    [hlen : {2}, size : {0}, lines : {<<>>}, method : {"GET"}, path : {"kv", "notes"},
     query : {"badlimit", "badprefix", "badoffset"}, text : {"good"}]
    \cup
    [hlen : {2}, size : {0}, lines : {<<>>, <<Junk>>, <<Chunked>>}, method : {"UNKNOWN", "MALFORMED"},
     path : {"notes"}, query : {"none"}, text : {"good"}]

MCStreams == ReadStreams \cup RouteStreams

=============================================================================
