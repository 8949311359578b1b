------------------------------- MODULE Request -------------------------------
(***************************************************************************)
(* One worker serving connections one after the other: http_read_request   *)
(* over a stream that arrives in pieces, the parser, the dispatcher and    *)
(* the handler's decisions (module Router).  The body buffer is            *)
(* thread-local and keeps what the previous request left in it.            *)
(*                                                                         *)
(* A stream is what a client means to send: hlen bytes of header with its  *)
(* blank line, then size bytes more.  Of the header, the request line and  *)
(* the fields the parser looks at are kept; text says what the announced   *)
(* body holds.  A byte is a pair of its connection and its place there.    *)
(***************************************************************************)
EXTENDS Router, Sequences, FiniteSetsExt

CONSTANTS
    HeaderCap,      \* HTTP_MAX_HEADERS_SIZE, the size of header_buf
    BodyCap,        \* HTTP_MAX_BODY_SIZE, the size of body_buf
    Streams,        \* what clients send
    MaxConns        \* bound: connections

\* 16384 and 65536 in the code.
ASSUME CapsAssumption == HeaderCap \in Nat \ {0, 1} /\ BodyCap \in Nat /\ HeaderCap =< BodyCap
ASSUME MaxConnsAssumption == MaxConns \in Nat \ {0}

\* The header fields that parse_header_line tells apart, with what it makes of
\* their values; "host" stands for every other field, "malformed" for a line
\* without a name and a colon.
Fields ==
    [name : {"content-length"}, value : Int]
    \cup [name : {"content-type", "transfer-encoding"}, value : BOOLEAN]
    \cup [name : {"x-api-key"}, value : {"none", "right", "wrong"}]
    \cup [name : {"malformed", "host"}, value : {0}]

\* A header ends with a blank line, so it is never empty.
ASSUME StreamsAssumption ==
    \A s \in Streams : s.hlen \in Nat \ {0} /\ s.size \in Nat /\ s.lines \in Seq(Fields)

VARIABLES
    protected,      \* the server has an API key
    conn, stream,   \* the number of the connection, and what its client sends
    arrived,        \* bytes that have reached the socket
    link,           \* the client's side: "open", "shut" (FIN) or "reset"
    taken,          \* bytes received by the worker
    body_buf, have, \* the body buffer, and the bytes of it that are filled
    line, req,      \* the line to be parsed next (0: the request line), and the HttpRequest
    handler,        \* the handler that runs
    result, status, \* what http_read_request returned, and the status answered
    wrote,          \* the handler changed the store
    pc

client == <<protected, conn, stream, arrived, link>>
input == <<taken, body_buf, have, line, req>>
outcome == <<handler, result, status, wrote>>
vars == <<client, input, outcome, pc>>

Lesser(a, b) == IF a < b THEN a ELSE b

\* memset, and content_length = -1
NoRequest == [method |-> "UNKNOWN", path |-> "other", query |-> "none", content_length |-> -1,
              json_type |-> FALSE, key |-> "none", chunked |-> FALSE]

NoStream == [hlen |-> 0, size |-> 0, lines |-> <<>>, method |-> "UNKNOWN", path |-> "other",
             query |-> "none", text |-> "good"]

Init ==
    /\ protected \in BOOLEAN
    /\ conn = 0 /\ stream = NoStream /\ arrived = 0 /\ link = "shut"
    /\ taken = 0 /\ body_buf = [i \in 1 .. BodyCap |-> <<0, 0>>] /\ have = 0
    /\ line = 0 /\ req = NoRequest /\ handler = "none"
    /\ result = "OK" /\ status = 0 /\ wrote = FALSE /\ pc = "idle"

-----------------------------------------------------------------------------
(* Connections and their clients *)

\* worker_main pops a connection and handle_client starts on it.
NewConnection ==
    /\ pc = "idle" /\ conn < MaxConns
    /\ conn' = conn + 1 /\ stream' \in Streams /\ link' = "open" /\ pc' = "header"
    /\ UNCHANGED <<protected, arrived, input, outcome>>

\* worker_main closes the connection; what handle_client had on its stack is gone.
Close ==
    /\ pc = "done" /\ pc' = "idle"
    /\ stream' = NoStream /\ arrived' = 0 /\ link' = "shut" /\ taken' = 0 /\ have' = 0
    /\ line' = 0 /\ req' = NoRequest /\ handler' = "none" /\ result' = "OK" /\ status' = 0 /\ wrote' = FALSE
    /\ UNCHANGED <<protected, conn, body_buf>>

Reading == pc \in {"header", "body"}

Arrive ==
    /\ Reading /\ link = "open" /\ arrived < stream.hlen + stream.size
    /\ arrived' = arrived + 1
    /\ UNCHANGED <<protected, conn, stream, link, input, outcome, pc>>

\* The client shuts its side down, or the connection breaks.
ClientCloses(how) ==
    /\ Reading /\ link = "open" /\ link' = how
    /\ UNCHANGED <<protected, conn, stream, arrived, input, outcome, pc>>

-----------------------------------------------------------------------------
(* The parser *)

\* parse_header_line.  A negative length stands for any value that is not a
\* number from 0 on.
LineError(l) ==
    IF l.name = "malformed" \/ (l.name = "content-length" /\ l.value < 0) THEN "BAD_REQUEST"
    ELSE IF l.name = "content-length" /\ l.value > BodyCap THEN "PAYLOAD_TOO_LARGE"
    ELSE "OK"

HeaderLine(r, l) ==
    CASE l.name = "content-length" -> [r EXCEPT !.content_length = l.value]
      [] l.name = "content-type" -> [r EXCEPT !.json_type = l.value]
      [] l.name = "x-api-key" -> [r EXCEPT !.key = l.value]
      [] l.name = "transfer-encoding" -> [r EXCEPT !.chunked = @ \/ l.value]
      [] OTHER -> r

-----------------------------------------------------------------------------
(* The worker *)

Unread == arrived - taken

Need(r) == IF r.content_length < 0 THEN 0 ELSE r.content_length

\* handle_client answers a request that could not be read.
Refuse(e) ==
    /\ result' = e /\ status' = StatusOf[e] /\ pc' = "done"
    /\ UNCHANGED <<handler, wrote>>

GoOn(c) == pc' = c /\ UNCHANGED outcome

\* Mutants of RecvHeader: no room is left for the NUL; the blank line, two bytes
\* long here, is looked for only in the bytes just received.
RecvHeaderFills(n) ==
    /\ pc = "header" /\ link # "reset" /\ n =< Lesser(Unread, HeaderCap - taken) /\ n > 0
    /\ taken' = taken + n
    /\ IF taken' >= stream.hlen THEN GoOn("parse")
       ELSE IF taken' >= HeaderCap THEN Refuse("PAYLOAD_TOO_LARGE") ELSE GoOn("header")
    /\ UNCHANGED <<client, body_buf, have, line, req>>
RecvHeaderScansNew(n) ==
    /\ pc = "header" /\ link # "reset" /\ n =< Lesser(Unread, HeaderCap - 1 - taken) /\ n > 0
    /\ taken' = taken + n
    /\ IF taken' >= stream.hlen /\ taken =< stream.hlen - 2 THEN GoOn("parse")
       ELSE IF taken' + 1 >= HeaderCap THEN Refuse("BAD_REQUEST") ELSE GoOn("header")
    /\ UNCHANGED <<client, body_buf, have, line, req>>

\* One turn of the first loop of http_read_request: recv into the rest of
\* header_buf, less one byte for the NUL, and look for the blank line.  The
\* loop ends when the buffer has no more room.
RecvHeader(n) ==
    /\ pc = "header" /\ link # "reset"
    /\ n \in 1 .. Lesser(Unread, HeaderCap - 1 - taken)
    /\ taken' = taken + n
    /\ \/ taken' >= stream.hlen /\ GoOn("parse")
       \/ taken' < stream.hlen /\ taken' + 1 < HeaderCap /\ GoOn("header")
       \/ taken' < stream.hlen /\ taken' + 1 >= HeaderCap /\ Refuse("BAD_REQUEST")
    /\ UNCHANGED <<client, body_buf, have, line, req>>

\* What body_buf holds when the connection's bytes from the given place on are
\* put behind the first `have` bytes.
Filled(place, n) ==
    [i \in 1 .. BodyCap |-> IF i \in have + 1 .. have + n THEN <<conn, place + i - have>> ELSE body_buf[i]]

ParseRequestLine ==
    /\ pc = "parse" /\ line = 0
    /\ \/ /\ stream.method = "MALFORMED" /\ Refuse("BAD_REQUEST") /\ UNCHANGED <<line, req>>
       \/ /\ stream.method # "MALFORMED" /\ GoOn("parse") /\ line' = 1
          /\ req' = [req EXCEPT !.method = stream.method, !.path = stream.path, !.query = stream.query]
    /\ UNCHANGED <<client, taken, body_buf, have>>

\* http_parse_request stops at the first line with an error.
ParseHeaderLine ==
    /\ pc = "parse" /\ line \in DOMAIN stream.lines
    /\ LET l == stream.lines[line]
       IN \/ LineError(l) # "OK" /\ Refuse(LineError(l)) /\ UNCHANGED <<line, req>>
          \/ LineError(l) = "OK" /\ GoOn("parse") /\ line' = line + 1 /\ req' = HeaderLine(req, l)
    /\ UNCHANGED <<client, taken, body_buf, have>>

AllParsed == pc = "parse" /\ line > Len(stream.lines)

\* Mutant of StartBody: all bytes behind the header are taken for the body.
StartBodyCopiesAll ==
    /\ AllParsed /\ req.method # "UNKNOWN" /\ ~req.chunked
    /\ LET already == taken - stream.hlen
       IN  /\ body_buf' = Filled(stream.hlen, already) /\ have' = already
           /\ GoOn(IF already < Need(req) THEN "body" ELSE "dispatch")
    /\ UNCHANGED <<client, taken, line, req>>

\* Mutant of StartBody: the rest of the body of a GET is not waited for.
StartBodySkipsForGet ==
    /\ AllParsed /\ req.method # "UNKNOWN" /\ ~req.chunked
    /\ LET copy_now == Lesser(taken - stream.hlen, Need(req))
       IN  /\ body_buf' = Filled(stream.hlen, copy_now) /\ have' = copy_now
           /\ GoOn(IF copy_now < Need(req) /\ req.method # "GET" THEN "body" ELSE "dispatch")
    /\ UNCHANGED <<client, taken, line, req>>

\* What is refused after the last line, by http_parse_request.
RefuseParsed ==
    /\ AllParsed
    /\ \/ req.method = "UNKNOWN" /\ Refuse("METHOD_NOT_ALLOWED")
       \/ req.method # "UNKNOWN" /\ req.chunked /\ Refuse("NOT_IMPLEMENTED")
    /\ UNCHANGED <<client, input>>

\* The bytes of the body that came with the header.  LineError has bounded
\* the length and CapsAssumption what came with the header, so the limits that
\* http_read_request checks here refuse nothing.
StartBody ==
    /\ AllParsed /\ req.method # "UNKNOWN" /\ ~req.chunked
    /\ LET copy_now == Lesser(taken - stream.hlen, Need(req))
       IN  /\ body_buf' = Filled(stream.hlen, copy_now) /\ have' = copy_now
           /\ GoOn(IF copy_now < Need(req) THEN "body" ELSE "dispatch")
    /\ UNCHANGED <<client, taken, line, req>>

\* One turn of the second loop.
RecvBody(n) ==
    /\ pc = "body" /\ link # "reset"
    /\ n \in 1 .. Lesser(Unread, Need(req) - have)
    /\ taken' = taken + n
    /\ body_buf' = Filled(taken, n) /\ have' = have + n
    /\ GoOn(IF have' < Need(req) THEN "body" ELSE "dispatch")
    /\ UNCHANGED <<client, line, req>>

\* recv returns 0 at the end of the stream.
RecvEnd ==
    /\ Reading /\ link = "shut" /\ Unread = 0
    /\ Refuse("BAD_REQUEST") /\ UNCHANGED <<client, input>>

\* Mutant of RecvFails: a timeout is tried again, like EINTR.
RecvFailsRetries ==
    /\ Reading /\ link = "reset"
    /\ Refuse("BAD_REQUEST") /\ UNCHANGED <<client, input>>

\* recv fails: SO_RCVTIMEO passes with nothing to read, or the link is broken.
RecvFails ==
    /\ Reading
    /\ link = "reset" \/ (link = "open" /\ Unread = 0)
    /\ Refuse("BAD_REQUEST") /\ UNCHANGED <<client, input>>

ApiDispatch ==
    /\ pc = "dispatch"
    /\ LET d == Dispatch(protected, req)
       IN  /\ handler' = d.handler
           /\ \/ d.err = "OK" /\ pc' = "handle" /\ UNCHANGED status
              \/ d.err # "OK" /\ pc' = "done" /\ status' = StatusOf[d.err]
    /\ UNCHANGED <<client, input, result, wrote>>

StatusFor(h, e) == IF e = "OK" THEN Success(h) ELSE StatusOf[e]

\* The handler checks the request, and calls the store if it is in order.
RunHandler ==
    /\ pc = "handle" /\ pc' = "done"
    /\ LET check == Validate(handler, req, stream.text)
       IN  \/ check # "OK" /\ status' = StatusOf[check] /\ UNCHANGED wrote
           \/ /\ check = "OK"
              /\ \E o \in Outcomes(handler) : wrote' = o.wrote /\ status' = StatusFor(handler, o.err)
    /\ UNCHANGED <<client, input, handler, result>>

Worker ==
    \/ \E n \in 1 .. HeaderCap : RecvHeader(n)
    \/ \E n \in 1 .. BodyCap : RecvBody(n)
    \/ ParseRequestLine \/ ParseHeaderLine \/ RefuseParsed \/ StartBody
    \/ RecvEnd \/ RecvFails \/ ApiDispatch \/ RunHandler \/ Close

Finished == pc = "idle" /\ conn = MaxConns /\ UNCHANGED vars

Next ==
    \/ NewConnection
    \/ Arrive \/ \E how \in {"shut", "reset"} : ClientCloses(how)
    \/ Worker
    \/ Finished

Spec == Init /\ [][Next]_vars

\* The worker runs, and recv returns within its timeout.  Clients do as they like.
FairSpec == Spec /\ WF_vars(Worker)

-----------------------------------------------------------------------------
(* What a stream asks for, independent of how it arrives *)

LinesNamed(s, name) == {i \in DOMAIN s.lines : s.lines[i].name = name}

\* The value of the last line with a name.
LastValue(s, name, none) ==
    IF LinesNamed(s, name) = {} THEN none ELSE s.lines[Max(LinesNamed(s, name))].value

Announced(s) == LET n == LastValue(s, "content-length", 0) IN IF n < 0 THEN 0 ELSE n

BadLines(s) == {i \in DOMAIN s.lines : LineError(s.lines[i]) # "OK"}

ReadResult(s) ==
    IF s.hlen >= HeaderCap \/ s.method = "MALFORMED" THEN "BAD_REQUEST"
    ELSE IF BadLines(s) # {} THEN LineError(s.lines[Min(BadLines(s))])
    ELSE IF s.method = "UNKNOWN" THEN "METHOD_NOT_ALLOWED"
    ELSE IF \E i \in LinesNamed(s, "transfer-encoding") : s.lines[i].value THEN "NOT_IMPLEMENTED"
    ELSE "OK"

-----------------------------------------------------------------------------
(* Properties *)

\* Counters stay within the buffers: recv never fills header_buf to its last
\* byte, where http_read_request puts the NUL, nor runs over body_buf.
TypeOK ==
    /\ protected \in BOOLEAN /\ conn \in 0 .. MaxConns
    /\ arrived \in 0 .. stream.hlen + stream.size /\ link \in {"open", "shut", "reset"}
    /\ taken \in 0 .. arrived /\ have \in 0 .. BodyCap
    /\ pc \in {"header", "parse", "body", "dispatch", "handle", "done", "idle"}
    /\ pc \in {"header", "parse"} => taken < HeaderCap
    /\ wrote \in BOOLEAN

\* A request that http_read_request hands on has exactly the announced bytes
\* behind this connection's own header as its body: none is missing, none is
\* left over from an earlier request in the thread-local buffer, and bytes
\* behind the body are not counted in.
OwnBody ==
    pc \in {"dispatch", "handle"} =>
        /\ have = Announced(stream)
        /\ \A i \in 1 .. have : body_buf[i] = <<conn, stream.hlen + i>>

\* However its bytes are split over recv calls, a request is read with the
\* result that its bytes ask for; BAD_REQUEST instead only if it did not arrive
\* whole or the connection broke.
SplitIndependent ==
    pc \in {"dispatch", "handle", "done"} =>
        \/ result = ReadResult(stream)
        \/ /\ result = "BAD_REQUEST"
           /\ link = "reset" \/ arrived < stream.hlen + Announced(stream)

\* A protected server changes its store only for a request whose last
\* X-API-Key field is the server's key.
WriteNeedsKey == wrote /\ protected => LastValue(stream, "x-api-key", "none") = "right"

\* When a connection is closed with bytes of the client unread or still to come,
\* the kernel resets it and the client may lose the answer.  A client that sends
\* its header and the body it announced is safe from that with every request
\* that could be read, also where the key, the route or the handler refuses it:
\* the answer comes behind the last byte of the body.
NothingLeftUnread ==
    pc = "done" /\ result = "OK" /\ stream.size =< Announced(stream) => taken = stream.hlen + stream.size

\* However slowly a client sends, and if it stops sending, its worker comes to
\* an answer.
EveryReadEnds == pc = "header" ~> pc = "done"
=============================================================================
