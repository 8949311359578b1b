--------------------------- MODULE RequestProofs ----------------------------
(***************************************************************************)
(* Proofs about reading, parsing and answering requests, for buffers of    *)
(* any size, any streams of the clients and any way they are split.        *)
(***************************************************************************)
EXTENDS Request, SequenceTheorems, WellFoundedInduction, TLAPS

(* Router: what the decisions of api_dispatch and of the handlers guarantee. *)

\* A request is dispatched to a handler that writes only if its method is not GET
\* and its path is under /api/.
LEMMA WritersAreRouted ==
    ASSUME NEW r, Route(r).handler \in Writers
    PROVE  r.method # "GET" /\ UnderApi(r.path)
<1>1. CASE r.path \in DOMAIN Refused
  <2>1. r.path \notin DOMAIN Routes
    BY <1>1 DEF Refused, Routes
  <2>2. Route(r).handler = "none"
    BY <1>1, <2>1 DEF Route, Reject
  <2>3. QED
    BY <2>2 DEF Writers
<1>2. CASE r.path \notin DOMAIN Refused /\ r.path \in DOMAIN Routes /\ r.method \in DOMAIN Routes[r.path]
  <2>1. Routes[r.path][r.method] \in Writers
    BY <1>2 DEF Route, Run
  <2>2. QED
    BY <1>2, <2>1 DEF Routes, Writers, UnderApi
<1>3. CASE r.path \notin DOMAIN Refused /\ ~(r.path \in DOMAIN Routes /\ r.method \in DOMAIN Routes[r.path])
  BY <1>3 DEF Route, Reject, Writers
<1>4. QED
  BY <1>1, <1>2, <1>3

\* server_auth_check before the route: with a key configured, a writer is reached
\* only with that key.
LEMMA WritersNeedKey ==
    ASSUME NEW p, NEW r, p = TRUE, r.key \in {"none", "right", "wrong"}, Dispatch(p, r).handler \in Writers
    PROVE  r.key = "right"
<1>1. CASE r.method # "GET" /\ UnderApi(r.path) /\ AuthCheck(p, r) # "OK"
  BY <1>1 DEF Dispatch, Reject, Writers
<1>2. CASE ~(r.method # "GET" /\ UnderApi(r.path) /\ AuthCheck(p, r) # "OK")
  <2>1. AuthCheck(p, r) = "OK"
    BY <1>2, WritersAreRouted DEF Dispatch
  <2>2. QED
    BY <2>1 DEF AuthCheck
<1>3. QED
  BY <1>1, <1>2

\* A dispatch that is refused names no handler.
LEMMA RefusedHasNoHandler ==
    ASSUME NEW p, NEW r, Dispatch(p, r).err # "OK"
    PROVE  Dispatch(p, r).handler = "none"
BY DEF Dispatch, Route, Reject, Run

\* A handler that is no writer makes no call that changes the store, whichever
\* of its calls fails.
LEMMA OnlyWritersWrite ==
    ASSUME NEW h \in {"root", "health", "metrics", "echo", "kv_list", "note_list", "kv_get", "note_get"} \cup Writers,
           NEW o \in Outcomes(h)
    PROVE  o.wrote \in BOOLEAN /\ (o.wrote = TRUE => h \in Writers)
<1> DEFINE calls == Calls(h)
           Wrote(n) == \E i \in 1 .. n : calls[i].writes
<1>1. calls = <<>> \/ (\E a : calls = <<a>>) \/ (\E a, b : calls = <<a, b>>)
  BY Zenon DEF Calls, Writers
<1>2. DOMAIN calls = 1 .. Len(calls) /\ Len(calls) \in Nat
  BY <1>1
<1>3. \E n \in 0 .. Len(calls) : o.wrote = Wrote(n)
  <2>1. CASE o = Effect("OK", Wrote(Len(calls)))
    <3>1. o.wrote = Wrote(Len(calls))
      BY <2>1, Zenon DEF Effect
    <3>2. Len(calls) \in 0 .. Len(calls)
      BY <1>2
    <3>3. QED
      BY <3>1, <3>2
  <2>2. ASSUME NEW n \in DOMAIN calls, NEW e \in calls[n].errors, o = Effect(e, Wrote(n - 1))
        PROVE  \E m \in 0 .. Len(calls) : o.wrote = Wrote(m)
    <3>1. o.wrote = Wrote(n - 1)
      BY <2>2, Zenon DEF Effect
    <3>2. n - 1 \in 0 .. Len(calls)
      BY <1>2
    <3>3. QED
      BY <3>1, <3>2
  <2>3. QED
    BY <2>1, <2>2, Zenon DEF Outcomes
<1>4. ASSUME h \notin Writers, NEW i \in DOMAIN calls PROVE calls[i].writes = FALSE
  BY <1>4 DEF Calls, Writers, ReadCall
<1>5. ASSUME h \notin Writers, NEW n \in 0 .. Len(calls) PROVE ~Wrote(n)
  <2>1. \A i \in 1 .. n : i \in DOMAIN calls
    BY <1>2
  <2>2. QED
    BY <1>4, <1>5, <2>1
<1>6. QED
  BY <1>3, <1>5

-----------------------------------------------------------------------------
(* The parser *)

RequestFields == {"method", "path", "query", "content_length", "json_type", "key", "chunked"}

\* What parse_header_line leaves in the request.
LEMMA HeaderLineIs ==
    ASSUME NEW r, DOMAIN r = RequestFields, NEW l \in Fields, LineError(l) = "OK"
    PROVE  /\ DOMAIN HeaderLine(r, l) = RequestFields
           /\ HeaderLine(r, l).method = r.method
           /\ HeaderLine(r, l).content_length = IF l.name = "content-length" THEN l.value ELSE r.content_length
           /\ HeaderLine(r, l).key = IF l.name = "x-api-key" THEN l.value ELSE r.key
           /\ l.name # "transfer-encoding" => HeaderLine(r, l).chunked = r.chunked
           /\ l.name = "transfer-encoding" => HeaderLine(r, l).chunked = (r.chunked \/ l.value)
BY DEF HeaderLine, RequestFields

\* What the fields hold.
LEMMA FieldValues ==
    ASSUME NEW l \in Fields, LineError(l) = "OK"
    PROVE  /\ l.name = "content-length" => l.value \in 0 .. BodyCap
           /\ l.name = "x-api-key" => l.value \in {"none", "right", "wrong"}
           /\ l.name = "transfer-encoding" => l.value \in BOOLEAN
BY CapsAssumption DEF Fields, LineError

\* The last of the lines parsed so far with a name, as the request shows it: v is
\* its value, or none if there was no such line.
LastIs(name, none, v) ==
    \/ v = none /\ \A i \in 1 .. Len(stream.lines) : i < line => stream.lines[i].name # name
    \/ \E i \in 1 .. Len(stream.lines) :
          /\ i < line /\ stream.lines[i].name = name /\ stream.lines[i].value = v
          /\ \A j \in 1 .. Len(stream.lines) : i < j /\ j < line => stream.lines[j].name # name

\* What is known of the lines parsed so far.
Parsed ==
    /\ stream \in Streams /\ DOMAIN req = RequestFields
    /\ line \in 0 .. Len(stream.lines) + 1
    /\ LastIs("content-length", -1, req.content_length)
    /\ LastIs("x-api-key", "none", req.key)
    /\ req.chunked \in BOOLEAN
    /\ req.chunked = TRUE <=> \E i \in 1 .. Len(stream.lines) :
          i < line /\ stream.lines[i].name = "transfer-encoding" /\ stream.lines[i].value = TRUE
    /\ \A i \in 1 .. Len(stream.lines) : i < line => LineError(stream.lines[i]) = "OK"
    /\ line > 0 => stream.method # "MALFORMED" /\ req.method = stream.method

\* An idle worker has nothing of an earlier request but the bytes in body_buf.
Fresh ==
    /\ arrived = 0 /\ taken = 0 /\ have = 0 /\ line = 0 /\ req = NoRequest
    /\ handler = "none" /\ result = "OK" /\ wrote = FALSE

Parsing == IF pc = "idle" THEN Fresh ELSE Parsed

\* The lines of a stream are fields.
LEMMA LinesAreFields ==
    ASSUME NEW s \in Streams
    PROVE  /\ s.hlen \in Nat \ {0} /\ s.size \in Nat /\ Len(s.lines) \in Nat
           /\ DOMAIN s.lines = 1 .. Len(s.lines)
           /\ \A i \in 1 .. Len(s.lines) : s.lines[i] \in Fields
BY StreamsAssumption

\* Parsing one more line keeps the account of the lines.
LEMMA ParseLineStep ==
    ASSUME Parsed, line \in 1 .. Len(stream.lines), stream' = stream, line' = line + 1,
           LineError(stream.lines[line]) = "OK", req' = HeaderLine(req, stream.lines[line])
    PROVE  Parsed'
<1> DEFINE l == stream.lines[line]
<1>1. l \in Fields /\ Len(stream.lines) \in Nat
  BY LinesAreFields DEF Parsed
<1>2. /\ DOMAIN req' = RequestFields /\ req'.method = req.method
      /\ req'.content_length = IF l.name = "content-length" THEN l.value ELSE req.content_length
      /\ req'.key = IF l.name = "x-api-key" THEN l.value ELSE req.key
      /\ l.name # "transfer-encoding" => req'.chunked = req.chunked
      /\ l.name = "transfer-encoding" => req'.chunked = (req.chunked \/ l.value)
  BY <1>1, HeaderLineIs DEF Parsed
<1>3. LastIs("content-length", -1, req.content_length)'
  BY <1>1, <1>2 DEF Parsed, LastIs
<1>4. LastIs("x-api-key", "none", req.key)'
  BY <1>1, <1>2 DEF Parsed, LastIs
<1>5. /\ req'.chunked \in BOOLEAN
      /\ req'.chunked = TRUE <=> \E i \in 1 .. Len(stream.lines) :
            i < line' /\ stream.lines[i].name = "transfer-encoding" /\ stream.lines[i].value = TRUE
  <2>1. CASE l.name # "transfer-encoding"
    BY <1>1, <1>2, <2>1 DEF Parsed
  <2>2. CASE l.name = "transfer-encoding"
    <3>1. l.value \in BOOLEAN /\ req.chunked \in BOOLEAN
      BY <1>1, <2>2, FieldValues DEF Parsed
    <3>2. req'.chunked \in BOOLEAN /\ (req'.chunked = TRUE <=> req.chunked = TRUE \/ l.value = TRUE)
      BY <1>2, <2>2, <3>1
    <3>3. QED
      BY <1>1, <2>2, <3>2 DEF Parsed
  <2>3. QED
    BY <2>1, <2>2
<1>6. QED
  BY <1>1, <1>2, <1>3, <1>4, <1>5 DEF Parsed

\* The step of the parser's invariant.
LEMMA ParsingStep ==
    ASSUME Parsing, [Next]_vars
    PROVE  Parsing'
<1> USE DEF client, input, outcome
<1>1. CASE NewConnection
  <2>1. stream' \in Streams /\ line' = 0 /\ req' = NoRequest /\ pc' = "header"
    BY <1>1 DEF NewConnection, Parsing, Fresh
  <2>2. /\ DOMAIN req' = RequestFields /\ req'.content_length = -1 /\ req'.key = "none"
        /\ req'.chunked = FALSE
    BY <2>1 DEF NoRequest, RequestFields
  <2>3. Len(stream'.lines) \in Nat
    BY <2>1, LinesAreFields
  <2>4. \A i \in 1 .. Len(stream'.lines) : ~(i < line')
    BY <2>1, <2>3
  <2>5. LastIs("content-length", -1, req.content_length)' /\ LastIs("x-api-key", "none", req.key)'
    BY <2>2, <2>4 DEF LastIs
  <2>6. line' \in 0 .. Len(stream'.lines) + 1 /\ ~(line' > 0)
    BY <2>1, <2>3
  <2>7. Parsed'
    BY <2>1, <2>2, <2>4, <2>5, <2>6, Zenon DEF Parsed
  <2>8. QED
    BY <2>1, <2>7 DEF Parsing
<1>2. CASE Close
  BY <1>2 DEF Close, Parsing, Fresh
<1>3. CASE ParseRequestLine
  <2>1. Parsed /\ pc' # "idle" /\ line = 0 /\ stream' = stream /\ Len(stream.lines) \in Nat
    BY <1>3, LinesAreFields DEF ParseRequestLine, Refuse, GoOn, Parsing, Parsed
  <2>2. CASE UNCHANGED <<line, req>>
    BY <2>1, <2>2 DEF Parsing, Parsed, LastIs
  <2>3. CASE ~UNCHANGED <<line, req>>
    <3>1. /\ stream.method # "MALFORMED" /\ line' = 1
          /\ req' = [req EXCEPT !.method = stream.method, !.path = stream.path, !.query = stream.query]
      BY <1>3, <2>3 DEF ParseRequestLine
    <3>2. /\ DOMAIN req' = RequestFields /\ req'.content_length = req.content_length
          /\ req'.key = req.key /\ req'.chunked = req.chunked /\ req'.method = stream.method
      BY <2>1, <3>1 DEF Parsed, RequestFields
    <3>3. Parsed'
      BY <2>1, <3>1, <3>2 DEF Parsed, LastIs
    <3>4. QED
      BY <2>1, <3>3 DEF Parsing
  <2>4. QED
    BY <2>2, <2>3
<1>4. CASE ParseHeaderLine
  <2>1. /\ Parsed /\ pc' # "idle" /\ stream' = stream
        /\ line \in 1 .. Len(stream.lines)
    BY <1>4, LinesAreFields DEF ParseHeaderLine, Refuse, GoOn, Parsing, Parsed
  <2>2. CASE UNCHANGED <<line, req>>
    BY <2>1, <2>2 DEF Parsing, Parsed, LastIs
  <2>3. CASE ~UNCHANGED <<line, req>>
    <3>1. /\ LineError(stream.lines[line]) = "OK" /\ line' = line + 1
          /\ req' = HeaderLine(req, stream.lines[line])
      BY <1>4, <2>3 DEF ParseHeaderLine
    <3>2. QED
      BY <2>1, <3>1, ParseLineStep DEF Parsing
  <2>4. QED
    BY <2>2, <2>3
<1>5. CASE \/ Arrive \/ (\E how \in {"shut", "reset"} : ClientCloses(how))
           \/ (\E n \in 1 .. HeaderCap : RecvHeader(n)) \/ (\E n \in 1 .. BodyCap : RecvBody(n))
           \/ RefuseParsed \/ StartBody \/ RecvEnd \/ RecvFails \/ ApiDispatch \/ RunHandler
  <2>1. pc # "idle" /\ pc' # "idle" /\ UNCHANGED <<stream, line, req>>
    BY <1>5 DEF Arrive, ClientCloses, RecvHeader, RecvBody, RefuseParsed, StartBody, RecvEnd,
       RecvFails, ApiDispatch, RunHandler, Reading, AllParsed, Refuse, GoOn
  <2>2. QED
    BY <2>1 DEF Parsing, Parsed, LastIs
<1>6. CASE UNCHANGED vars
  BY <1>6 DEF vars, Parsing, Parsed, Fresh, LastIs
<1>7. QED
  BY <1>1, <1>2, <1>3, <1>4, <1>5, <1>6 DEF Next, Worker, Finished

-----------------------------------------------------------------------------
(***************************************************************************)
(* Reading.  The two loops of http_read_request keep an account of the     *)
(* bytes: what was taken, where the header ends, and which bytes of the    *)
(* connection are in body_buf.                                             *)
(***************************************************************************)

\* The request has been read, or its body is being read.
Whole == pc \in {"body", "dispatch", "handle"} \/ (pc = "done" /\ result = "OK")

Reads ==
    /\ pc # "done" => result = "OK"
    /\ pc = "header" => taken < stream.hlen /\ have = 0
    /\ pc = "parse" => stream.hlen =< taken /\ have = 0
    /\ pc = "parse" \/ Whole => stream.hlen < HeaderCap
    /\ Whole => line > Len(stream.lines) /\ req.method # "UNKNOWN" /\ req.chunked = FALSE
    /\ pc = "body" => taken = stream.hlen + have /\ have < Need(req)
    /\ pc \in {"dispatch", "handle"} => have = Need(req)
    /\ Whole /\ pc # "body" => stream.hlen + Need(req) =< taken
    /\ pc \in {"body", "dispatch", "handle"} =>
          \A i \in 1 .. have : body_buf[i] = <<conn, stream.hlen + i>>

\* parse_header_line lets no length beyond the body buffer through.
LEMMA NeedFits ==
    ASSUME Parsed
    PROVE  req.content_length \in -1 .. BodyCap /\ Need(req) \in 0 .. BodyCap
<1>1. BodyCap \in Nat /\ Len(stream.lines) \in Nat
  BY CapsAssumption, LinesAreFields DEF Parsed
<1>2. \A i \in 1 .. Len(stream.lines) :
          i < line /\ stream.lines[i].name = "content-length" => stream.lines[i].value \in 0 .. BodyCap
  BY LinesAreFields, FieldValues DEF Parsed
<1>3. req.content_length \in -1 .. BodyCap
  BY <1>1, <1>2 DEF Parsed, LastIs
<1>4. QED
  BY <1>1, <1>3 DEF Need

\* So the key in the request is one that server_auth_check knows to judge.
LEMMA KeyIsJudged ==
    ASSUME Parsed
    PROVE  req.key \in {"none", "right", "wrong"}
<1>1. \A i \in 1 .. Len(stream.lines) :
          i < line /\ stream.lines[i].name = "x-api-key" => stream.lines[i].value \in {"none", "right", "wrong"}
  BY LinesAreFields, FieldValues DEF Parsed
<1>2. QED
  BY <1>1 DEF Parsed, LastIs

-----------------------------------------------------------------------------
(* Handling *)

Readers == {"root", "health", "metrics", "echo", "kv_list", "note_list", "kv_get", "note_get"}

\* No handler is chosen before the dispatcher chooses one, a writer is chosen
\* only with the key, and only a writer that was reached that way changes the store.
Handling ==
    /\ wrote \in BOOLEAN
    /\ pc \in {"header", "parse", "body", "dispatch"} => handler = "none" /\ wrote = FALSE
    /\ pc = "handle" => handler \in Readers \cup Writers /\ wrote = FALSE
    /\ handler \in Writers /\ protected = TRUE => req.key = "right"
    /\ wrote = TRUE => handler \in Writers /\ Whole

\* The dispatcher chooses a handler of its table.
LEMMA DispatchedIsHandler ==
    ASSUME NEW p, NEW r, Dispatch(p, r).err = "OK"
    PROVE  Dispatch(p, r).handler \in Readers \cup Writers
<1>1. Dispatch(p, r) = Route(r)
  BY DEF Dispatch, Reject
<1>2. r.path \notin DOMAIN Refused
  <2>1. SUFFICES ASSUME r.path \in DOMAIN Refused PROVE FALSE
    OBVIOUS
  <2>2. Route(r) = Reject(Refused[r.path])
    BY <2>1 DEF Route, Refused, Routes
  <2>3. Refused[r.path] # "OK"
    BY <2>1 DEF Refused
  <2>4. QED
    BY <1>1, <2>2, <2>3 DEF Reject
<1>3. r.path \in DOMAIN Routes /\ r.method \in DOMAIN Routes[r.path]
  BY <1>1, <1>2 DEF Route, Reject
<1>4. Dispatch(p, r).handler = Routes[r.path][r.method]
  BY <1>1, <1>2, <1>3 DEF Route, Run
<1>5. QED
  BY <1>3, <1>4 DEF Routes, Readers, Writers

\* The step of the handlers' invariant.
LEMMA HandlingStep ==
    ASSUME protected \in BOOLEAN, Parsing, Reads, Handling, [Next]_vars
    PROVE  Handling'
<1> USE DEF client, input, outcome
<1>1. CASE NewConnection
  <2>1. /\ pc' = "header" /\ handler' = "none" /\ wrote' = FALSE
    BY <1>1 DEF NewConnection, Parsing, Fresh
  <2>2. QED
    BY <2>1 DEF Handling, Writers
<1>2. CASE Close
  BY <1>2 DEF Close, Handling, Writers
<1>3. ASSUME NEW e, Refuse(e), pc \in {"header", "parse", "body"} PROVE Handling'
  <2>1. pc' = "done" /\ handler' = "none" /\ wrote' = FALSE
    BY <1>3 DEF Refuse, Handling
  <2>2. QED
    BY <2>1 DEF Handling, Writers
<1>4. CASE \/ Arrive \/ (\E how \in {"shut", "reset"} : ClientCloses(how))
           \/ (\E n \in 1 .. HeaderCap : RecvHeader(n)) \/ (\E n \in 1 .. BodyCap : RecvBody(n))
           \/ ParseRequestLine \/ ParseHeaderLine \/ RefuseParsed \/ StartBody \/ RecvEnd \/ RecvFails
  <2>1. /\ pc \in {"header", "parse", "body"}
        /\ \/ \E e : Refuse(e)
           \/ pc' \in {"header", "parse", "body", "dispatch"} /\ UNCHANGED outcome
    BY <1>4 DEF Arrive, ClientCloses, RecvHeader, RecvBody, ParseRequestLine, ParseHeaderLine,
       RefuseParsed, StartBody, RecvEnd, RecvFails, Reading, AllParsed, GoOn
  <2>2. CASE \E e : Refuse(e)
    BY <1>3, <2>1, <2>2
  <2>3. CASE pc' \in {"header", "parse", "body", "dispatch"} /\ UNCHANGED outcome
    BY <2>1, <2>3 DEF Handling, Writers
  <2>4. QED
    BY <2>1, <2>2, <2>3
<1>5. CASE ApiDispatch
  <2> DEFINE d == Dispatch(protected, req)
  <2>1. /\ pc = "dispatch" /\ handler' = d.handler /\ UNCHANGED <<protected, req, wrote>>
        /\ \/ d.err = "OK" /\ pc' = "handle"
           \/ d.err # "OK" /\ pc' = "done"
    BY <1>5 DEF ApiDispatch
  <2>2. handler' \in Writers /\ protected = TRUE => req.key = "right"
    <3>1. req.key \in {"none", "right", "wrong"}
      BY <2>1, KeyIsJudged DEF Parsing
    <3>2. ASSUME handler' \in Writers, protected = TRUE PROVE req.key = "right"
      <4>1. Dispatch(protected, req).handler \in Writers
        BY <2>1, <3>2
      <4>2. QED
        BY <3>1, <3>2, <4>1, WritersNeedKey
    <3>3. QED
      BY <3>2
  <2>3. wrote' = FALSE
    BY <2>1 DEF Handling
  <2>4. CASE pc' = "handle"
    <3>1. handler' \in Readers \cup Writers
      BY <2>1, <2>4, DispatchedIsHandler
    <3>2. QED
      BY <2>1, <2>2, <2>3, <2>4, <3>1 DEF Handling
  <2>5. CASE pc' = "done"
    <3>1. handler' = "none"
      BY <2>1, <2>5, RefusedHasNoHandler
    <3>2. QED
      BY <2>2, <2>1, <2>3, <2>5, <3>1 DEF Handling, Writers
  <2>6. QED
    BY <2>1, <2>4, <2>5
<1>6. CASE RunHandler
  <2> DEFINE check == Validate(handler, req, stream.text)
  <2>1. /\ pc = "handle" /\ pc' = "done" /\ UNCHANGED <<protected, req, handler, result>>
        /\ handler \in Readers \cup Writers /\ wrote = FALSE /\ result = "OK"
        /\ handler \in Writers /\ protected = TRUE => req.key = "right"
    BY <1>6 DEF RunHandler, Handling, Reads
  <2>2. Whole'
    BY <2>1 DEF Whole
  <2>3. CASE check # "OK"
    <3>1. wrote' = FALSE
      BY <1>6, <2>1, <2>3 DEF RunHandler
    <3>2. QED
      BY <2>1, <2>2, <3>1 DEF Handling
  <2>4. CASE check = "OK"
    <3>1. PICK o \in Outcomes(handler) : wrote' = o.wrote
      BY <1>6, <2>4 DEF RunHandler
    <3>2. wrote' \in BOOLEAN /\ (wrote' = TRUE => handler \in Writers)
      BY <2>1, <3>1, OnlyWritersWrite DEF Readers
    <3>3. QED
      BY <2>1, <2>2, <3>2 DEF Handling
  <2>5. QED
    BY <2>3, <2>4
<1>7. CASE UNCHANGED vars
  BY <1>7 DEF vars, Handling, Whole
<1>8. QED
  BY <1>1, <1>2, <1>4, <1>5, <1>6, <1>7 DEF Next, Worker, Finished

-----------------------------------------------------------------------------
(* The two loops *)

\* The step of the account, with the types.
LEMMA ReadsStep ==
    ASSUME TypeOK, Parsing, Reads, Handling, [Next]_vars
    PROVE  TypeOK' /\ Reads'
<1> USE DEF client, input, outcome
<1> DEFINE Goal == TypeOK' /\ Reads'
<1>0. HeaderCap \in Nat /\ BodyCap \in Nat /\ MaxConns \in Nat
  BY CapsAssumption, MaxConnsAssumption
<1>00. pc # "idle" => /\ Parsed /\ stream.hlen \in Nat \ {0} /\ stream.size \in Nat
                      /\ Len(stream.lines) \in Nat /\ Need(req) \in 0 .. BodyCap
  BY LinesAreFields, NeedFits DEF Parsing, Parsed
<1>1. CASE NewConnection
  <2>1. /\ pc' = "header" /\ stream' \in Streams /\ conn' = conn + 1 /\ conn < MaxConns /\ link' = "open"
        /\ arrived' = 0 /\ taken' = 0 /\ have' = 0 /\ result' = "OK" /\ UNCHANGED <<protected, wrote>>
    BY <1>1 DEF NewConnection, Parsing, Fresh
  <2>2. stream'.hlen \in Nat \ {0} /\ stream'.size \in Nat
    BY <2>1, LinesAreFields
  <2>3. TypeOK'
    BY <1>0, <2>1, <2>2, CapsAssumption DEF TypeOK
  <2>4. Reads'
    BY <2>1, <2>2 DEF Reads, Whole
  <2>5. QED
    BY <2>3, <2>4
<1>2. CASE Close
  <2>1. /\ pc' = "idle" /\ stream'.hlen = 0 /\ stream'.size = 0 /\ arrived' = 0 /\ link' = "shut"
        /\ taken' = 0 /\ have' = 0 /\ result' = "OK" /\ wrote' = FALSE /\ UNCHANGED <<protected, conn>>
    BY <1>2 DEF Close, NoStream
  <2>2. arrived' \in 0 .. stream'.hlen + stream'.size /\ taken' \in 0 .. arrived' /\ have' \in 0 .. BodyCap
    BY <1>0, <2>1
  <2>3. TypeOK'
    BY <2>1, <2>2 DEF TypeOK
  <2>4. Reads'
    BY <2>1 DEF Reads, Whole
  <2>5. QED
    BY <2>3, <2>4
<1>3. CASE Arrive \/ \E how \in {"shut", "reset"} : ClientCloses(how)
  <2>1. /\ UNCHANGED <<protected, conn, stream, taken, body_buf, have, line, req, result, wrote, pc>>
        /\ pc # "idle" /\ link' \in {"open", "shut", "reset"}
        /\ arrived' = arrived \/ (arrived < stream.hlen + stream.size /\ arrived' = arrived + 1)
    BY <1>3 DEF Arrive, ClientCloses, Reading, TypeOK
  <2>2. TypeOK'
    BY <1>00, <2>1 DEF TypeOK
  <2>3. Reads'
    BY <2>1 DEF Reads, Whole, Need
  <2>4. QED
    BY <2>2, <2>3
<1>4. ASSUME NEW e, e # "OK", Refuse(e), UNCHANGED client, UNCHANGED input, pc # "idle" PROVE Goal
  <2>1. /\ pc' = "done" /\ result' # "OK"
        /\ UNCHANGED <<protected, conn, stream, arrived, link, taken, have, wrote>>
    BY <1>4 DEF Refuse
  <2>2. TypeOK'
    BY <2>1 DEF TypeOK
  <2>3. Reads'
    BY <2>1 DEF Reads, Whole
  <2>4. QED
    BY <2>2, <2>3
<1>5. ASSUME NEW n \in 1 .. HeaderCap, RecvHeader(n) PROVE Goal
  <2>1. /\ pc = "header" /\ n \in 1 .. Lesser(Unread, HeaderCap - 1 - taken) /\ taken' = taken + n
        /\ UNCHANGED <<protected, conn, stream, arrived, link, body_buf, have, line, req, wrote>>
    BY <1>5 DEF RecvHeader, Refuse, GoOn
  <2>2. taken' \in 0 .. arrived /\ taken' < HeaderCap
    BY <1>0, <1>00, <2>1 DEF TypeOK, Lesser, Unread
  <2>3. \/ taken' >= stream.hlen /\ pc' = "parse" /\ UNCHANGED result
        \/ taken' < stream.hlen /\ pc' = "header" /\ UNCHANGED result
        \/ pc' = "done" /\ result' = "BAD_REQUEST"
    BY <1>5 DEF RecvHeader, Refuse, GoOn
  <2>4. TypeOK'
    BY <2>1, <2>2, <2>3 DEF TypeOK
  <2>5. Reads'
    BY <1>0, <1>00, <2>1, <2>2, <2>3 DEF Reads, Whole
  <2>6. QED
    BY <2>4, <2>5
<1>6. CASE ParseRequestLine \/ ParseHeaderLine
  <2>1. /\ pc = "parse" /\ UNCHANGED <<protected, conn, stream, arrived, link, taken, body_buf, have, wrote>>
        /\ (pc' = "parse" /\ UNCHANGED result) \/ (pc' = "done" /\ result' # "OK")
    BY <1>6 DEF ParseRequestLine, ParseHeaderLine, Refuse, GoOn
  <2>2. TypeOK'
    BY <2>1 DEF TypeOK
  <2>3. Reads'
    BY <2>1 DEF Reads, Whole
  <2>4. QED
    BY <2>2, <2>3
<1>7. CASE RefuseParsed \/ RecvEnd \/ RecvFails
  <2>1. \E e \in {"METHOD_NOT_ALLOWED", "NOT_IMPLEMENTED", "BAD_REQUEST"} : Refuse(e)
    BY <1>7 DEF RefuseParsed, RecvEnd, RecvFails
  <2>2. UNCHANGED client /\ UNCHANGED input /\ pc # "idle"
    BY <1>7 DEF RefuseParsed, RecvEnd, RecvFails, AllParsed, Reading
  <2>3. QED
    BY <1>4, <2>1, <2>2
<1>8. CASE StartBody
  <2> DEFINE copy_now == Lesser(taken - stream.hlen, Need(req))
  <2>1. /\ pc = "parse" /\ line > Len(stream.lines) /\ req.method # "UNKNOWN" /\ ~req.chunked
        /\ body_buf' = Filled(stream.hlen, copy_now) /\ have' = copy_now
        /\ pc' = (IF copy_now < Need(req) THEN "body" ELSE "dispatch")
        /\ UNCHANGED <<protected, conn, stream, arrived, link, taken, line, req, result, wrote>>
    BY <1>8 DEF StartBody, AllParsed, GoOn
  <2>2. req.chunked = FALSE
    BY <1>00, <2>1 DEF Parsed
  <2>3. /\ copy_now \in 0 .. Need(req) /\ copy_now =< taken - stream.hlen
        /\ copy_now < Need(req) => copy_now = taken - stream.hlen
    BY <1>0, <1>00, <2>1 DEF Lesser, Reads, TypeOK
  <2>4. \A i \in 1 .. copy_now : body_buf'[i] = <<conn, stream.hlen + i>>
    <3> TAKE i \in 1 .. copy_now
    <3>1. have = 0 /\ i \in 1 .. BodyCap /\ i \in have + 1 .. have + copy_now
      BY <1>0, <1>00, <2>1, <2>3 DEF Reads
    <3>2. body_buf'[i] = <<conn, stream.hlen + i - have>>
      BY <2>1, <3>1 DEF Filled
    <3>3. stream.hlen + i - have = stream.hlen + i
      BY <1>00, <2>1, <3>1
    <3>4. QED
      BY <3>2, <3>3
  <2>5. TypeOK'
    BY <1>0, <1>00, <2>1, <2>3 DEF TypeOK
  <2>6. Reads'
    <3>1. taken = stream.hlen + copy_now \/ copy_now = Need(req)
      BY <1>0, <1>00, <2>1, <2>3 DEF TypeOK
    <3>2. stream.hlen + copy_now =< taken
      BY <1>0, <1>00, <2>1, <2>3 DEF TypeOK
    <3>3. Need(req)' = Need(req) /\ stream.hlen < HeaderCap
      BY <2>1 DEF Need, Reads
    <3>4. CASE copy_now < Need(req)
      BY <1>0, <1>00, <2>1, <2>2, <2>3, <2>4, <3>1, <3>3, <3>4 DEF Reads, Whole
    <3>5. CASE ~(copy_now < Need(req))
      <4>1. copy_now = Need(req) /\ pc' = "dispatch"
        BY <1>0, <1>00, <2>1, <2>3, <3>5
      <4>2. QED
        BY <2>1, <2>2, <2>4, <3>2, <3>3, <4>1 DEF Reads, Whole
    <3>6. QED
      BY <3>4, <3>5
  <2>7. QED
    BY <2>5, <2>6
<1>9. ASSUME NEW n \in 1 .. BodyCap, RecvBody(n) PROVE Goal
  <2>1. /\ pc = "body" /\ n \in 1 .. Lesser(Unread, Need(req) - have) /\ taken' = taken + n
        /\ body_buf' = Filled(taken, n) /\ have' = have + n
        /\ pc' = (IF have' < Need(req) THEN "body" ELSE "dispatch")
        /\ UNCHANGED <<protected, conn, stream, arrived, link, line, req, result, wrote>>
    BY <1>9 DEF RecvBody, GoOn
  <2>2. /\ taken' \in 0 .. arrived /\ have' \in 0 .. Need(req) /\ have \in 0 .. BodyCap
        /\ taken = stream.hlen + have /\ taken' = stream.hlen + have'
    <3>1. /\ taken = stream.hlen + have /\ have \in Nat /\ taken \in Nat /\ arrived \in Nat
          /\ stream.hlen \in Nat /\ Need(req) \in Nat /\ have \in 0 .. BodyCap
      BY <1>00, <2>1 DEF TypeOK, Reads
    <3>2. n \in Nat /\ n =< arrived - taken /\ n =< Need(req) - have
      BY <2>1, <3>1 DEF Lesser, Unread
    <3>3. QED
      BY <2>1, <3>1, <3>2
  <2>3. \A i \in 1 .. have' : body_buf'[i] = <<conn, stream.hlen + i>>
    <3> TAKE i \in 1 .. have'
    <3>1. i \in 1 .. BodyCap /\ (i \in 1 .. have \/ i \in have + 1 .. have + n)
      BY <1>0, <1>00, <2>1, <2>2
    <3>2. CASE i \in 1 .. have
      <4>1. body_buf'[i] = body_buf[i]
        BY <1>0, <2>1, <2>2, <3>1, <3>2 DEF Filled
      <4>2. QED
        BY <2>1, <3>2, <4>1 DEF Reads
    <3>3. CASE i \in have + 1 .. have + n
      <4>1. body_buf'[i] = <<conn, taken + i - have>>
        BY <2>1, <3>1, <3>3 DEF Filled
      <4>2. taken + i - have = stream.hlen + i
        <5>1. stream.hlen \in Int /\ have \in Int /\ i \in Int /\ taken = stream.hlen + have
          BY <1>00, <2>1, <2>2, <3>1
        <5>2. QED
          BY <5>1
      <4>3. QED
        BY <4>1, <4>2
    <3>4. QED
      BY <3>1, <3>2, <3>3
  <2>4. TypeOK'
    BY <1>0, <1>00, <2>1, <2>2 DEF TypeOK
  <2>5. Reads'
    <3>0. have' \in 0 .. Need(req) /\ Need(req) \in Nat
      BY <1>00, <2>1, <2>2
    <3>1. have' < Need(req) \/ have' = Need(req)
      BY <3>0
    <3>2. Need(req)' = Need(req)
      BY <2>1 DEF Need
    <3>3. QED
      BY <1>00, <2>1, <2>2, <2>3, <3>1, <3>2 DEF Reads, Whole
  <2>6. QED
    BY <2>4, <2>5
<1>10. CASE ApiDispatch \/ RunHandler
  <2>1. /\ \/ pc = "dispatch" /\ pc' \in {"handle", "done"} /\ UNCHANGED wrote
           \/ pc = "handle" /\ pc' = "done"
        /\ UNCHANGED <<protected, conn, stream, arrived, link, taken, body_buf, have, line, req, result>>
    BY <1>10 DEF ApiDispatch, RunHandler
  <2>2. Reads'
    BY <2>1 DEF Reads, Whole, Need
  <2>3. wrote' \in BOOLEAN
    BY HandlingStep DEF TypeOK, Handling
  <2>4. TypeOK'
    BY <2>1, <2>3 DEF TypeOK
  <2>5. QED
    BY <2>2, <2>4
<1>11. CASE UNCHANGED vars
  BY <1>11 DEF vars, TypeOK, Reads, Whole, Need
<1>12. QED
  BY <1>1, <1>2, <1>3, <1>5, <1>6, <1>7, <1>8, <1>9, <1>10, <1>11 DEF Next, Worker, Finished

-----------------------------------------------------------------------------
(***************************************************************************)
(* What the parser found, compared with what the stream asks for as a      *)
(* whole: the definitions of Request that do not know of lines parsed.     *)
(***************************************************************************)

\* A set of naturals that is not empty has a least element, and a greatest one if
\* it is bounded.
LEMMA LeastExists ==
    ASSUME NEW T \in SUBSET Nat, T # {}
    PROVE  \E x \in T : \A y \in T : x =< y
<1>1. PICK x \in T : \A y \in T : <<y, x>> \notin OpToRel(<, Nat)
  BY WFMin, NatLessThanWellFounded, Zenon
<1>2. \A y \in T : ~(y < x)
  BY <1>1 DEF OpToRel
<1>3. QED
  BY <1>2

\* Likewise a nonempty set of naturals below a bound has a greatest element.
LEMMA GreatestExists ==
    ASSUME NEW b \in Nat, NEW T \in SUBSET (0 .. b), T # {}
    PROVE  Max(T) \in T /\ \A y \in T : Max(T) >= y
<1> DEFINE U == {n \in Nat : \A y \in T : n >= y}
<1>1. b \in U /\ U \in SUBSET Nat
  OBVIOUS
<1>2. PICK m \in U : \A n \in U : m =< n
  BY <1>1, LeastExists
<1>3. m \in T
  <2>1. SUFFICES ASSUME m \notin T PROVE FALSE
    OBVIOUS
  <2>2. \A y \in T : y \in Nat /\ m >= y /\ m # y
    BY <2>1
  <2>3. PICK y \in T : TRUE
    OBVIOUS
  <2>4. m - 1 \in U
    BY <2>2, <2>3
  <2>5. QED
    BY <1>2, <2>4
<1>4. \A y \in T : m >= y
  OBVIOUS
<1>5. QED
  BY <1>3, <1>4 DEF Max

\* With all lines parsed, the account of a name is the value of its last line.
LEMMA LastValueIs ==
    ASSUME stream \in Streams, line \in Nat, line > Len(stream.lines),
           NEW name, NEW none, NEW v, LastIs(name, none, v)
    PROVE  LastValue(stream, name, none) = v
<1>1. /\ Len(stream.lines) \in Nat /\ DOMAIN stream.lines = 1 .. Len(stream.lines)
      /\ \A i \in 1 .. Len(stream.lines) : i < line
  BY LinesAreFields
<1>2. CASE v = none /\ \A i \in 1 .. Len(stream.lines) : i < line => stream.lines[i].name # name
  BY <1>1, <1>2 DEF LastValue, LinesNamed
<1>3. ASSUME NEW i \in 1 .. Len(stream.lines), stream.lines[i].name = name, stream.lines[i].value = v,
             \A j \in 1 .. Len(stream.lines) : i < j /\ j < line => stream.lines[j].name # name
      PROVE  LastValue(stream, name, none) = v
  <2>1. i \in LinesNamed(stream, name) /\ \A j \in LinesNamed(stream, name) : j \in Nat /\ i >= j
    BY <1>1, <1>3 DEF LinesNamed
  <2>2. Max(LinesNamed(stream, name)) = i
    <3>1. \A x \in LinesNamed(stream, name) : (\A y \in LinesNamed(stream, name) : x >= y) => x = i
      BY <2>1
    <3>2. QED
      BY <2>1, <3>1, Zenon DEF Max
  <2>3. QED
    BY <1>3, <2>1, <2>2 DEF LastValue
<1>4. QED
  BY <1>1, <1>2, <1>3 DEF LastIs

\* The announced length is the one http_read_request waits for.
LEMMA NeedIsAnnounced ==
    ASSUME Parsed, line > Len(stream.lines)
    PROVE  Need(req) = Announced(stream)
<1>1. /\ stream \in Streams /\ line \in Nat /\ Len(stream.lines) \in Nat
      /\ LastIs("content-length", -1, req.content_length)
  BY LinesAreFields DEF Parsed
<1>2. LastValue(stream, "content-length", -1) = req.content_length
  BY <1>1, LastValueIs
<1>3. CASE LinesNamed(stream, "content-length") = {}
  BY <1>2, <1>3 DEF LastValue, Announced, Need
<1>4. CASE LinesNamed(stream, "content-length") # {}
  BY <1>2, <1>4 DEF LastValue, Announced, Need
<1>5. QED
  BY <1>3, <1>4

\* A length that is announced is never negative.
LEMMA AnnouncedIsNatural ==
    ASSUME stream \in Streams
    PROVE  Announced(stream) \in Nat
<1>1. LastValue(stream, "content-length", 0) \in Int
  <2>1. CASE LinesNamed(stream, "content-length") = {}
    BY <2>1 DEF LastValue
  <2>2. CASE LinesNamed(stream, "content-length") # {}
    <3> DEFINE S == LinesNamed(stream, "content-length")
    <3>1. S \subseteq 1 .. Len(stream.lines) /\ Len(stream.lines) \in Nat
      BY LinesAreFields DEF LinesNamed
    <3>2. Max(S) \in S
      <4>1. S \in SUBSET (0 .. Len(stream.lines))
        BY <3>1
      <4>2. QED
        BY <2>2, <3>1, <4>1, GreatestExists
    <3>3. stream.lines[Max(S)] \in Fields /\ stream.lines[Max(S)].name = "content-length"
      BY <3>1, <3>2, LinesAreFields DEF LinesNamed
    <3>4. stream.lines[Max(S)].value \in Int
      BY <3>3 DEF Fields
    <3>5. QED
      BY <2>2, <3>4 DEF LastValue
  <2>3. QED
    BY <2>1, <2>2
<1>2. QED
  BY <1>1 DEF Announced

\* What the parser has accepted has no bad line.
LEMMA NoBadLines ==
    ASSUME Parsed, line > Len(stream.lines)
    PROVE  BadLines(stream) = {}
<1>1. Len(stream.lines) \in Nat /\ DOMAIN stream.lines = 1 .. Len(stream.lines)
  BY LinesAreFields DEF Parsed
<1>2. QED
  BY <1>1 DEF Parsed, BadLines

\* The line the parser stops at is the first bad one.
LEMMA FirstBadLine ==
    ASSUME Parsed, line \in 1 .. Len(stream.lines), LineError(stream.lines[line]) # "OK"
    PROVE  BadLines(stream) # {} /\ Min(BadLines(stream)) = line
<1>1. Len(stream.lines) \in Nat /\ DOMAIN stream.lines = 1 .. Len(stream.lines)
  BY LinesAreFields DEF Parsed
<1>2. line \in BadLines(stream) /\ \A i \in BadLines(stream) : i \in Nat /\ line =< i
  BY <1>1 DEF Parsed, BadLines
<1>3. \A x \in BadLines(stream) : (\A y \in BadLines(stream) : x =< y) => x = line
  BY <1>2
<1>4. QED
  BY <1>2, <1>3, Zenon DEF Min

\* A stream asks to be read in chunks if and only if the parser found so.
LEMMA ChunkedIs ==
    ASSUME Parsed, line > Len(stream.lines)
    PROVE  (req.chunked = TRUE) <=> (\E i \in LinesNamed(stream, "transfer-encoding") : stream.lines[i].value)
<1>1. Len(stream.lines) \in Nat /\ DOMAIN stream.lines = 1 .. Len(stream.lines)
  BY LinesAreFields DEF Parsed
<1>2. \A i \in LinesNamed(stream, "transfer-encoding") :
          i \in 1 .. Len(stream.lines) /\ i < line /\ stream.lines[i].value \in BOOLEAN
  BY <1>1, LinesAreFields, FieldValues DEF Parsed, LinesNamed
<1>3. (req.chunked = TRUE) <=> (\E i \in LinesNamed(stream, "transfer-encoding") : stream.lines[i].value = TRUE)
  BY <1>1, <1>2 DEF Parsed, LinesNamed
<1>4. QED
  BY <1>2, <1>3, Zenon

\* A request that is read is one whose bytes ask for it.
LEMMA WholeIsOK ==
    ASSUME Parsing, Reads, Whole
    PROVE  ReadResult(stream) = "OK" /\ Need(req) = Announced(stream)
<1>1. Parsed /\ line > Len(stream.lines) /\ req.method # "UNKNOWN" /\ req.chunked = FALSE
  BY DEF Parsing, Reads, Whole
<1>2. /\ stream.hlen \in Nat /\ stream.hlen < HeaderCap /\ HeaderCap \in Nat /\ line > 0
  BY <1>1, LinesAreFields, CapsAssumption DEF Parsed, Reads
<1>3. stream.method # "MALFORMED" /\ stream.method # "UNKNOWN"
  BY <1>1, <1>2 DEF Parsed
<1>4. ~(stream.hlen >= HeaderCap)
  BY <1>2
<1>5. QED
  BY <1>1, <1>3, <1>4, NoBadLines, ChunkedIs, NeedIsAnnounced DEF ReadResult

-----------------------------------------------------------------------------
(* The whole invariant *)

\* A request that could not be read: its bytes ask for that, or not all of them came.
Refusals ==
    pc = "done" /\ result # "OK" =>
        \/ result = ReadResult(stream)
        \/ /\ result = "BAD_REQUEST"
           /\ link = "reset" \/ arrived < stream.hlen + Announced(stream)

\* A refusal is the one that the stream calls for, whatever step follows.
LEMMA RefusalsStep ==
    ASSUME TypeOK, Parsing, Reads, Refusals, [Next]_vars
    PROVE  Refusals'
<1> USE DEF client, input, outcome
<1>0. HeaderCap \in Nat /\ BodyCap \in Nat
  BY CapsAssumption
<1>00. pc # "idle" => /\ Parsed /\ stream \in Streams /\ stream.hlen \in Nat \ {0} /\ stream.size \in Nat
                      /\ Announced(stream) \in Nat /\ Len(stream.lines) \in Nat /\ Need(req) \in Nat
  <2> SUFFICES ASSUME pc # "idle"
               PROVE  /\ Parsed /\ stream \in Streams /\ stream.hlen \in Nat \ {0} /\ stream.size \in Nat
                      /\ Announced(stream) \in Nat /\ Len(stream.lines) \in Nat /\ Need(req) \in Nat
    OBVIOUS
  <2>1. Parsed /\ stream \in Streams
    BY DEF Parsing, Parsed
  <2>2. Need(req) \in Nat
    BY <1>0, <2>1, NeedFits
  <2>3. QED
    BY <2>1, <2>2, LinesAreFields, AnnouncedIsNatural
<1>1. CASE \/ NewConnection \/ Close \/ Arrive \/ (\E how \in {"shut", "reset"} : ClientCloses(how))
           \/ (\E n \in 1 .. BodyCap : RecvBody(n)) \/ StartBody
  BY <1>1 DEF NewConnection, Close, Arrive, ClientCloses, RecvBody, StartBody, Reading, AllParsed, GoOn, Refusals
<1>2. ASSUME NEW n \in 1 .. HeaderCap, RecvHeader(n) PROVE Refusals'
  <2>1. UNCHANGED stream /\ pc = "header" /\ taken' = taken + n
    BY <1>2 DEF RecvHeader
  <2>2. CASE taken' < stream.hlen /\ taken' + 1 >= HeaderCap /\ result' = "BAD_REQUEST"
    <3>1. stream.hlen >= HeaderCap
      BY <1>0, <1>00, <2>1, <2>2 DEF TypeOK
    <3>2. ReadResult(stream)' = "BAD_REQUEST"
      BY <2>1, <3>1 DEF ReadResult
    <3>3. QED
      BY <2>2, <3>2 DEF Refusals
  <2>3. QED
    BY <1>2, <2>2 DEF RecvHeader, Refuse, GoOn, Refusals
<1>3. CASE ParseRequestLine
  BY <1>3 DEF ParseRequestLine, Refuse, GoOn, Refusals, ReadResult
<1>4. CASE ParseHeaderLine
  <2> DEFINE l == stream.lines[line]
  <2>1. UNCHANGED stream /\ pc = "parse" /\ line \in 1 .. Len(stream.lines)
    BY <1>4, <1>00, LinesAreFields DEF ParseHeaderLine
  <2>2. CASE LineError(l) # "OK" /\ result' = LineError(l)
    <3>1. stream.method # "MALFORMED" /\ ~(stream.hlen >= HeaderCap)
      BY <1>0, <1>00, <2>1 DEF Parsed, Reads
    <3>2. BadLines(stream) # {} /\ Min(BadLines(stream)) = line
      BY <1>00, <2>1, <2>2, FirstBadLine
    <3>3. ReadResult(stream) = LineError(l)
      BY <3>1, <3>2 DEF ReadResult
    <3>4. ReadResult(stream)' = ReadResult(stream)
      BY <2>1 DEF ReadResult, BadLines, LinesNamed
    <3>5. QED
      BY <2>2, <3>3, <3>4 DEF Refusals
  <2>3. QED
    BY <1>4, <2>2 DEF ParseHeaderLine, Refuse, GoOn, Refusals
<1>5. CASE RefuseParsed
  <2>1. /\ UNCHANGED stream /\ pc = "parse" /\ line > Len(stream.lines) /\ line > 0
    BY <1>5, <1>00 DEF RefuseParsed, AllParsed, Parsed
  <2>2. /\ stream.method # "MALFORMED" /\ ~(stream.hlen >= HeaderCap)
        /\ req.method = stream.method /\ BadLines(stream) = {}
    <3>1. BadLines(stream) = {}
      BY <1>00, <2>1, NoBadLines
    <3>2. stream.method # "MALFORMED" /\ req.method = stream.method
      BY <1>00, <2>1 DEF Parsed
    <3>3. stream.hlen < HeaderCap
      BY <2>1 DEF Reads
    <3>4. QED
      BY <1>0, <1>00, <2>1, <3>1, <3>2, <3>3
  <2>3. \/ req.method = "UNKNOWN" /\ result' = "METHOD_NOT_ALLOWED"
        \/ req.method # "UNKNOWN" /\ req.chunked = TRUE /\ result' = "NOT_IMPLEMENTED"
    <3>1. req.chunked \in BOOLEAN
      BY <1>00, <2>1 DEF Parsed
    <3>2. QED
      BY <1>5, <3>1 DEF RefuseParsed, Refuse
  <2>4. result' = ReadResult(stream)
    BY <1>00, <2>1, <2>2, <2>3, ChunkedIs DEF ReadResult
  <2>5. ReadResult(stream)' = ReadResult(stream)
    BY <2>1 DEF ReadResult, BadLines, LinesNamed
  <2>6. QED
    BY <2>4, <2>5 DEF Refusals
<1>6. CASE RecvEnd \/ RecvFails
  <2>1. /\ pc \in {"header", "body"} /\ result' = "BAD_REQUEST" /\ UNCHANGED <<stream, arrived, link>>
        /\ link = "reset" \/ Unread = 0
    BY <1>6 DEF RecvEnd, RecvFails, Reading, Refuse
  <2>2. Announced(stream)' = Announced(stream)
    BY <2>1 DEF Announced, LastValue, LinesNamed
  <2>3. CASE Unread = 0
    <3>1. taken = arrived /\ taken \in Nat /\ arrived \in Nat
      BY <1>00, <2>1, <2>3 DEF Unread, TypeOK
    <3>2. CASE pc = "header"
      BY <1>00, <2>1, <2>2, <3>1, <3>2 DEF Reads, Refusals
    <3>3. CASE pc = "body"
      <4>1. Need(req) = Announced(stream)
        BY <3>3, WholeIsOK DEF Whole
      <4>2. taken = stream.hlen + have /\ have < Need(req) /\ have \in Int
        BY <3>3 DEF Reads, TypeOK
      <4>3. arrived < stream.hlen + Announced(stream)
        BY <1>00, <3>1, <3>3, <4>1, <4>2
      <4>4. QED
        BY <2>1, <2>2, <4>3 DEF Refusals
    <3>4. QED
      BY <2>1, <3>2, <3>3
  <2>4. QED
    BY <2>1, <2>3 DEF Refusals
<1>7. CASE ApiDispatch \/ RunHandler
  BY <1>7 DEF ApiDispatch, RunHandler, Reads, Refusals
<1>8. CASE UNCHANGED vars
  BY <1>8 DEF vars, Refusals, ReadResult, BadLines, LinesNamed, Announced, LastValue
<1>9. QED
  BY <1>1, <1>2, <1>3, <1>4, <1>5, <1>6, <1>7, <1>8 DEF Next, Worker, Finished

Inv == TypeOK /\ Parsing /\ Reads /\ Handling /\ Refusals

\* The invariant holds in every reachable state.
LEMMA InvHolds == Spec => []Inv
<1>1. Init => Inv
  <2> SUFFICES ASSUME Init PROVE Inv
    OBVIOUS
  <2>1. /\ pc = "idle" /\ result = "OK" /\ wrote = FALSE /\ handler = "none" /\ conn = 0 /\ stream = NoStream
        /\ arrived = 0 /\ taken = 0 /\ have = 0 /\ line = 0 /\ req = NoRequest /\ link = "shut"
        /\ protected \in BOOLEAN
    BY DEF Init
  <2>2. stream.hlen = 0 /\ stream.size = 0 /\ BodyCap \in Nat /\ MaxConns \in Nat
    BY <2>1, CapsAssumption, MaxConnsAssumption DEF NoStream
  <2>3. /\ arrived \in 0 .. stream.hlen + stream.size /\ taken \in 0 .. arrived /\ have \in 0 .. BodyCap
        /\ conn \in 0 .. MaxConns
    BY <2>1, <2>2
  <2>4. TypeOK
    BY <2>1, <2>2, <2>3 DEF TypeOK
  <2>5. Parsing /\ Reads /\ Refusals
    BY <2>1 DEF Parsing, Fresh, Reads, Whole, Refusals
  <2>6. Handling
    BY <2>1 DEF Handling, Writers
  <2>7. QED
    BY <2>4, <2>5, <2>6 DEF Inv
<1>2. Inv /\ [Next]_vars => Inv'
  <2> SUFFICES ASSUME Inv, [Next]_vars PROVE Inv'
    OBVIOUS
  <2>1. TypeOK /\ Parsing /\ Reads /\ Handling /\ Refusals /\ protected \in BOOLEAN
    BY DEF Inv, TypeOK
  <2>2. Parsing' /\ TypeOK' /\ Reads'
    BY <2>1, ParsingStep, ReadsStep
  <2>3. Handling' /\ Refusals'
    BY <2>1, HandlingStep, RefusalsStep
  <2>4. QED
    BY <2>2, <2>3 DEF Inv
<1>3. QED
  BY <1>1, <1>2, PTL DEF Spec

-----------------------------------------------------------------------------
(* Theorems *)

\* The counters of http_read_request stay within its buffers, and the header
\* buffer keeps room for the NUL.
THEOREM TypeCorrect == Spec => []TypeOK
<1>1. Inv => TypeOK
  BY DEF Inv
<1>2. QED
  BY <1>1, InvHolds, PTL

\* A request handed on has exactly its own announced bytes as its body, whatever
\* earlier requests left in the thread-local buffer.
THEOREM OwnBodyHolds == Spec => []OwnBody
<1>1. Inv => OwnBody
  <2> SUFFICES ASSUME Inv, pc \in {"dispatch", "handle"}
               PROVE  have = Announced(stream) /\ \A i \in 1 .. have : body_buf[i] = <<conn, stream.hlen + i>>
    BY DEF OwnBody
  <2>1. Need(req) = Announced(stream)
    BY WholeIsOK DEF Inv, Whole
  <2>2. QED
    BY <2>1 DEF Inv, Reads
<1>2. QED
  BY <1>1, InvHolds, PTL

\* The result of reading a request does not depend on how its bytes are split
\* over calls of recv.
THEOREM SplitIndependentHolds == Spec => []SplitIndependent
<1>1. Inv => SplitIndependent
  <2> SUFFICES ASSUME Inv, pc \in {"dispatch", "handle", "done"}
               PROVE  \/ result = ReadResult(stream)
                      \/ /\ result = "BAD_REQUEST"
                         /\ link = "reset" \/ arrived < stream.hlen + Announced(stream)
    BY DEF SplitIndependent
  <2>1. CASE Whole
    <3>1. result = "OK"
      BY <2>1 DEF Inv, Reads, Whole
    <3>2. ReadResult(stream) = "OK"
      BY <2>1, WholeIsOK DEF Inv
    <3>3. QED
      BY <3>1, <3>2
  <2>2. CASE ~Whole
    BY <2>2 DEF Inv, Refusals, Whole
  <2>3. QED
    BY <2>1, <2>2
<1>2. QED
  BY <1>1, InvHolds, PTL

\* A protected server changes its store only for the last X-API-Key of a request.
THEOREM WriteNeedsKeyHolds == Spec => []WriteNeedsKey
<1>1. Inv => WriteNeedsKey
  <2> SUFFICES ASSUME Inv, wrote, protected PROVE LastValue(stream, "x-api-key", "none") = "right"
    BY DEF WriteNeedsKey
  <2>1. wrote = TRUE /\ protected = TRUE
    BY DEF Inv, TypeOK
  <2>2. Whole /\ req.key = "right"
    BY <2>1 DEF Inv, Handling
  <2>3. Parsed /\ line > Len(stream.lines)
    BY <2>2 DEF Inv, Parsing, Reads, Whole
  <2>4. stream \in Streams /\ line \in Nat /\ LastIs("x-api-key", "none", req.key)
    BY <2>3, LinesAreFields DEF Parsed
  <2>5. QED
    BY <2>2, <2>3, <2>4, LastValueIs
<1>2. QED
  BY <1>1, InvHolds, PTL

\* A client that sends no more than it announced has been read to its last byte
\* when a readable request is answered.
THEOREM NothingLeftUnreadHolds == Spec => []NothingLeftUnread
<1>1. Inv => NothingLeftUnread
  <2> SUFFICES ASSUME Inv, pc = "done", result = "OK", stream.size =< Announced(stream)
               PROVE  taken = stream.hlen + stream.size
    BY DEF NothingLeftUnread
  <2>1. Whole /\ Parsed
    BY DEF Whole, Inv, Parsing
  <2>2. Need(req) = Announced(stream) /\ Need(req) \in Nat
    BY <2>1, WholeIsOK, NeedFits, CapsAssumption DEF Inv
  <2>3. stream.hlen \in Nat /\ stream.size \in Nat
    BY <2>1, LinesAreFields DEF Parsed
  <2>4. stream.hlen + Need(req) =< taken
    BY <2>1 DEF Inv, Reads
  <2>5. arrived \in 0 .. stream.hlen + stream.size /\ taken \in 0 .. arrived
    BY DEF Inv, TypeOK
  <2>6. taken \in Nat /\ taken =< stream.hlen + stream.size
    BY <2>3, <2>5
  <2>7. stream.size =< Need(req)
    BY <2>2
  <2>8. QED
    BY <2>2, <2>3, <2>4, <2>6, <2>7
<1>2. QED
  BY <1>1, InvHolds, PTL
=============================================================================
