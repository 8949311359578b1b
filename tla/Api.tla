-------------------------------- MODULE Api ---------------------------------
(***************************************************************************)
(* The handlers of api.c on the store of store_sqlite.c, run by several    *)
(* worker threads.  A store function holds the store's mutex from its      *)
(* first statement to its last.  The handlers of lists and of single notes *)
(* have the store render into a static buffer, and read that buffer after  *)
(* the store has released the mutex.                                       *)
(*                                                                         *)
(* A request that validation refuses never reaches the store; the model    *)
(* starts at the first store call.  A text is a value, a title or a body;  *)
(* the ones in Unprintable hold a control character that json_get_string   *)
(* accepts and json_escape refuses.                                        *)
(***************************************************************************)
EXTENDS Integers, FiniteSets

CONSTANTS
    Workers,        \* threads that run handlers
    Nobody,         \* the store's mutex is free
    Keys, Texts,
    Unprintable,    \* texts the JSON encoder refuses
    Absent,         \* no row, no data
    Torn,           \* a buffer while it is written, or a mix of two contents
    BufferRows,     \* rows whose rendering fits the buffer of a list
    Ops,            \* the operations clients use
    MaxRequests,    \* bound: requests
    Fallible,       \* the calls that may fail
    MaxFaults       \* bound: failing calls

ASSUME TextsAssumption == Unprintable \subseteq Texts /\ Absent \notin Texts /\ Torn \notin Texts
ASSUME KeysAssumption == IsFiniteSet(Keys)
ASSUME WorkersAssumption == IsFiniteSet(Workers) /\ Nobody \notin Workers
ASSUME BoundsAssumption == MaxRequests \in Nat /\ MaxFaults \in Nat /\ BufferRows \in Nat

\* What can fail: a prepare or step whose result is looked at, the step of a
\* COUNT, the bind of a text, and the sending of an answer.
ASSUME FallibleAssumption == Fallible \subseteq {"statement", "count", "bind", "send"}

VARIABLES
    kv, notes, lastId,      \* the tables, and the AUTOINCREMENT sequence
    keyless,                \* how many rows of kv have NULL for their key
    mutex,                  \* store->mutex
    buf,                    \* the static buffers of api.c
    pc, req, id,            \* per worker: control, request, id of the note it works on
    res,                    \* per worker: what the store call determined
    size,                   \* per worker: the buffer as strlen or snprintf saw it
    failed,                 \* per worker: which sqlite call of this request failed
    resp,                   \* per worker: the last answer the client got
    requests, faults        \* the bounds

tables == <<kv, notes, lastId, keyless>>
bounds == <<requests, faults>>
vars == <<tables, mutex, buf, pc, req, id, res, size, failed, resp, bounds>>

Ids == 1 .. MaxRequests

Requests == {r \in
    [op : {"kv_put"}, key : Keys, text : Texts] \cup [op : {"kv_get", "kv_del"}, key : Keys]
    \cup [op : {"note_create"}, text : Texts] \cup [op : {"note_update"}, id : Ids, text : Texts]
    \cup [op : {"note_get", "note_del"}, id : Ids]
    \cup [op : {"kv_list", "note_list", "metrics"}] : r.op \in Ops}

Answer(s, d) == [status |-> s, data |-> d]
NotFound == Answer(404, Absent)
Internal == Answer(500, Absent)
TooLarge == Answer(413, Absent)
Lost == Answer(0, Absent)           \* the send failed: the client saw no answer
NoAnswer == Answer(1, Absent)       \* nothing has been answered yet

Buffers == {"items", "created_json", "list_body", "note_body"}

\* The static buffer a handler has the store render into.
BufferOf(r) ==
    CASE r.op = "kv_list" -> "items"
      [] r.op = "note_create" -> "created_json"
      [] r.op = "note_list" -> "list_body"
      [] r.op \in {"note_get", "note_update"} -> "note_body"

Rows(table) == {<<x, table[x]>> : x \in {y \in DOMAIN table : table[y] # Absent}}

Init ==
    /\ kv = [k \in Keys |-> Absent] /\ notes = [i \in Ids |-> Absent] /\ lastId = 0 /\ keyless = 0
    /\ mutex = Nobody /\ buf = [b \in Buffers |-> Torn]
    /\ pc = [w \in Workers |-> "idle"] /\ req = [w \in Workers |-> [op |-> "none"]]
    /\ id = [w \in Workers |-> 0] /\ res = [w \in Workers |-> NoAnswer]
    /\ size = [w \in Workers |-> Torn] /\ failed = [w \in Workers |-> "none"]
    /\ resp = [w \in Workers |-> NoAnswer]
    /\ requests = 0 /\ faults = 0

-----------------------------------------------------------------------------
(* Control *)

Goto(w, c) == pc' = [pc EXCEPT ![w] = c]

Op(w, op) == pc[w] = "stmt" /\ mutex = w /\ req[w].op = op

Unlock == mutex' = Nobody

Determine(w, a) == res' = [res EXCEPT ![w] = a]

\* The store call is over and its answer goes to c.
Return(w, a, c) == Determine(w, a) /\ Unlock /\ Goto(w, c) /\ UNCHANGED buf

Finish(w, a, c) == Return(w, a, c) /\ UNCHANGED <<req, id, size, failed, resp, bounds>>

MayFail(call) == call \in Fallible /\ faults < MaxFaults /\ faults' = faults + 1

Fails(w, call) == MayFail(call) /\ failed' = [failed EXCEPT ![w] = call]

Begin(w, r) ==
    /\ pc[w] = "idle" /\ requests < MaxRequests
    /\ requests' = requests + 1 /\ req' = [req EXCEPT ![w] = r]
    /\ id' = [id EXCEPT ![w] = IF r.op \in {"note_get", "note_update", "note_del"} THEN r.id ELSE 0]
    /\ failed' = [failed EXCEPT ![w] = "none"] /\ Goto(w, "lock")
    /\ UNCHANGED <<tables, mutex, buf, res, size, resp, faults>>

\* Mutant of StoreLock: last_insert_rowid is read after the lock was released.
StoreLockReadsRowid(w) ==
    /\ mutex = Nobody /\ mutex' = w
    /\ \/ pc[w] = "lock" /\ Goto(w, "stmt") /\ UNCHANGED id
       \/ pc[w] = "relock" /\ Goto(w, "reread") /\ id' = [id EXCEPT ![w] = lastId]
    /\ UNCHANGED <<tables, buf, req, res, size, failed, resp, bounds>>

StoreLock(w) ==
    /\ mutex = Nobody /\ mutex' = w
    /\ \/ pc[w] = "lock" /\ Goto(w, "stmt")
       \/ pc[w] = "relock" /\ Goto(w, "reread")
    /\ UNCHANGED <<tables, buf, req, id, res, size, failed, resp, bounds>>

\* Mutants of StatementFails: the early return keeps the mutex; rc is ignored.
StatementFailsLocked(w) ==
    /\ pc[w] \in {"stmt", "reread"} /\ mutex = w /\ Fails(w, "statement")
    /\ IF pc[w] = "stmt" THEN Determine(w, Internal) ELSE UNCHANGED res
    /\ Goto(w, "error")
    /\ UNCHANGED <<tables, mutex, buf, req, id, size, resp, requests>>
StatementFailsUnnoticed(w) ==
    /\ pc[w] = "stmt" /\ mutex = w /\ Fails(w, "statement")
    /\ Return(w, Answer(204, Absent), "send")
    /\ UNCHANGED <<tables, req, id, size, resp, requests>>

\* prepare or step fails: the statement has no effect and the call returns
\* API_ERR_INTERNAL.  (See CountFails for the step of a COUNT.)
StatementFails(w) ==
    /\ pc[w] \in {"stmt", "reread"} /\ mutex = w /\ Fails(w, "statement")
    /\ IF pc[w] = "stmt" THEN Determine(w, Internal) ELSE UNCHANGED res
    /\ Unlock /\ Goto(w, "error")
    /\ UNCHANGED <<tables, buf, req, id, size, resp, requests>>

-----------------------------------------------------------------------------
(* Key-value operations *)

KvPut(w) ==
    /\ Op(w, "kv_put")
    /\ kv' = [kv EXCEPT ![req[w].key] = req[w].text]
    /\ Finish(w, Answer(200, req[w].text), "encode")
    /\ UNCHANGED <<notes, lastId, keyless>>

KvGet(w) ==
    /\ Op(w, "kv_get")
    /\ LET v == kv[req[w].key]
       IN  IF v = Absent THEN Finish(w, NotFound, "send") ELSE Finish(w, Answer(200, v), "encode")
    /\ UNCHANGED tables

\* Mutant of KvDel: sqlite3_changes is not looked at.
KvDelUnchecked(w) ==
    /\ Op(w, "kv_del") /\ Finish(w, Answer(204, Absent), "send")
    /\ kv' = [kv EXCEPT ![req[w].key] = Absent] /\ UNCHANGED <<notes, lastId, keyless>>

KvDel(w) ==
    /\ Op(w, "kv_del")
    /\ Finish(w, IF kv[req[w].key] = Absent THEN NotFound ELSE Answer(204, Absent), "send")
    /\ kv' = [kv EXCEPT ![req[w].key] = Absent]
    /\ UNCHANGED <<notes, lastId, keyless>>

\* json_escape of the value, on the handler's stack: refuses control characters.
Encode(w) ==
    /\ pc[w] = "encode"
    /\ Goto(w, IF res[w].data \in Unprintable THEN "error" ELSE "send")
    /\ UNCHANGED <<tables, mutex, buf, req, id, res, size, failed, resp, bounds>>

-----------------------------------------------------------------------------
(* Notes *)

\* INSERT and last_insert_rowid under one lock; then the handler re-reads it.
NoteCreate(w) ==
    /\ Op(w, "note_create")
    /\ lastId' = lastId + 1
    /\ notes' = [notes EXCEPT ![lastId + 1] = req[w].text]
    /\ id' = [id EXCEPT ![w] = lastId + 1]
    /\ Determine(w, Answer(201, <<lastId + 1, req[w].text>>))
    /\ Unlock /\ Goto(w, "relock")
    /\ UNCHANGED <<kv, keyless, buf, req, size, failed, resp, bounds>>

\* Mutant of NoteUpdate: sqlite3_changes is not looked at.
NoteUpdateUnchecked(w) ==
    /\ Op(w, "note_update")
    /\ notes' = [notes EXCEPT ![id[w]] = IF @ = Absent THEN Absent ELSE req[w].text]
    /\ Finish(w, Answer(200, <<id[w], req[w].text>>), "relock") /\ UNCHANGED <<kv, lastId, keyless>>

\* UPDATE, then handle_note_get for the answer.
NoteUpdate(w) ==
    /\ Op(w, "note_update")
    /\ IF notes[id[w]] = Absent
       THEN Finish(w, NotFound, "send") /\ UNCHANGED notes
       ELSE /\ notes' = [notes EXCEPT ![id[w]] = req[w].text]
            /\ Finish(w, Answer(200, <<id[w], req[w].text>>), "relock")
    /\ UNCHANGED <<kv, lastId, keyless>>

\* Mutant of NoteDel: the sequence gives the id back.
NoteDelReleasesId(w) ==
    /\ Op(w, "note_del")
    /\ Finish(w, IF notes[id[w]] = Absent THEN NotFound ELSE Answer(204, Absent), "send")
    /\ notes' = [notes EXCEPT ![id[w]] = Absent] /\ lastId' = lastId - 1 /\ UNCHANGED <<kv, keyless>>

NoteDel(w) ==
    /\ Op(w, "note_del")
    /\ Finish(w, IF notes[id[w]] = Absent THEN NotFound ELSE Answer(204, Absent), "send")
    /\ notes' = [notes EXCEPT ![id[w]] = Absent]
    /\ UNCHANGED <<kv, lastId, keyless>>

-----------------------------------------------------------------------------
(* Reads that go through a static buffer *)

\* store_note_get: the row is rendered into the buffer, unless it is missing or
\* cannot be encoded.
NoteRead(w) ==
    /\ Op(w, "note_get") \/ (pc[w] = "reread" /\ mutex = w)
    /\ LET row == notes[id[w]]
           first == pc[w] = "stmt"
       IN  /\ IF first
              THEN Determine(w, IF row = Absent THEN NotFound ELSE Answer(200, <<id[w], row>>))
              ELSE UNCHANGED res
           /\ IF row = Absent \/ row \in Unprintable
              THEN /\ Unlock /\ UNCHANGED buf
                   /\ Goto(w, IF row = Absent THEN "missing" ELSE "error")
              ELSE /\ buf' = [buf EXCEPT ![BufferOf(req[w])] = Torn]
                   /\ Goto(w, "fill") /\ UNCHANGED mutex
    /\ UNCHANGED <<tables, req, id, size, failed, resp, bounds>>

KvList(w) ==
    /\ Op(w, "kv_list")
    /\ Determine(w, Answer(200, Rows(kv)))
    /\ buf' = [buf EXCEPT !["items"] = Torn] /\ Goto(w, "fill")
    /\ UNCHANGED <<tables, mutex, req, id, size, failed, resp, bounds>>

NoteList(w) ==
    /\ Op(w, "note_list")
    /\ Determine(w, Answer(200, <<Rows(notes), Cardinality(Rows(notes))>>))
    /\ buf' = [buf EXCEPT !["list_body"] = Torn] /\ Goto(w, "fill")
    /\ UNCHANGED <<tables, mutex, req, id, size, failed, resp, bounds>>

\* SELECT COUNT(*) counts the rows without a key as well.
KvCount == Cardinality(Rows(kv)) + keyless
NoteCount == Cardinality(Rows(notes))

Metrics(w) ==
    /\ Op(w, "metrics")
    /\ Finish(w, Answer(200, <<KvCount, NoteCount>>), "send")
    /\ UNCHANGED tables

-----------------------------------------------------------------------------
(* Failures whose result the store does not look at *)

\* The step of a SELECT COUNT(*) fails: the count stays 0 and the call goes on.
CountFails(w) ==
    /\ Op(w, "metrics") \/ Op(w, "note_list")
    /\ Fails(w, "count")
    /\ \/ /\ req[w].op = "metrics"
          /\ \E counts \in {<<0, NoteCount>>, <<KvCount, 0>>} : Return(w, Answer(200, counts), "send")
       \/ /\ req[w].op = "note_list" /\ Determine(w, Answer(200, <<Rows(notes), 0>>))
          /\ buf' = [buf EXCEPT !["list_body"] = Torn] /\ Goto(w, "fill") /\ UNCHANGED mutex
    /\ UNCHANGED <<tables, req, id, size, resp, requests>>

\* sqlite3_bind_text fails: the parameter stays NULL and the statement runs with
\* it.  A PUT then inserts a row that no key finds, a text that is NULL is refused
\* by its column, and nothing equals NULL or is like it.
BindFails(w) ==
    /\ pc[w] = "stmt" /\ mutex = w /\ Fails(w, "bind")
    /\ \/ /\ req[w].op = "kv_put" /\ keyless' = keyless + 1
          /\ Return(w, Answer(200, req[w].text), "encode")
       \/ /\ \/ req[w].op \in {"kv_put", "note_create"}
             \/ req[w].op = "note_update" /\ notes[id[w]] # Absent
          /\ Return(w, Internal, "error") /\ UNCHANGED keyless
       \/ /\ \/ req[w].op \in {"kv_get", "kv_del"}
             \/ req[w].op = "note_update" /\ notes[id[w]] = Absent
          /\ Return(w, NotFound, "send") /\ UNCHANGED keyless
       \/ /\ req[w].op = "kv_list" /\ Determine(w, Answer(200, {}))
          /\ buf' = [buf EXCEPT !["items"] = Torn] /\ Goto(w, "fill") /\ UNCHANGED <<mutex, keyless>>
    /\ UNCHANGED <<kv, notes, lastId, req, id, size, resp, requests>>

-----------------------------------------------------------------------------
(* Rendering *)

\* What the store renders: the row as it is now, or the rows read.
Rendered(w) == IF pc[w] = "fill" /\ req[w].op \in {"note_create", "note_update"}
               THEN <<id[w], notes[id[w]]>> ELSE res[w].data

\* The listed rows.
Listed(w) == CASE req[w].op = "kv_list" -> res[w].data
               [] req[w].op = "note_list" -> res[w].data[1]
               [] OTHER -> {}

\* A list stops with an error, and leaves the buffer half written, at a row
\* that cannot be encoded or does not fit.
FillDone(w) ==
    /\ pc[w] = "fill" /\ mutex = w
    /\ \/ /\ \E row \in Listed(w) : row[2] \in Unprintable
          /\ Goto(w, "error") /\ UNCHANGED buf
       \/ /\ Cardinality(Listed(w)) > BufferRows
          /\ Goto(w, "toolarge") /\ UNCHANGED buf
       \/ /\ Cardinality(Listed(w)) =< BufferRows
          /\ \A row \in Listed(w) : row[2] \notin Unprintable
          /\ Goto(w, "measure") /\ buf' = [buf EXCEPT ![BufferOf(req[w])] = Rendered(w)]
    /\ Unlock
    /\ UNCHANGED <<tables, req, id, res, size, failed, resp, bounds>>

\* A list that fails on a later row leaves the buffer half written.
FillFails(w) ==
    /\ pc[w] = "fill" /\ mutex = w /\ req[w].op \in {"kv_list", "note_list"}
    /\ Fails(w, "statement")
    /\ Unlock /\ Goto(w, "error")
    /\ UNCHANGED <<tables, buf, req, id, res, size, resp, requests>>

\* strlen of the buffer (kv_list: snprintf into the stack, which overflows when
\* the items come within a few bytes of filling their buffer), no lock held.
Measure(w) ==
    /\ pc[w] = "measure"
    /\ size' = [size EXCEPT ![w] = buf[BufferOf(req[w])]]
    /\ \/ Goto(w, "sendbuf")
       \/ req[w].op = "kv_list" /\ buf["items"] # {} /\ Goto(w, "error")
    /\ UNCHANGED <<tables, mutex, buf, req, id, res, failed, resp, bounds>>

-----------------------------------------------------------------------------
(* The answer *)

\* What is sent: the stack buffer, the error, or what the static buffer holds
\* by now under the Content-Length measured before.
Sent(w) ==
    CASE pc[w] = "send" -> res[w]
      [] pc[w] = "error" -> Internal
      [] pc[w] = "missing" -> NotFound
      [] pc[w] = "toolarge" -> TooLarge
      [] pc[w] = "sendbuf" ->
            Answer(IF req[w].op = "note_create" THEN 201 ELSE 200,
                   IF req[w].op = "kv_list" \/ size[w] = buf[BufferOf(req[w])] THEN size[w] ELSE Torn)

Send(w) ==
    /\ pc[w] \in {"send", "error", "missing", "toolarge", "sendbuf"}
    /\ resp' = [resp EXCEPT ![w] = Sent(w)] /\ Goto(w, "idle")
    /\ UNCHANGED <<tables, mutex, buf, req, id, res, size, failed, bounds>>

\* server_send_all fails: the client is gone or its window stays full too long.
SendFails(w) ==
    /\ pc[w] \in {"send", "error", "missing", "toolarge", "sendbuf"}
    /\ MayFail("send")
    /\ resp' = [resp EXCEPT ![w] = Lost] /\ Goto(w, "idle")
    /\ UNCHANGED <<tables, mutex, buf, req, id, res, size, failed, requests>>

Step(w) ==
    \/ StoreLock(w)
    \/ KvPut(w) \/ KvGet(w) \/ KvDel(w) \/ KvList(w) \/ Encode(w)
    \/ NoteCreate(w) \/ NoteUpdate(w) \/ NoteDel(w) \/ NoteRead(w) \/ NoteList(w) \/ Metrics(w)
    \/ FillDone(w) \/ Measure(w) \/ Send(w)

Failure(w) == StatementFails(w) \/ CountFails(w) \/ BindFails(w) \/ FillFails(w) \/ SendFails(w)

Finished ==
    /\ requests = MaxRequests /\ \A w \in Workers : pc[w] = "idle"
    /\ UNCHANGED vars

Next ==
    \/ \E w \in Workers : (\E r \in Requests : Begin(w, r)) \/ Step(w) \/ Failure(w)
    \/ Finished

Spec == Init /\ [][Next]_vars

\* A worker that can run does run; a store call ends, for sqlite waits at most
\* its busy timeout.  Failures may happen or not.
FairSpec == Spec /\ \A w \in Workers : WF_vars(Step(w))

-----------------------------------------------------------------------------
(* Properties *)

PCs == {"idle", "lock", "stmt", "relock", "reread", "fill", "encode", "measure", "send", "error",
        "missing", "toolarge", "sendbuf"}

\* Rows hold texts, and control stays on its points.
TypeOK ==
    /\ kv \in [Keys -> Texts \cup {Absent}] /\ notes \in [Ids -> Texts \cup {Absent}]
    /\ lastId \in 0 .. MaxRequests /\ mutex \in Workers \cup {Nobody}
    /\ pc \in [Workers -> PCs] /\ id \in [Workers -> 0 .. MaxRequests]
    /\ failed \in [Workers -> {"none", "statement", "count", "bind"}] /\ keyless \in 0 .. MaxFaults
    /\ requests \in 0 .. MaxRequests /\ faults \in 0 .. MaxFaults

\* The id that store_note_create hands to a handler is the id of the row this
\* very request inserted: no two creations that are under way share one, and
\* none has an id that the sequence has not given out.
CreatedIdsDistinct ==
    \A v, w \in Workers :
        LET made == {u \in {v, w} : req[u].op = "note_create" /\ id[u] # 0}
        IN  /\ v # w /\ made = {v, w} => id[v] # id[w]
            /\ \A u \in made : id[u] =< lastId

\* Every request that a worker takes up is answered, or its answer is lost; no
\* error path of the store keeps the mutex.
EveryRequestAnswered == \A w \in Workers : pc[w] = "lock" ~> pc[w] = "idle"

\* The abstract phase of a request: its store effect is over or still to come.
Phase(w) == CASE pc[w] = "idle" -> "idle"
              [] pc[w] \in {"lock", "stmt"} -> "called"
              [] OTHER -> "done"

Atomic == INSTANCE AtomicApi WITH phase <- [w \in Workers |-> Phase(w)]

\* Each request takes effect at one moment, and its answer reports that moment,
\* a 500 or nothing.
Linearizable == Atomic!Spec

\* api.h: api_dispatch is thread-safe, "per-connection state only": when a 200
\* answer to GET /api/notes/:id arrives whole, it is the note that was asked for.
OwnNote ==
    \A w \in Workers : /\ pc[w] = "idle" /\ req[w].op = "note_get"
                       /\ resp[w].status = 200 /\ resp[w].data # Torn
                       => resp[w].data[1] = req[w].id

\* What a failed sqlite call can do behind an answer that is no 500.  A failed
\* prepare or step never does.  A COUNT that failed is answered as 0 by GET
\* /metrics and in the total of GET /api/notes.  A bind that failed makes a key or
\* note seem missing, a list of keys seem empty, or a PUT seem done that left a
\* row without a key.
SilentOnlyWhereUnchecked ==
    \A w \in Workers : pc[w] \in {"send", "missing", "toolarge", "sendbuf"} =>
        \/ failed[w] = "none"
        \/ failed[w] = "count" /\ req[w].op \in {"metrics", "note_list"}
        \/ /\ failed[w] = "bind"
           /\ \/ res[w] = NotFound
              \/ req[w].op = "kv_list" /\ res[w].data = {}
              \/ req[w].op = "kv_put" /\ keyless > 0

\* store.h: "Every sqlite rc is checked; failures return API_ERR_INTERNAL
\* explicitly, never silent success": a request one of whose sqlite calls failed
\* is not answered with success.
NeverSilentSuccess ==
    \A w \in Workers : pc[w] \in {"send", "sendbuf"} /\ failed[w] # "none" => Sent(w).status >= 400

\* handle_note_create and handle_note_update write under one lock and read back
\* under another.  When the row is missing by then, and the client is told 404
\* about a note it has just written, another request has deleted it for good.
MissingIsDeleted ==
    \A w \in Workers : pc[w] = "missing" /\ req[w].op \in {"note_create", "note_update"}
                       => id[w] \in 1 .. lastId /\ notes[id[w]] = Absent
=============================================================================
