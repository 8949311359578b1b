----------------------------- MODULE AtomicApi ------------------------------
(***************************************************************************)
(* What a client may expect of the key-value and notes API: each request   *)
(* takes effect at one moment between its arrival and its answer, and the  *)
(* answer says what happened at that moment.  A request may also fail in   *)
(* the store without effect, and an answer may be lost or be replaced by a *)
(* 500 after the effect; a list may be too large to be answered.           *)
(***************************************************************************)
EXTENDS Naturals, FiniteSets

CONSTANTS Workers, Keys, Ids, Absent, Requests

VARIABLES kv, notes, lastId, phase, req, res, resp

vars == <<kv, notes, lastId, phase, req, res, resp>>

Answer(s, d) == [status |-> s, data |-> d]
NotFound == Answer(404, Absent)
Internal == Answer(500, Absent)
TooLarge == Answer(413, Absent)
Lost == Answer(0, Absent)
NoAnswer == Answer(1, Absent)

Rows(table) == {<<x, table[x]>> : x \in {y \in DOMAIN table : table[y] # Absent}}

Init ==
    /\ kv = [k \in Keys |-> Absent] /\ notes = [i \in Ids |-> Absent] /\ lastId = 0
    /\ phase = [w \in Workers |-> "idle"]
    /\ req = [w \in Workers |-> [op |-> "none"]]
    /\ res = [w \in Workers |-> NoAnswer] /\ resp = [w \in Workers |-> NoAnswer]

Invoke(w, r) ==
    /\ phase[w] = "idle"
    /\ phase' = [phase EXCEPT ![w] = "called"] /\ req' = [req EXCEPT ![w] = r]
    /\ UNCHANGED <<kv, notes, lastId, res, resp>>

Done(w, a) ==
    /\ phase' = [phase EXCEPT ![w] = "done"] /\ res' = [res EXCEPT ![w] = a]
    /\ UNCHANGED <<req, resp>>

Fail(w) ==
    /\ phase[w] = "called" /\ Done(w, Internal)
    /\ UNCHANGED <<kv, notes, lastId>>

KvPut(w) ==
    /\ req[w].op = "kv_put" /\ Done(w, Answer(200, req[w].text))
    /\ kv' = [kv EXCEPT ![req[w].key] = req[w].text] /\ UNCHANGED <<notes, lastId>>

KvGet(w) ==
    /\ req[w].op = "kv_get"
    /\ LET v == kv[req[w].key] IN Done(w, IF v = Absent THEN NotFound ELSE Answer(200, v))
    /\ UNCHANGED <<kv, notes, lastId>>

KvDel(w) ==
    /\ req[w].op = "kv_del"
    /\ Done(w, IF kv[req[w].key] = Absent THEN NotFound ELSE Answer(204, Absent))
    /\ kv' = [kv EXCEPT ![req[w].key] = Absent] /\ UNCHANGED <<notes, lastId>>

KvList(w) ==
    /\ req[w].op = "kv_list" /\ Done(w, Answer(200, Rows(kv)))
    /\ UNCHANGED <<kv, notes, lastId>>

NoteCreate(w) ==
    /\ req[w].op = "note_create" /\ Done(w, Answer(201, <<lastId + 1, req[w].text>>))
    /\ lastId' = lastId + 1 /\ notes' = [notes EXCEPT ![lastId + 1] = req[w].text]
    /\ UNCHANGED kv

NoteGet(w) ==
    /\ req[w].op = "note_get"
    /\ LET i == req[w].id
       IN  Done(w, IF notes[i] = Absent THEN NotFound ELSE Answer(200, <<i, notes[i]>>))
    /\ UNCHANGED <<kv, notes, lastId>>

NoteUpdate(w) ==
    /\ req[w].op = "note_update"
    /\ LET i == req[w].id
       IN  IF notes[i] = Absent
           THEN Done(w, NotFound) /\ UNCHANGED notes
           ELSE Done(w, Answer(200, <<i, req[w].text>>))
                /\ notes' = [notes EXCEPT ![i] = req[w].text]
    /\ UNCHANGED <<kv, lastId>>

NoteDel(w) ==
    /\ req[w].op = "note_del"
    /\ Done(w, IF notes[req[w].id] = Absent THEN NotFound ELSE Answer(204, Absent))
    /\ notes' = [notes EXCEPT ![req[w].id] = Absent] /\ UNCHANGED <<kv, lastId>>

NoteList(w) ==
    /\ req[w].op = "note_list"
    /\ Done(w, Answer(200, <<Rows(notes), Cardinality(Rows(notes))>>))
    /\ UNCHANGED <<kv, notes, lastId>>

Metrics(w) ==
    /\ req[w].op = "metrics"
    /\ Done(w, Answer(200, <<Cardinality(Rows(kv)), Cardinality(Rows(notes))>>))
    /\ UNCHANGED <<kv, notes, lastId>>

Do(w) ==
    /\ phase[w] = "called"
    /\ \/ KvPut(w) \/ KvGet(w) \/ KvDel(w) \/ KvList(w) \/ Metrics(w)
       \/ NoteCreate(w) \/ NoteGet(w) \/ NoteUpdate(w) \/ NoteDel(w) \/ NoteList(w)

Reply(w) ==
    /\ phase[w] = "done" /\ phase' = [phase EXCEPT ![w] = "idle"]
    /\ \/ \E a \in {res[w], Internal, Lost} : resp' = [resp EXCEPT ![w] = a]
       \/ /\ req[w].op \in {"kv_list", "note_list"}
          /\ resp' = [resp EXCEPT ![w] = TooLarge]
    /\ UNCHANGED <<kv, notes, lastId, req, res>>

Next == \E w \in Workers : (\E r \in Requests : Invoke(w, r)) \/ Do(w) \/ Fail(w) \/ Reply(w)

Spec == Init /\ [][Next]_vars
=============================================================================
