----------------------------- MODULE ApiProofs ------------------------------
(***************************************************************************)
(* Proofs about the handlers of api.c on the store, for any number of      *)
(* workers, any keys and texts, any mix of operations and any number of    *)
(* requests and failures.                                                  *)
(***************************************************************************)
EXTENDS Api, FiniteSetTheorems, TLAPS

\* Each worker that is not idle works on a request, and on the note it names.
Asked ==
    /\ DOMAIN req = Workers
    /\ \A w \in Workers : pc[w] # "idle" =>
          /\ req[w] \in Requests
          /\ req[w].op \in {"note_get", "note_update", "note_del"} => id[w] = req[w].id

\* Requests whose statement is still to come; each may need one more id, and each
\* row without a key is there because a bind failed.
Coming == {w \in Workers : pc[w] \in {"lock", "stmt"}}
Room == lastId + Cardinality(Coming) =< requests /\ keyless =< faults

\* The fields of the requests, by operation.
LEMMA RequestFields ==
    ASSUME NEW r \in Requests
    PROVE  /\ r.op \in Ops
           /\ r.op \in {"kv_put", "kv_get", "kv_del", "kv_list", "note_create", "note_update",
                        "note_get", "note_del", "note_list", "metrics"}
           /\ r.op \in {"kv_put", "kv_get", "kv_del"} => r.key \in Keys
           /\ r.op \in {"kv_put", "note_create", "note_update"} => r.text \in Texts
           /\ r.op \in {"note_get", "note_update", "note_del"} => r.id \in Ids
BY DEF Requests

\* The statement of a request: the first step that holds the store's mutex.
Statement(w) ==
    \/ KvPut(w) \/ KvGet(w) \/ KvDel(w) \/ KvList(w) \/ NoteCreate(w) \/ NoteUpdate(w) \/ NoteDel(w)
    \/ NoteList(w) \/ Metrics(w) \/ CountFails(w) \/ BindFails(w)

\* The control points a statement leads to.
AfterStatement == {"encode", "send", "relock", "fill", "error"}

\* A statement ends the wait for the store, and touches nothing of another worker.
LEMMA StatementControl ==
    ASSUME TypeOK, NEW w \in Workers, Statement(w)
    PROVE  /\ pc[w] = "stmt" /\ \E c \in AfterStatement : Goto(w, c)
           /\ UNCHANGED <<req, size, resp, requests>>
           /\ faults' \in 0 .. MaxFaults /\ mutex' \in {w, Nobody}
           /\ \/ UNCHANGED keyless /\ faults' \in {faults, faults + 1}
              \/ keyless' = keyless + 1 /\ faults' = faults + 1
           /\ \/ UNCHANGED failed
              \/ CountFails(w) /\ failed' = [failed EXCEPT ![w] = "count"]
              \/ BindFails(w) /\ failed' = [failed EXCEPT ![w] = "bind"]
<1> USE DEF Op, Finish, Return, Unlock, bounds, AfterStatement, tables
<1>1. CASE KvPut(w) \/ KvGet(w) \/ KvDel(w)
  BY <1>1 DEF KvPut, KvGet, KvDel, TypeOK
<1>2. CASE NoteCreate(w) \/ NoteUpdate(w) \/ NoteDel(w)
  BY <1>2 DEF NoteCreate, NoteUpdate, NoteDel, TypeOK
<1>3. CASE KvList(w) \/ NoteList(w) \/ Metrics(w)
  BY <1>3 DEF KvList, NoteList, Metrics, TypeOK
<1>4. CASE CountFails(w)
  BY <1>4, BoundsAssumption DEF CountFails, Fails, MayFail, TypeOK
<1>5. CASE BindFails(w)
  BY <1>5, BoundsAssumption DEF BindFails, Fails, MayFail, TypeOK
<1>6. QED
  BY <1>1, <1>2, <1>3, <1>4, <1>5 DEF Statement

\* What the statements do to the tables and to the worker's id.
LEMMA StatementTables ==
    ASSUME NEW w \in Workers, Statement(w)
    PROVE  \/ UNCHANGED <<kv, notes, lastId, id>> /\ (NoteUpdate(w) => notes[id[w]] = Absent)
           \/ KvPut(w) /\ UNCHANGED <<notes, lastId, id>>
           \/ KvDel(w) /\ UNCHANGED <<notes, lastId, id>>
           \/ NoteCreate(w) /\ UNCHANGED kv
           \/ NoteUpdate(w) /\ notes[id[w]] # Absent /\ UNCHANGED <<kv, lastId, id>>
           \/ NoteDel(w) /\ UNCHANGED <<kv, lastId, id>>
BY DEF Statement, KvPut, KvGet, KvDel, NoteCreate, NoteUpdate, NoteDel, KvList, NoteList, Metrics,
   CountFails, BindFails, Finish, tables, Op

\* The steps before and after the statement leave the tables and the ids alone.
Around(w) ==
    \/ StoreLock(w) \/ Encode(w) \/ NoteRead(w) \/ FillDone(w) \/ Measure(w) \/ Send(w)
    \/ StatementFails(w) \/ FillFails(w) \/ SendFails(w)

\* Where those steps lead: the wait for a lock ends in its statement, a failure in
\* an error, and an answer in the idle worker.
LEMMA AroundControl ==
    ASSUME TypeOK, NEW w \in Workers, Around(w)
    PROVE  /\ UNCHANGED <<tables, req, id, requests>>
           /\ faults' \in {faults, faults + 1} /\ faults' \in 0 .. MaxFaults
           /\ mutex' \in Workers \cup {Nobody} /\ pc[w] # "idle"
           /\ \E c \in PCs \ {"lock", "relock"} :
                /\ Goto(w, c)
                /\ c = "stmt" => pc[w] = "lock"
                /\ pc[w] = "lock" => c = "stmt"
                /\ c = "reread" => pc[w] = "relock"
                /\ pc[w] = "error" => c = "idle"
                /\ c = "missing" => notes[id[w]] = Absent /\ (pc[w] = "reread" \/ req[w].op = "note_get")
                /\ \/ UNCHANGED failed
                   \/ c = "error" /\ failed' = [failed EXCEPT ![w] = "statement"]
<1> USE DEF Unlock, bounds, PCs, Fails, MayFail
<1>1. CASE StoreLock(w) \/ Encode(w) \/ Measure(w)
  BY <1>1 DEF StoreLock, Encode, Measure, TypeOK
<1>2. CASE NoteRead(w)
  BY <1>2 DEF NoteRead, Op, TypeOK
<1>3. CASE FillDone(w)
  BY <1>3 DEF FillDone, TypeOK
<1>4. CASE Send(w) \/ SendFails(w)
  BY <1>4, BoundsAssumption DEF Send, SendFails, TypeOK
<1>5. CASE StatementFails(w) \/ FillFails(w)
  BY <1>5, BoundsAssumption DEF StatementFails, FillFails, TypeOK
<1>6. QED
  BY <1>1, <1>2, <1>3, <1>4, <1>5 DEF Around

\* Every step is one of these, or begins a request.
LEMMA StepKinds ==
    ASSUME [Next]_vars
    PROVE  \/ \E w \in Workers : (\E r \in Requests : Begin(w, r)) \/ Statement(w) \/ Around(w)
           \/ UNCHANGED vars
BY DEF Next, Step, Failure, Finished, Statement, Around

\* The workers whose statement is still to come are finitely many.
LEMMA ComingFinite == IsFiniteSet(Coming) /\ Cardinality(Coming) \in Nat
BY WorkersAssumption, FS_Subset, FS_CardinalityType DEF Coming

\* The step of the type invariant and of the room for ids.  An id is in range
\* because each request makes at most one, and only in its statement.
LEMMA TypeStep ==
    ASSUME TypeOK, Asked, Room, [Next]_vars
    PROVE  TypeOK' /\ Asked' /\ Room'
<1> DEFINE Goal == TypeOK' /\ Asked' /\ Room'
<1>1. ASSUME NEW w \in Workers, NEW r \in Requests, Begin(w, r) PROVE Goal
  <2>1. /\ pc[w] = "idle" /\ requests < MaxRequests /\ requests' = requests + 1
        /\ Goto(w, "lock") /\ UNCHANGED <<kv, notes, lastId, keyless, mutex, faults>>
        /\ req' = [req EXCEPT ![w] = r] /\ failed' = [failed EXCEPT ![w] = "none"]
        /\ id' = [id EXCEPT ![w] = IF r.op \in {"note_get", "note_update", "note_del"} THEN r.id ELSE 0]
    BY <1>1 DEF Begin, tables
  <2>2. (IF r.op \in {"note_get", "note_update", "note_del"} THEN r.id ELSE 0) \in 0 .. MaxRequests
    BY RequestFields, BoundsAssumption DEF Ids
  <2>3. TypeOK'
    BY <2>1, <2>2, BoundsAssumption DEF TypeOK, Goto, PCs
  <2>4. Coming' = Coming \cup {w} /\ w \notin Coming
    BY <2>1 DEF Coming, Goto, TypeOK
  <2>5. Cardinality(Coming') = Cardinality(Coming) + 1
    BY <2>4, ComingFinite, FS_AddElement
  <2>6. Room'
    BY <2>1, <2>5, ComingFinite, BoundsAssumption DEF Room, TypeOK
  <2>7. Asked'
    BY <2>1 DEF Asked, Goto, TypeOK
  <2>8. QED
    BY <2>3, <2>6, <2>7
<1>2. ASSUME NEW w \in Workers, Statement(w) PROVE Goal
  <2>1. PICK c \in AfterStatement : Goto(w, c)
    BY <1>2, StatementControl
  <2>2. /\ pc[w] = "stmt" /\ UNCHANGED <<req, requests>> /\ faults' \in 0 .. MaxFaults
        /\ mutex' \in Workers \cup {Nobody} /\ pc' \in [Workers -> PCs]
        /\ failed' \in [Workers -> {"none", "statement", "count", "bind"}]
        /\ keyless' \in 0 .. MaxFaults /\ keyless' =< faults'
    <3>1. /\ \/ UNCHANGED keyless /\ faults' \in {faults, faults + 1}
             \/ keyless' = keyless + 1 /\ faults' = faults + 1
          /\ faults' \in 0 .. MaxFaults
      BY <1>2, StatementControl
    <3>2. keyless' \in 0 .. MaxFaults /\ keyless' =< faults'
      BY <3>1, BoundsAssumption DEF TypeOK, Room
    <3>3. QED
      BY <1>2, <2>1, <3>2, StatementControl DEF TypeOK, Goto, AfterStatement, PCs
  <2>3. w \in Coming /\ Coming' = Coming \ {w}
    BY <2>1, <2>2 DEF Coming, Goto, AfterStatement, TypeOK
  <2>4. Cardinality(Coming') = Cardinality(Coming) - 1 /\ Cardinality(Coming') \in Nat
    BY <2>3, ComingFinite, FS_RemoveElement, FS_CardinalityType
  <2>5. /\ req[w] \in Requests
        /\ req[w].op \in {"note_get", "note_update", "note_del"} => id[w] = req[w].id
    BY <2>2 DEF Asked
  <2>6. CASE lastId' = lastId /\ id' = id
    <3>1. kv' \in [Keys -> Texts \cup {Absent}] /\ notes' \in [Ids -> Texts \cup {Absent}]
      BY <1>2, <2>5, <2>6, RequestFields, StatementTables
         DEF KvPut, KvDel, NoteCreate, NoteUpdate, NoteDel, Op, TypeOK
    <3>2. QED
      BY <2>1, <2>2, <2>4, <2>6, <3>1, ComingFinite, BoundsAssumption
         DEF TypeOK, Room, Asked, Goto
  <2>7. CASE NoteCreate(w)
    <3>1. /\ lastId' = lastId + 1 /\ notes' = [notes EXCEPT ![lastId + 1] = req[w].text]
          /\ id' = [id EXCEPT ![w] = lastId + 1] /\ UNCHANGED kv /\ req[w].op = "note_create"
      BY <2>7 DEF NoteCreate, Op
    <3>2. lastId + 1 \in Ids /\ lastId + 1 \in 0 .. MaxRequests /\ Room'
      BY <2>2, <2>4, <3>1, ComingFinite, BoundsAssumption DEF TypeOK, Room, Ids
    <3>3. req[w].text \in Texts
      BY <2>5, <3>1, RequestFields
    <3>4. TypeOK'
      BY <2>2, <3>1, <3>2, <3>3, BoundsAssumption DEF TypeOK
    <3>5. Asked'
      BY <2>1, <2>2, <2>5, <3>1 DEF Asked, Goto, TypeOK
    <3>6. QED
      BY <3>2, <3>4, <3>5
  <2>8. QED
    BY <1>2, <2>6, <2>7, StatementTables
<1>3. ASSUME NEW w \in Workers, Around(w) PROVE Goal
  <2>1. PICK c \in PCs \ {"lock", "relock"} :
            Goto(w, c) /\ (c = "stmt" => pc[w] = "lock") /\ (pc[w] = "lock" => c = "stmt")
            /\ (UNCHANGED failed \/ failed' = [failed EXCEPT ![w] = "statement"])
    BY <1>3, AroundControl
  <2>2. /\ UNCHANGED <<kv, notes, lastId, keyless, req, id, requests>>
        /\ faults' \in {faults, faults + 1} /\ faults' \in 0 .. MaxFaults
        /\ mutex' \in Workers \cup {Nobody} /\ pc[w] # "idle"
    BY <1>3, AroundControl DEF tables
  <2>3. TypeOK' /\ Asked'
    BY <2>1, <2>2 DEF TypeOK, Asked, Goto
  <2>4. Coming' \subseteq Coming
    BY <2>1 DEF Coming, Goto, TypeOK
  <2>5. Cardinality(Coming') =< Cardinality(Coming) /\ Cardinality(Coming') \in Nat
    BY <2>4, ComingFinite, FS_Subset, FS_CardinalityType
  <2>6. QED
    BY <2>2, <2>3, <2>5, ComingFinite, BoundsAssumption DEF Room, TypeOK
<1>4. CASE UNCHANGED vars
  BY <1>4 DEF vars, tables, bounds, TypeOK, Asked, Room, Coming
<1>5. QED
  BY <1>1, <1>2, <1>3, <1>4, StepKinds

\* The invariant of the types in every reachable state.
LEMMA TypesHold == Spec => [](TypeOK /\ Asked /\ Room)
<1>1. Init => TypeOK /\ Asked /\ Room
  <2> SUFFICES ASSUME Init PROVE TypeOK /\ Asked /\ Room
    OBVIOUS
  <2>1. TypeOK
    BY BoundsAssumption DEF Init, TypeOK, PCs
  <2>2. Asked /\ Coming = {}
    BY DEF Init, Asked, Coming
  <2>3. Room
    BY <2>2, FS_EmptySet DEF Init, Room
  <2>4. QED
    BY <2>1, <2>2, <2>3
<1>2. TypeOK /\ Asked /\ Room /\ [Next]_vars => (TypeOK /\ Asked /\ Room)'
  BY TypeStep
<1>3. QED
  BY <1>1, <1>2, PTL DEF Spec

\* Rows hold texts or nothing, every id that the sequence gives out is in range,
\* and no handler leaves its control points.
THEOREM TypeCorrect == Spec => []TypeOK
BY TypesHold, PTL

-----------------------------------------------------------------------------
(***************************************************************************)
(* Ids.  A row exists only under an id the sequence has given out, and a   *)
(* handler that reads back what it wrote does so under such an id.  Both   *)
(* are needed to see that no later INSERT brings a deleted note back under *)
(* an id a handler still holds.                                            *)
(***************************************************************************)
Given ==
    /\ \A i \in Ids : notes[i] # Absent => i =< lastId
    /\ \A w \in Workers : pc[w] \in {"relock", "reread"} =>
          req[w].op \in {"note_create", "note_update"} /\ id[w] \in 1 .. lastId

\* A creation that has its id.
Made(w) == req[w].op = "note_create" /\ id[w] # 0

\* The property, without the set it is stated with.
MadeDistinct ==
    /\ \A w \in Workers : Made(w) => id[w] =< lastId
    /\ \A v, w \in Workers : v # w /\ Made(v) /\ Made(w) => id[v] # id[w]

\* The step of the ids.
LEMMA IdsStep ==
    ASSUME TypeOK, TypeOK', Asked, Given, MadeDistinct, MissingIsDeleted, [Next]_vars
    PROVE  Given' /\ MadeDistinct' /\ MissingIsDeleted'
<1> DEFINE Goal == Given' /\ MadeDistinct' /\ MissingIsDeleted'
<1>0. lastId \in Nat /\ \A w \in Workers : id[w] \in Nat
  BY DEF TypeOK
<1>1. ASSUME NEW w \in Workers, NEW r \in Requests, Begin(w, r) PROVE Goal
  <2>1. /\ pc[w] = "idle" /\ Goto(w, "lock") /\ UNCHANGED <<notes, lastId>>
        /\ req' = [req EXCEPT ![w] = r]
        /\ id' = [id EXCEPT ![w] = IF r.op \in {"note_get", "note_update", "note_del"} THEN r.id ELSE 0]
    BY <1>1 DEF Begin, tables
  <2>2. /\ pc'[w] = "lock" /\ ~Made(w)'
        /\ \A v \in Workers : v # w => pc'[v] = pc[v] /\ req'[v] = req[v] /\ id'[v] = id[v]
    BY <2>1 DEF Goto, Made, TypeOK, Asked
  <2>3. Given' /\ MissingIsDeleted'
    BY <2>1, <2>2 DEF Given, MissingIsDeleted
  <2>4. MadeDistinct'
    BY <2>1, <2>2 DEF MadeDistinct, Made
  <2>5. QED
    BY <2>3, <2>4
<1>2. ASSUME NEW w \in Workers, Statement(w) PROVE Goal
  <2>1. PICK c \in AfterStatement : Goto(w, c)
    BY <1>2, StatementControl
  <2>2. /\ pc[w] = "stmt" /\ UNCHANGED req /\ pc'[w] = c /\ c \notin {"reread", "missing"}
        /\ \A v \in Workers : v # w => pc'[v] = pc[v]
    BY <1>2, <2>1, StatementControl DEF Goto, AfterStatement, TypeOK
  <2>3. req[w] \in Requests /\ id[w] \in 0 .. MaxRequests
    BY <2>2 DEF Asked, TypeOK
  <2>4. c = "relock" => NoteCreate(w) \/ (NoteUpdate(w) /\ notes[id[w]] # Absent)
    BY <1>2, <2>2 DEF Statement, KvPut, KvGet, KvDel, NoteCreate, NoteUpdate, NoteDel, KvList,
       NoteList, Metrics, CountFails, BindFails, Finish, Return, Goto, TypeOK
  <2>5. CASE NoteCreate(w)
    <3>1. /\ lastId' = lastId + 1 /\ notes' = [notes EXCEPT ![lastId + 1] = req[w].text]
          /\ id' = [id EXCEPT ![w] = lastId + 1] /\ req[w].op = "note_create"
      BY <2>5 DEF NoteCreate, Op
    <3>2. /\ id'[w] = lastId + 1 /\ \A v \in Workers : v # w => id'[v] = id[v]
          /\ \A i \in Ids : i # lastId + 1 => notes'[i] = notes[i]
      BY <3>1 DEF TypeOK
    <3>3. Given'
      <4>1. \A i \in Ids : i \in Int /\ (notes'[i] # Absent => i =< lastId')
        BY <1>0, <3>1, <3>2, BoundsAssumption DEF Given, Ids
      <4>2. \A v \in Workers : pc'[v] \in {"relock", "reread"} =>
                req'[v].op \in {"note_create", "note_update"} /\ id'[v] \in 1 .. lastId'
        BY <1>0, <2>2, <3>1, <3>2 DEF Given
      <4>3. QED
        BY <4>1, <4>2 DEF Given
    <3>4. MadeDistinct'
      BY <1>0, <2>2, <3>1, <3>2 DEF MadeDistinct, Made
    <3>5. MissingIsDeleted'
      <4> SUFFICES ASSUME NEW v \in Workers, pc'[v] = "missing",
                          req'[v].op \in {"note_create", "note_update"}
                   PROVE  id'[v] \in 1 .. lastId' /\ notes'[id'[v]] = Absent
        BY DEF MissingIsDeleted
      <4>1. v # w /\ id'[v] = id[v] /\ id[v] \in 1 .. lastId /\ notes[id[v]] = Absent
        BY <2>2, <3>2 DEF MissingIsDeleted
      <4>2. id[v] \in Ids /\ id[v] # lastId + 1
        BY <1>0, <4>1, BoundsAssumption DEF TypeOK, Ids
      <4>3. QED
        BY <1>0, <3>1, <3>2, <4>1, <4>2
    <3>6. QED
      BY <3>3, <3>4, <3>5
  <2>6. CASE ~NoteCreate(w)
    <3>1. /\ UNCHANGED <<lastId, id>>
          /\ \/ UNCHANGED notes
             \/ /\ NoteUpdate(w) /\ notes[id[w]] # Absent
                /\ notes' = [notes EXCEPT ![id[w]] = req[w].text]
             \/ notes' = [notes EXCEPT ![id[w]] = Absent]
      BY <1>2, <2>6, StatementTables DEF NoteUpdate, NoteDel
    <3>2. NoteUpdate(w) => id[w] \in Ids /\ req[w].op = "note_update"
      BY <2>2, <2>3, RequestFields DEF NoteUpdate, Op, Asked
    <3>3. \A i \in Ids : notes[i] = Absent => notes'[i] = Absent
      BY <3>1, <3>2 DEF TypeOK
    <3>4. c = "relock" => req[w].op = "note_update" /\ id[w] \in 1 .. lastId
      BY <1>0, <2>4, <2>6, <3>2, BoundsAssumption DEF Given, Ids
    <3>5. Given'
      <4>1. \A i \in Ids : notes'[i] # Absent => i =< lastId'
        BY <3>1, <3>3 DEF Given
      <4>2. \A v \in Workers : pc'[v] \in {"relock", "reread"} =>
                req'[v].op \in {"note_create", "note_update"} /\ id'[v] \in 1 .. lastId'
        BY <2>2, <3>1, <3>4 DEF Given
      <4>3. QED
        BY <4>1, <4>2 DEF Given
    <3>6. MadeDistinct'
      BY <2>2, <3>1 DEF MadeDistinct, Made
    <3>7. MissingIsDeleted'
      <4> SUFFICES ASSUME NEW v \in Workers, pc'[v] = "missing",
                          req'[v].op \in {"note_create", "note_update"}
                   PROVE  id'[v] \in 1 .. lastId' /\ notes'[id'[v]] = Absent
        BY DEF MissingIsDeleted
      <4>1. v # w /\ id[v] \in 1 .. lastId /\ notes[id[v]] = Absent
        BY <2>2 DEF MissingIsDeleted
      <4>2. id[v] \in Ids
        BY <1>0, <4>1, BoundsAssumption DEF TypeOK, Ids
      <4>3. QED
        BY <3>1, <3>3, <4>1, <4>2
    <3>8. QED
      BY <3>5, <3>6, <3>7
  <2>7. QED
    BY <2>5, <2>6
<1>3. ASSUME NEW w \in Workers, Around(w) PROVE Goal
  <2>1. PICK c \in PCs \ {"lock", "relock"} :
            /\ Goto(w, c) /\ (c = "reread" => pc[w] = "relock")
            /\ c = "missing" => notes[id[w]] = Absent /\ (pc[w] = "reread" \/ req[w].op = "note_get")
    BY <1>3, AroundControl
  <2>2. /\ UNCHANGED <<notes, lastId, req, id>>
    BY <1>3, AroundControl DEF tables
  <2>3. pc'[w] = c /\ \A v \in Workers : v # w => pc'[v] = pc[v]
    BY <2>1 DEF Goto, TypeOK
  <2>4. Given'
    BY <2>1, <2>2, <2>3 DEF Given
  <2>5. MadeDistinct'
    BY <2>2 DEF MadeDistinct, Made
  <2>6. MissingIsDeleted'
    BY <2>1, <2>2, <2>3 DEF MissingIsDeleted, Given
  <2>7. QED
    BY <2>4, <2>5, <2>6
<1>4. CASE UNCHANGED vars
  BY <1>4 DEF vars, tables, bounds, Given, MadeDistinct, Made, MissingIsDeleted
<1>5. QED
  BY <1>1, <1>2, <1>3, <1>4, StepKinds

\* The ids are in order in every reachable state.
LEMMA IdsHold == Spec => [](Given /\ MadeDistinct /\ MissingIsDeleted)
<1>1. Init => Given /\ MadeDistinct /\ MissingIsDeleted
  BY DEF Init, Given, MadeDistinct, Made, MissingIsDeleted
<1>2. TypeOK /\ TypeOK' /\ Asked /\ Given /\ MadeDistinct /\ MissingIsDeleted /\ [Next]_vars
        => (Given /\ MadeDistinct /\ MissingIsDeleted)'
  BY IdsStep
<1>3. QED
  BY <1>1, <1>2, TypesHold, PTL DEF Spec

\* store_note_create gives each creation the id of the row it inserted itself,
\* however many workers insert at once.
THEOREM CreatedIdsDistinctHolds == Spec => []CreatedIdsDistinct
<1>1. MadeDistinct => CreatedIdsDistinct
  BY DEF MadeDistinct, Made, CreatedIdsDistinct
<1>2. QED
  BY <1>1, IdsHold, PTL

\* A writer that is told 404 about the note it has just written had it deleted by
\* another request: the row is gone for good, for its id is never given out again.
THEOREM MissingIsDeletedHolds == Spec => []MissingIsDeleted
BY IdsHold, PTL

-----------------------------------------------------------------------------
(***************************************************************************)
(* Failures.  A request whose prepare or step failed can only be on its    *)
(* way to a 500; one with a failed COUNT is one that counts; and Unbound   *)
(* follows a failed bind to the answer.                                    *)
(***************************************************************************)

\* Where a request with a failed bind can be, and with which result in hand.
Unbound(w) ==
    \/ pc[w] \in {"idle", "error"}
    \/ pc[w] = "send" /\ res[w] = NotFound
    \/ req[w].op = "kv_list" /\ pc[w] \in {"fill", "measure", "toolarge", "sendbuf"} /\ res[w].data = {}
    \/ req[w].op = "kv_put" /\ pc[w] \in {"encode", "send"} /\ keyless > 0

\* What is known of a request by the call of it that failed.
Marked ==
    /\ DOMAIN res = Workers
    /\ \A w \in Workers :
        /\ failed[w] = "statement" => pc[w] \in {"idle", "error"}
        /\ failed[w] = "count" => pc[w] = "idle" \/ req[w].op \in {"metrics", "note_list"}
        /\ failed[w] = "bind" => Unbound(w)

\* The result of a store call is one worker's own, and rows without a key stay.
LEMMA ResultIsOwn ==
    ASSUME TypeOK, Marked, NEW w \in Workers, Statement(w) \/ Around(w)
    PROVE  /\ DOMAIN res' = Workers /\ (keyless > 0 => keyless' > 0)
           /\ \A v \in Workers : v # w => res'[v] = res[v]
<1>1. UNCHANGED res \/ \E a : res' = [res EXCEPT ![w] = a]
  BY DEF Statement, Around, KvPut, KvGet, KvDel, KvList, NoteCreate, NoteUpdate, NoteDel, NoteList,
     Metrics, CountFails, BindFails, StoreLock, Encode, NoteRead, FillDone, Measure, Send,
     StatementFails, FillFails, SendFails, Finish, Return, Determine
<1>2. keyless \in Nat /\ (keyless' = keyless \/ keyless' = keyless + 1)
  BY StatementControl, AroundControl, BoundsAssumption DEF tables, TypeOK
<1>3. QED
  BY <1>1, <1>2 DEF Marked

\* A bind that fails leads to such a place.
LEMMA BindIsUnbound ==
    ASSUME TypeOK, Marked, NEW w \in Workers, BindFails(w)
    PROVE  Unbound(w)'
<1>1. keyless \in Nat /\ UNCHANGED req
  BY BoundsAssumption DEF TypeOK, BindFails
<1>2. QED
  BY <1>1 DEF BindFails, Return, Determine, Goto, Unbound, TypeOK, Marked, Answer

\* The steps of the request after that keep to them.
LEMMA UnboundStep ==
    ASSUME TypeOK, Marked, NEW w \in Workers, Around(w), Unbound(w)
    PROVE  Unbound(w)'
<1>1. UNCHANGED <<keyless, req>> /\ pc[w] # "idle"
  BY AroundControl DEF tables
<1>2. pc[w] \in {"error", "send", "fill", "measure", "toolarge", "sendbuf", "encode"}
  BY <1>1 DEF Unbound
<1>3. UNCHANGED res
  BY <1>2 DEF Around, StoreLock, Encode, NoteRead, FillDone, Measure, Send, StatementFails, FillFails,
     SendFails, Op
<1>4. CASE Send(w) \/ SendFails(w)
  BY <1>4 DEF Send, SendFails, Goto, Unbound, TypeOK
<1>5. CASE Encode(w)
  BY <1>1, <1>3, <1>5 DEF Encode, Goto, Unbound, TypeOK
<1>6. CASE FillDone(w) \/ FillFails(w) \/ Measure(w)
  BY <1>1, <1>3, <1>6 DEF FillDone, FillFails, Measure, Goto, Unbound, TypeOK
<1>7. QED
  BY <1>2, <1>4, <1>5, <1>6 DEF Around, StoreLock, NoteRead, StatementFails, Op

\* The step of Marked.
LEMMA MarkedStep ==
    ASSUME TypeOK, Asked, Marked, [Next]_vars
    PROVE  Marked'
<1> DEFINE Mark(v) == /\ failed[v] = "statement" => pc[v] \in {"idle", "error"}
                      /\ failed[v] = "count" => pc[v] = "idle" \/ req[v].op \in {"metrics", "note_list"}
                      /\ failed[v] = "bind" => Unbound(v)
<1>0. Marked <=> DOMAIN res = Workers /\ \A v \in Workers : Mark(v)
  BY DEF Marked
<1>1. ASSUME NEW w \in Workers, NEW r \in Requests, Begin(w, r) PROVE Marked'
  <2>1. failed'[w] = "none" /\ UNCHANGED <<res, keyless>>
    BY <1>1 DEF Begin, TypeOK, tables
  <2>2. \A v \in Workers : v # w => pc'[v] = pc[v] /\ req'[v] = req[v] /\ failed'[v] = failed[v]
    BY <1>1 DEF Begin, Goto, TypeOK, Asked
  <2>3. QED
    BY <2>1, <2>2 DEF Marked, Unbound
<1>2. ASSUME NEW w \in Workers, Statement(w) \/ Around(w), Mark(w)' PROVE Marked'
  <2>1. UNCHANGED req /\ \A v \in Workers : v # w => pc'[v] = pc[v] /\ failed'[v] = failed[v]
    BY <1>2, StatementControl, AroundControl DEF Goto, TypeOK
  <2>2. \A v \in Workers : v # w => Mark(v)'
    BY <1>2, <2>1, ResultIsOwn DEF Marked, Unbound
  <2>3. QED
    BY <1>2, <2>2, ResultIsOwn DEF Marked
<1>3. ASSUME NEW w \in Workers, Statement(w) PROVE Marked'
  <2>1. pc[w] = "stmt" /\ UNCHANGED req /\ failed[w] \in {"none", "count"}
    BY <1>3, StatementControl DEF Marked, Unbound, TypeOK
  <2>2. CASE UNCHANGED failed
    BY <1>2, <1>3, <2>1, <2>2 DEF Marked
  <2>3. CASE CountFails(w) /\ failed' = [failed EXCEPT ![w] = "count"]
    <3>1. failed'[w] = "count" /\ req[w].op \in {"metrics", "note_list"}
      BY <2>3 DEF CountFails, Op, TypeOK
    <3>2. QED
      BY <1>2, <1>3, <2>1, <3>1
  <2>4. CASE BindFails(w) /\ failed' = [failed EXCEPT ![w] = "bind"]
    <3>1. failed'[w] = "bind"
      BY <2>4 DEF TypeOK
    <3>2. QED
      BY <1>2, <1>3, <2>4, <3>1, BindIsUnbound
  <2>5. QED
    BY <1>3, <2>2, <2>3, <2>4, StatementControl
<1>4. ASSUME NEW w \in Workers, Around(w) PROVE Marked'
  <2>1. PICK c \in PCs \ {"lock", "relock"} :
            /\ Goto(w, c) /\ (pc[w] = "error" => c = "idle")
            /\ UNCHANGED failed \/ (c = "error" /\ failed' = [failed EXCEPT ![w] = "statement"])
    BY <1>4, AroundControl
  <2>2. UNCHANGED req /\ pc[w] # "idle" /\ pc'[w] = c
    BY <1>4, <2>1, AroundControl DEF Goto, TypeOK
  <2>3. CASE UNCHANGED failed
    BY <1>2, <1>4, <2>1, <2>2, <2>3, UnboundStep DEF Marked
  <2>4. CASE c = "error" /\ failed' = [failed EXCEPT ![w] = "statement"]
    BY <1>2, <1>4, <2>2, <2>4 DEF TypeOK
  <2>5. QED
    BY <2>1, <2>3, <2>4
<1>5. CASE UNCHANGED vars
  BY <1>5 DEF vars, tables, Marked, Unbound
<1>6. QED
  BY <1>1, <1>3, <1>4, <1>5, StepKinds

\* A failed prepare or step is never answered but by a 500; what a failed COUNT or
\* a failed bind is answered with is one of the answers the property lists.
THEOREM SilentOnlyWhereUncheckedHolds == Spec => []SilentOnlyWhereUnchecked
<1>1. Init => Marked
  BY DEF Init, Marked
<1>2. TypeOK /\ Asked /\ Marked /\ [Next]_vars => Marked'
  BY MarkedStep
<1>3. TypeOK /\ Marked => SilentOnlyWhereUnchecked
  BY DEF Marked, Unbound, SilentOnlyWhereUnchecked, TypeOK
<1>4. QED
  BY <1>1, <1>2, <1>3, TypesHold, PTL DEF Spec

-----------------------------------------------------------------------------
(***************************************************************************)
(* When the handlers implement AtomicApi, as long as no call fails whose   *)
(* result the store ignores: for the requests that use no static buffer,   *)
(* whatever runs at the same time; and for all requests, if one worker     *)
(* runs the handlers.  With several workers and a static buffer they do    *)
(* not: the run that looks for it finds one client's note in another's     *)
(* answer.                                                                 *)
(***************************************************************************)

\* No COUNT and no bind fails, and none has left a row without a key.
Heeded == keyless = 0 /\ \A w \in Workers : ~CountFails(w) /\ ~BindFails(w)

\* So it is where they cannot fail.
LEMMA HeededStep ==
    ASSUME Fallible \cap {"count", "bind"} = {}, TypeOK, keyless = 0, [Next]_vars
    PROVE  Heeded /\ keyless' = 0
<1>1. \A w \in Workers : ~CountFails(w) /\ ~BindFails(w)
  BY DEF CountFails, BindFails, Fails, MayFail
<1>2. ASSUME NEW w \in Workers, Statement(w) PROVE UNCHANGED keyless
  BY <1>1, <1>2 DEF Statement, KvPut, KvGet, KvDel, KvList, NoteCreate, NoteUpdate, NoteDel, NoteList,
     Metrics, tables
<1>3. ASSUME NEW w \in Workers, NEW r \in Requests, Begin(w, r) PROVE UNCHANGED keyless
  BY <1>3 DEF Begin, tables
<1>4. UNCHANGED keyless
  BY <1>2, <1>3, AroundControl, StepKinds DEF tables, vars
<1>5. QED
  BY <1>1, <1>4 DEF Heeded

\* The phases of the abstract requests.
Phases == [w \in Workers |-> Phase(w)]

\* The answers that do not come straight from what the statement determined are
\* the right ones: this is where a shared buffer can go wrong.
HonestReply ==
    \A w \in Workers :
        /\ pc[w] = "missing" => res[w] = NotFound
        /\ pc[w] = "toolarge" => req[w].op \in {"kv_list", "note_list"}
        /\ pc[w] = "sendbuf" => Sent(w) = res[w]

\* Moving one worker moves its phase.
LEMMA PhaseMoves ==
    ASSUME TypeOK, NEW w \in Workers, NEW c, Goto(w, c)
    PROVE  /\ Phases[w] = Phase(w)
           /\ Phases' = [Phases EXCEPT ![w] = CASE c = "idle" -> "idle"
                                                [] c \in {"lock", "stmt"} -> "called"
                                                [] OTHER -> "done"]
BY DEF TypeOK, Goto, Phases, Phase

\* A request that begins is invoked.
LEMMA BeginIsInvoke ==
    ASSUME TypeOK, NEW w \in Workers, NEW r \in Requests, Begin(w, r)
    PROVE  Atomic!Invoke(w, r)
<1>1. /\ pc[w] = "idle" /\ Goto(w, "lock") /\ req' = [req EXCEPT ![w] = r]
      /\ UNCHANGED <<kv, notes, lastId, res, resp>>
  BY DEF Begin, tables
<1>2. Phases[w] = "idle" /\ Phases' = [Phases EXCEPT ![w] = "called"]
  BY <1>1, PhaseMoves DEF Phase
<1>3. QED
  BY <1>1, <1>2 DEF Atomic!Invoke, Phases

\* Both modules mean the same by the rows of a table and by their number.
LEMMA SameRows ==
    /\ Rows(kv) = Atomic!Rows(kv) /\ Rows(notes) = Atomic!Rows(notes)
    /\ Cardinality(Rows(kv)) = Atomic!Cardinality(Atomic!Rows(kv))
    /\ Cardinality(Rows(notes)) = Atomic!Cardinality(Atomic!Rows(notes))
<1>1. Rows(kv) = Atomic!Rows(kv) /\ Rows(notes) = Atomic!Rows(notes)
  BY DEF Rows, Atomic!Rows
<1>2. ASSUME NEW S PROVE Cardinality(S) = Atomic!Cardinality(S)
  BY DEF Cardinality, Atomic!Cardinality
<1>3. QED
  BY <1>1, <1>2

\* A table has a number of rows.
LEMMA RowsFinite == TypeOK => Cardinality(Rows(kv)) \in Nat
<1> SUFFICES ASSUME TypeOK PROVE Cardinality(Rows(kv)) \in Nat
  OBVIOUS
<1> DEFINE S == {y \in DOMAIN kv : kv[y] # Absent}
<1>1. IsFiniteSet(S)
  BY KeysAssumption, FS_Subset DEF TypeOK
<1>2. [x \in S |-> <<x, kv[x]>>] \in Surjection(S, Rows(kv))
  BY DEF Surjection, Rows
<1>3. IsFiniteSet(Rows(kv))
  BY <1>1, <1>2, FS_Surjection
<1>4. QED
  BY <1>3, FS_CardinalityType

\* Every statement that succeeds is the effect of its request.
LEMMA StatementIsDo ==
    ASSUME TypeOK, Asked, Heeded, NEW w \in Workers,
           Statement(w) \/ (NoteRead(w) /\ pc[w] = "stmt")
    PROVE  Atomic!Do(w)
<1>1. pc[w] = "stmt" /\ \E c \in PCs \ {"idle", "lock", "stmt"} : Goto(w, c)
  <2>1. CASE Statement(w)
    BY <2>1, StatementControl DEF AfterStatement, PCs
  <2>2. CASE NoteRead(w) /\ pc[w] = "stmt"
    BY <2>2 DEF NoteRead, PCs
  <2>3. QED
    BY <2>1, <2>2
<1>2. Phases[w] = "called" /\ Phases' = [Phases EXCEPT ![w] = "done"]
  BY <1>1, PhaseMoves DEF Phase
<1>3. /\ req[w] \in Requests
      /\ req[w].op \in {"note_get", "note_update", "note_del"} => id[w] = req[w].id
  BY <1>1 DEF Asked
<1> USE DEF Atomic!Done, Atomic!Answer, Atomic!NotFound, Answer, NotFound, Op, Finish, Return, Determine, Phases
<1>4. CASE KvPut(w)
  BY <1>2, <1>4 DEF KvPut, Atomic!Do, Atomic!KvPut
<1>5. CASE KvGet(w)
  BY <1>2, <1>5 DEF KvGet, Atomic!Do, Atomic!KvGet, tables
<1>6. CASE KvDel(w)
  BY <1>2, <1>6 DEF KvDel, Atomic!Do, Atomic!KvDel
<1>7. CASE NoteCreate(w)
  BY <1>2, <1>7 DEF NoteCreate, Atomic!Do, Atomic!NoteCreate
<1>8. CASE NoteUpdate(w)
  <2>1. req[w].op = "note_update" /\ id[w] = req[w].id
    BY <1>3, <1>8 DEF NoteUpdate
  <2>2. Atomic!NoteUpdate(w)
    BY <1>2, <1>8, <2>1 DEF NoteUpdate, Atomic!NoteUpdate
  <2>3. QED
    BY <1>2, <2>2 DEF Atomic!Do
<1>9. CASE NoteDel(w)
  <2>1. req[w].op = "note_del" /\ id[w] = req[w].id
    BY <1>3, <1>9 DEF NoteDel
  <2>2. Atomic!NoteDel(w)
    BY <1>2, <1>9, <2>1 DEF NoteDel, Atomic!NoteDel
  <2>3. QED
    BY <1>2, <2>2 DEF Atomic!Do
<1>10. CASE KvList(w)
  <2>1. Atomic!KvList(w)
    BY <1>2, <1>10, SameRows DEF KvList, Atomic!KvList, tables
  <2>2. QED
    BY <1>2, <2>1 DEF Atomic!Do
<1>11. CASE NoteList(w)
  <2>1. Atomic!NoteList(w)
    BY <1>2, <1>11, SameRows DEF NoteList, Atomic!NoteList, tables
  <2>2. QED
    BY <1>2, <2>1 DEF Atomic!Do
<1>12. CASE Metrics(w)
  <2>0. Cardinality(Rows(kv)) + keyless = Cardinality(Rows(kv))
    BY RowsFinite DEF Heeded
  <2>1. Atomic!Metrics(w)
    BY <1>2, <1>12, <2>0, SameRows DEF Metrics, KvCount, NoteCount, Atomic!Metrics, tables
  <2>2. QED
    BY <1>2, <2>1 DEF Atomic!Do
<1>13. CASE NoteRead(w) /\ pc[w] = "stmt"
  BY <1>2, <1>3, <1>13 DEF NoteRead, Atomic!Do, Atomic!NoteGet, tables
<1>14. QED
  BY <1>4, <1>5, <1>6, <1>7, <1>8, <1>9, <1>10, <1>11, <1>12, <1>13 DEF Statement, Heeded

\* The other steps fail the request before its effect, answer it, or are invisible.
LEMMA AroundRefines ==
    ASSUME TypeOK, Asked, HonestReply, NEW w \in Workers, Around(w), ~(NoteRead(w) /\ pc[w] = "stmt")
    PROVE  Atomic!Fail(w) \/ Atomic!Reply(w) \/ UNCHANGED Atomic!vars
<1>1. UNCHANGED <<kv, notes, lastId, req>>
  BY AroundControl DEF tables
<1>2. CASE StatementFails(w) /\ pc[w] = "stmt"
  <2>1. Goto(w, "error") /\ Determine(w, Internal) /\ UNCHANGED resp
    BY <1>2 DEF StatementFails
  <2>2. Phases[w] = "called" /\ Phases' = [Phases EXCEPT ![w] = "done"]
    BY <1>2, <2>1, PhaseMoves DEF Phase
  <2>3. QED
    BY <1>1, <2>1, <2>2 DEF Atomic!Fail, Atomic!Done, Atomic!Internal, Atomic!Answer, Internal,
       Answer, Determine, Phases
<1>3. CASE Send(w) \/ SendFails(w)
  <2>1. /\ pc[w] \in {"send", "error", "missing", "toolarge", "sendbuf"} /\ Goto(w, "idle")
        /\ UNCHANGED res
        /\ \E a \in {Sent(w), Lost} : resp' = [resp EXCEPT ![w] = a]
    BY <1>3 DEF Send, SendFails
  <2>2. Phases[w] = "done" /\ Phases' = [Phases EXCEPT ![w] = "idle"]
    BY <2>1, PhaseMoves DEF Phase
  <2>3. Sent(w) \in {res[w], Internal} \/ (req[w].op \in {"kv_list", "note_list"} /\ Sent(w) = TooLarge)
    BY <2>1 DEF HonestReply, Sent
  <2>4. Internal = Atomic!Internal /\ Lost = Atomic!Lost /\ TooLarge = Atomic!TooLarge
    BY DEF Atomic!Internal, Atomic!Lost, Atomic!TooLarge, Atomic!Answer, Internal, Lost, TooLarge, Answer
  <2>5. \/ \E a \in {res[w], Atomic!Internal, Atomic!Lost} : resp' = [resp EXCEPT ![w] = a]
        \/ req[w].op \in {"kv_list", "note_list"} /\ resp' = [resp EXCEPT ![w] = Atomic!TooLarge]
    BY <2>1, <2>3, <2>4
  <2>6. QED
    BY <1>1, <2>1, <2>2, <2>5 DEF Atomic!Reply, Phases
<1>4. CASE ~(StatementFails(w) /\ pc[w] = "stmt") /\ ~Send(w) /\ ~SendFails(w)
  <2>1. UNCHANGED <<res, resp>>
    BY <1>4 DEF Around, StoreLock, Encode, NoteRead, FillDone, Measure, StatementFails, FillFails
  <2>2. \E c \in PCs : /\ Goto(w, c)
                       /\ \/ pc[w] = "lock" /\ c = "stmt"
                          \/ {pc[w], c} \cap {"idle", "lock", "stmt"} = {}
    BY <1>4 DEF Around, StoreLock, Encode, NoteRead, FillDone, Measure, StatementFails, FillFails, Op, PCs
  <2>3. Phases' = Phases
    BY <2>2 DEF Phases, Phase, Goto, TypeOK
  <2>4. QED
    BY <1>1, <2>1, <2>3 DEF Atomic!vars, Phases
<1>5. QED
  BY <1>2, <1>3, <1>4

\* Where replies are honest and no COUNT or bind fails, every step is a step of
\* AtomicApi.
LEMMA RefinesStep ==
    ASSUME TypeOK, Asked, HonestReply, Heeded, [Next]_vars
    PROVE  [Atomic!Next]_(Atomic!vars)
<1>1. ASSUME NEW w \in Workers, NEW r \in Requests, Begin(w, r) PROVE Atomic!Next
  BY <1>1, BeginIsInvoke DEF Atomic!Next
<1>2. ASSUME NEW w \in Workers, Statement(w) PROVE Atomic!Next
  BY <1>2, StatementIsDo DEF Atomic!Next
<1>3. ASSUME NEW w \in Workers, Around(w) PROVE [Atomic!Next]_(Atomic!vars)
  <2>1. CASE NoteRead(w) /\ pc[w] = "stmt"
    BY <2>1, StatementIsDo DEF Atomic!Next
  <2>2. CASE ~(NoteRead(w) /\ pc[w] = "stmt")
    BY <1>3, <2>2, AroundRefines DEF Atomic!Next
  <2>3. QED
    BY <2>1, <2>2
<1>4. CASE UNCHANGED vars
  BY <1>4 DEF vars, tables, Atomic!vars, Phase
<1>5. QED
  BY <1>1, <1>2, <1>3, <1>4, StepKinds

\* The initial state.
LEMMA RefinesInit == Init => Atomic!Init
BY DEF Init, Atomic!Init, Phase, NoAnswer, Atomic!NoAnswer, Answer, Atomic!Answer

-----------------------------------------------------------------------------
(* Any number of workers, no static buffer *)

Unbuffered == {"kv_put", "kv_get", "kv_del", "note_del", "metrics"}

\* These requests stay off the paths that use a buffer.
Direct == \A w \in Workers : pc[w] \in {"idle", "lock", "stmt", "encode", "send", "error"}

\* The step of Direct.
LEMMA DirectStep ==
    ASSUME Ops \subseteq Unbuffered, TypeOK, Asked, Direct, Heeded, [Next]_vars
    PROVE  Direct' /\ HonestReply
<1>1. \A w \in Workers : pc[w] # "idle" => req[w].op \in Unbuffered
  BY RequestFields DEF Asked
<1>2. HonestReply
  BY DEF Direct, HonestReply
<1>3. ASSUME NEW w \in Workers, NEW r \in Requests, Begin(w, r) PROVE Direct'
  BY <1>3 DEF Begin, Goto, Direct, TypeOK
<1>4. ASSUME NEW w \in Workers, Statement(w) PROVE Direct'
  <2>1. pc[w] = "stmt" /\ req[w].op \in Unbuffered
    BY <1>1, <1>4, StatementControl
  <2>2. KvPut(w) \/ KvGet(w) \/ KvDel(w) \/ NoteDel(w) \/ Metrics(w)
    BY <1>4, <2>1 DEF Statement, KvList, NoteCreate, NoteUpdate, NoteList, Heeded, Op, Unbuffered
  <2>3. QED
    BY <2>2 DEF KvPut, KvGet, KvDel, NoteDel, Metrics, Finish, Return, Goto, Direct, TypeOK
<1>5. ASSUME NEW w \in Workers, Around(w) PROVE Direct'
  <2>1. StoreLock(w) \/ Encode(w) \/ Send(w) \/ StatementFails(w) \/ SendFails(w)
    BY <1>1, <1>5 DEF Around, NoteRead, FillDone, Measure, FillFails, Op, Direct, Unbuffered
  <2>2. QED
    BY <2>1 DEF StoreLock, Encode, Send, StatementFails, SendFails, Goto, Direct, TypeOK
<1>6. CASE UNCHANGED vars
  BY <1>2, <1>6 DEF vars, Direct
<1>7. Direct'
  BY <1>3, <1>4, <1>5, <1>6, StepKinds
<1>8. QED
  BY <1>2, <1>7

\* PUT, GET and DELETE of keys, DELETE of notes and GET /metrics are linearizable
\* with any number of workers, under sends that fail and sqlite calls that fail,
\* unless it is a bind or a COUNT.
THEOREM UnbufferedLinearizable ==
    ASSUME Ops \subseteq Unbuffered, Fallible \cap {"count", "bind"} = {}
    PROVE  Spec => Linearizable
<1>1. Init => Direct /\ keyless = 0
  BY DEF Init, Direct
<1>2. TypeOK /\ Asked /\ Direct /\ keyless = 0 /\ [Next]_vars => (Direct /\ keyless = 0)'
  BY DirectStep, HeededStep
<1>3. TypeOK /\ Asked /\ Direct /\ keyless = 0 /\ [Next]_vars => [Atomic!Next]_(Atomic!vars)
  BY DirectStep, HeededStep, RefinesStep
<1>4. QED
  BY <1>1, <1>2, <1>3, RefinesInit, TypesHold, PTL DEF Spec, Linearizable, Atomic!Spec

-----------------------------------------------------------------------------
(* All operations, one worker *)

Buffered == {"kv_list", "note_create", "note_list", "note_get", "note_update"}

\* The status of an answer that comes out of a buffer.
Due(w) == IF req[w].op = "note_create" THEN 201 ELSE 200

\* What the statement determined is what the store will render, what the buffer
\* holds and what was measured: nobody else changes a row or a buffer meanwhile.
Promised ==
    /\ DOMAIN res = Workers /\ DOMAIN size = Workers /\ DOMAIN buf = Buffers
    /\ \A w \in Workers :
        /\ pc[w] \in {"relock", "reread"} =>
              /\ req[w].op \in {"note_create", "note_update"} /\ notes[id[w]] # Absent
              /\ res[w] = Answer(Due(w), <<id[w], notes[id[w]]>>)
        /\ pc[w] = "fill" => req[w].op \in Buffered /\ res[w] = Answer(Due(w), Rendered(w))
        /\ pc[w] = "measure" =>
              req[w].op \in Buffered /\ res[w] = Answer(Due(w), buf[BufferOf(req[w])])
        /\ pc[w] = "sendbuf" =>
              /\ req[w].op \in Buffered /\ res[w] = Answer(Due(w), size[w])
              /\ size[w] = buf[BufferOf(req[w])]
        /\ pc[w] = "missing" => res[w] = NotFound
        /\ pc[w] = "toolarge" => req[w].op \in {"kv_list", "note_list"}

\* The buffers are there.
LEMMA BufferIs == \A w \in Workers : req[w].op \in Buffered => BufferOf(req[w]) \in Buffers
BY DEF Buffered, BufferOf, Buffers

\* Then the answers are honest.
LEMMA PromisedHonest == Promised => HonestReply
BY DEF Promised, HonestReply, Sent, Due, Answer

\* The step of Promised.
LEMMA PromisedStep ==
    ASSUME \A v, w \in Workers : v = w, TypeOK, TypeOK', Asked, Promised, Heeded, [Next]_vars
    PROVE  Promised'
<1>1. ASSUME NEW w \in Workers, NEW r \in Requests, Begin(w, r) PROVE Promised'
  <2>1. pc'[w] = "lock" /\ UNCHANGED <<res, size, buf>>
    BY <1>1 DEF Begin, Goto, TypeOK
  <2>2. QED
    BY <2>1 DEF Promised
<1>2. ASSUME NEW w \in Workers, Statement(w) PROVE Promised'
  <2>0. /\ DOMAIN res' = Workers /\ DOMAIN size' = Workers /\ DOMAIN buf' = Buffers
    BY <1>2 DEF Promised, Statement, KvPut, KvGet, KvDel, KvList, NoteCreate, NoteUpdate, NoteDel,
       NoteList, Metrics, Finish, Return, Determine, Heeded
  <2>1. pc[w] = "stmt" /\ UNCHANGED req /\ \E c \in AfterStatement : Goto(w, c)
    BY <1>2, StatementControl
  <2>2. /\ req[w] \in Requests
        /\ req[w].op \in {"note_get", "note_update", "note_del"} => id[w] = req[w].id
    BY <2>1 DEF Asked
  <2>3. CASE pc'[w] \in {"encode", "send"}
    BY <2>0, <2>3 DEF Promised
  <2>4. CASE NoteCreate(w)
    <3>1. /\ id'[w] = lastId + 1 /\ pc'[w] = "relock" /\ req[w].op = "note_create"
          /\ notes' = [notes EXCEPT ![lastId + 1] = req[w].text]
          /\ res'[w] = Answer(201, <<lastId + 1, req[w].text>>)
      BY <2>4 DEF NoteCreate, Op, Goto, Determine, TypeOK, Promised
    <3>2. lastId + 1 \in Ids
      BY <2>4, BoundsAssumption DEF NoteCreate, TypeOK, Ids
    <3>3. notes'[lastId + 1] = req[w].text /\ req[w].text # Absent
      BY <2>2, <3>1, <3>2, RequestFields, TextsAssumption DEF TypeOK
    <3>4. QED
      BY <2>0, <2>1, <3>1, <3>3 DEF Promised, Due
  <2>5. CASE NoteUpdate(w) /\ notes[id[w]] # Absent
    <3>1. /\ UNCHANGED id /\ pc'[w] = "relock" /\ req[w].op = "note_update"
          /\ notes' = [notes EXCEPT ![id[w]] = req[w].text]
          /\ res'[w] = Answer(200, <<id[w], req[w].text>>)
      BY <2>5 DEF NoteUpdate, Op, Finish, Return, Goto, Determine, TypeOK, Promised
    <3>2. notes'[id[w]] = req[w].text /\ req[w].text # Absent
      BY <2>2, <3>1, RequestFields, TextsAssumption DEF TypeOK
    <3>3. QED
      BY <2>0, <2>1, <3>1, <3>2 DEF Promised, Due
  <2>6. CASE KvList(w) \/ NoteList(w)
    <3>1. /\ pc'[w] = "fill" /\ req[w].op \in {"kv_list", "note_list"}
          /\ \E d : res'[w] = Answer(200, d)
      BY <2>6 DEF KvList, NoteList, Op, Goto, Determine, TypeOK, Promised
    <3>2. res'[w] = Answer(200, res'[w].data)
      BY <3>1 DEF Answer
    <3>3. Rendered(w)' = res'[w].data /\ Due(w)' = 200
      BY <2>1, <3>1 DEF Rendered, Due
    <3>4. QED
      BY <2>0, <2>1, <3>1, <3>2, <3>3 DEF Promised, Buffered
  <2>7. pc'[w] \in {"encode", "send"} \/ NoteCreate(w) \/ (NoteUpdate(w) /\ notes[id[w]] # Absent)
        \/ KvList(w) \/ NoteList(w)
    BY <1>2 DEF Statement, KvPut, KvGet, KvDel, NoteUpdate, NoteDel, Metrics, Finish, Return, Goto, TypeOK,
       Heeded
  <2>8. QED
    BY <2>3, <2>4, <2>5, <2>6, <2>7
<1>3. ASSUME NEW w \in Workers, Around(w) PROVE Promised'
  <2>1. UNCHANGED <<kv, notes, lastId, req, id, requests>> /\ Due(w)' = Due(w)
    BY <1>3, AroundControl DEF tables, Due
  <2>2. CASE StoreLock(w)
    BY <2>1, <2>2 DEF StoreLock, Goto, Promised, TypeOK
  <2>3. CASE NoteRead(w)
    <3>0. /\ DOMAIN res' = Workers /\ DOMAIN size' = Workers /\ DOMAIN buf' = Buffers
      BY <2>3 DEF Promised, NoteRead, Determine
    <3>1. pc[w] \in {"stmt", "reread"} /\ (pc[w] = "stmt" => req[w].op = "note_get")
      BY <2>3 DEF NoteRead, Op
    <3>2. CASE pc[w] = "reread"
      <4>1. /\ UNCHANGED res /\ pc'[w] \in {"fill", "error"}
            /\ req[w].op \in {"note_create", "note_update"} /\ notes[id[w]] # Absent
            /\ res[w] = Answer(Due(w), <<id[w], notes[id[w]]>>)
        BY <2>3, <3>2 DEF NoteRead, Promised, Goto, TypeOK
      <4>2. pc'[w] = "fill" => Rendered(w)' = <<id[w], notes[id[w]]>>
        BY <2>1, <4>1 DEF Rendered
      <4>3. QED
        BY <2>1, <3>0, <4>1, <4>2 DEF Promised, Buffered
    <3>3. CASE pc[w] = "stmt" /\ notes[id[w]] = Absent
      <4>1. pc'[w] = "missing" /\ res'[w] = NotFound
        BY <2>3, <3>3 DEF NoteRead, Promised, Goto, Determine, TypeOK
      <4>2. QED
        BY <3>0, <4>1 DEF Promised
    <3>4. CASE pc[w] = "stmt" /\ notes[id[w]] # Absent
      <4>1. /\ pc'[w] \in {"fill", "error"} /\ req[w].op = "note_get"
            /\ res'[w] = Answer(200, <<id[w], notes[id[w]]>>)
        BY <2>3, <3>1, <3>4 DEF NoteRead, Promised, Goto, Determine, TypeOK
      <4>2. res'[w] = Answer(200, res'[w].data)
        BY <4>1 DEF Answer
      <4>3. Rendered(w)' = res'[w].data /\ Due(w)' = 200
        BY <2>1, <4>1 DEF Rendered, Due
      <4>4. QED
        BY <2>1, <3>0, <4>1, <4>2, <4>3 DEF Promised, Buffered
    <3>5. QED
      BY <3>1, <3>2, <3>3, <3>4
  <2>4. CASE FillDone(w)
    <3>0. /\ UNCHANGED <<res, size>> /\ DOMAIN buf' = Buffers /\ pc[w] = "fill"
      BY <2>4 DEF Promised, FillDone
    <3>1. pc'[w] \in {"error", "toolarge", "measure"}
      BY <2>4 DEF FillDone, Goto, TypeOK
    <3>2. pc'[w] = "toolarge" => req[w].op \in {"kv_list", "note_list"}
      <4>1. Cardinality({}) = 0 /\ BufferRows \in Nat
        BY FS_EmptySet, BoundsAssumption
      <4>2. pc'[w] = "toolarge" => Cardinality(Listed(w)) > BufferRows
        BY <2>4 DEF FillDone, Goto, TypeOK
      <4>3. req[w].op \notin {"kv_list", "note_list"} => Listed(w) = {}
        BY DEF Listed
      <4>4. QED
        BY <4>1, <4>2, <4>3
    <3>3. pc'[w] = "measure" => buf'[BufferOf(req[w])] = Rendered(w)
      BY <2>4, <3>0, BufferIs DEF FillDone, Goto, TypeOK, Promised
    <3>4. BufferOf(req[w])' = BufferOf(req[w])
      BY <2>1 DEF BufferOf
    <3>5. QED
      BY <2>1, <3>0, <3>1, <3>2, <3>3, <3>4 DEF Promised
  <2>5. CASE Measure(w)
    <3>1. /\ UNCHANGED <<res, buf>> /\ pc[w] = "measure" /\ pc'[w] \in {"sendbuf", "error"}
          /\ DOMAIN size' = Workers /\ size'[w] = buf[BufferOf(req[w])]
      BY <2>5 DEF Measure, Goto, TypeOK, Promised
    <3>2. BufferOf(req[w])' = BufferOf(req[w])
      BY <2>1 DEF BufferOf
    <3>3. QED
      BY <2>1, <3>1, <3>2 DEF Promised
  <2>6. CASE Encode(w) \/ Send(w) \/ SendFails(w) \/ StatementFails(w) \/ FillFails(w)
    <3>1. /\ pc'[w] \in {"idle", "send", "error"}
          /\ DOMAIN res' = Workers /\ UNCHANGED <<size, buf>>
      BY <2>6 DEF Encode, Send, SendFails, StatementFails, FillFails, Goto, Determine, TypeOK, Promised
    <3>2. QED
      BY <3>1 DEF Promised
  <2>7. QED
    BY <1>3, <2>2, <2>3, <2>4, <2>5, <2>6 DEF Around
<1>4. CASE UNCHANGED vars
  <2>1. UNCHANGED <<notes, req, id, res, size, buf, pc>>
    BY <1>4 DEF vars, tables
  <2>2. \A w \in Workers : /\ Due(w)' = Due(w) /\ Rendered(w)' = Rendered(w)
                           /\ BufferOf(req[w])' = BufferOf(req[w])
    BY <2>1 DEF Due, Rendered, BufferOf
  <2>3. QED
    BY <2>1, <2>2 DEF Promised
<1>5. QED
  BY <1>1, <1>2, <1>3, <1>4, StepKinds

\* With one worker (thread_count 1) every operation of the API is linearizable, the
\* ones that render into static buffers included, unless a COUNT or a bind fails.
THEOREM AloneLinearizable ==
    ASSUME \A v, w \in Workers : v = w, Fallible \cap {"count", "bind"} = {}
    PROVE  Spec => Linearizable
<1>1. Init => Promised /\ keyless = 0
  BY DEF Init, Promised
<1>2. TypeOK /\ TypeOK' /\ Asked /\ Promised /\ keyless = 0 /\ [Next]_vars => (Promised /\ keyless = 0)'
  BY HeededStep, PromisedStep
<1>3. TypeOK /\ Asked /\ Promised /\ keyless = 0 /\ [Next]_vars => [Atomic!Next]_(Atomic!vars)
  BY HeededStep, PromisedHonest, RefinesStep
<1>4. QED
  BY <1>1, <1>2, <1>3, RefinesInit, TypesHold, PTL DEF Spec, Linearizable, Atomic!Spec
=============================================================================
