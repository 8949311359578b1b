------------------------------ MODULE Listing -------------------------------
(***************************************************************************)
(* GET /api/kv?prefix=&limit= from the query to the rows, and a client     *)
(* that walks through GET /api/notes?limit=&offset= page by page while     *)
(* others create and delete notes.                                         *)
(*                                                                         *)
(* A key is a sequence of characters, of which "us" is the underscore.  A  *)
(* query is a sequence of parameters with a name and a text; the text of a *)
(* limit counts by the number it is (num), 0 if it is no positive number.  *)
(***************************************************************************)
EXTENDS Integers, SequencesExt

CONSTANTS
    Keys,           \* keys that may be stored
    MaxKey,         \* STORE_MAX_KEY_LEN (128)
    MaxList,        \* STORE_MAX_LIST (100)
    DefaultLimit,   \* 50
    Queries,        \* queries of GET /api/kv
    RowSize,        \* of each key, the bytes of its row in a list, 0 if json_escape refuses its value
    NoteSizes,      \* the same of the notes that may be created
    Room,           \* the buffer of a list (65536)
    Wrap,           \* what handle_kv_list puts around its items
    MaxNotes        \* bound: notes ever created

\* The parser takes no text of more than 8191 bytes, so every row fits by itself.
ASSUME ListAssumption ==
    /\ MaxKey \in Nat \ {0} /\ MaxList \in Nat /\ DefaultLimit \in 1 .. MaxList
    /\ Room \in Nat /\ Wrap \in 0 .. Room
    /\ RowSize \in [Keys -> 0 .. Room - Wrap] /\ NoteSizes \subseteq 0 .. Room

VARIABLES
    keys,           \* the keys in the table kv
    listed,         \* the last answer of GET /api/kv, with its query and the keys there were
    notes, lastId,  \* the table notes, from ids to sizes, and the AUTOINCREMENT sequence
    walk,           \* the client's walk: "none", "on", "done" or "refused"
    limit, offset,  \* of its next request
    seen,           \* the ids it was shown, in order
    stayed,         \* notes that have been there since it began
    deleted         \* notes deleted since it began

kvVars == <<keys, listed>>
walkVars == <<walk, limit, offset, seen>>
noteVars == <<notes, lastId, stayed, deleted>>
listingVars == <<kvVars, walkVars, noteVars>>

-----------------------------------------------------------------------------
(* Queries *)

KeyChars == {"A", "B", "us", "a", "b"}
QueryChars == KeyChars \cup {"+", " ", "%"}

\* Only keys that store_validate_key has let through are stored.
ASSUME KeysAssumption == \A k \in Keys : k \in Seq(KeyChars)
ASSUME QueriesAssumption ==
    \A query \in Queries : query \in Seq([name : {"prefix", "limit"}, text : Seq(QueryChars), num : Int])

\* http_query_get: the first parameter with the name; '+' stands for a space.
HttpQueryGet(query, name) ==
    LET hits == {i \in DOMAIN query : query[i].name = name}
    IN  IF hits = {} THEN [found |-> FALSE, text |-> <<>>, num |-> 0]
        ELSE LET q == query[CHOOSE i \in hits : \A j \in hits : i =< j]
             IN  [found |-> TRUE, num |-> q.num,
                  text |-> [i \in DOMAIN q.text |-> IF q.text[i] = "+" THEN " " ELSE q.text[i]]]

\* parse_limit; 0 when it is refused.
ParseLimit(query) ==
    LET l == HttpQueryGet(query, "limit")
    IN  IF ~l.found THEN DefaultLimit ELSE IF l.num \in 1 .. MaxList THEN l.num ELSE 0

ValidateKey(key) == key # <<>> /\ Len(key) =< MaxKey /\ ToSet(key) \subseteq KeyChars

\* A query that handle_kv_list does not refuse.
Accepted(query) ==
    LET p == HttpQueryGet(query, "prefix")
    IN  Len(p.text) =< MaxKey /\ (p.text = <<>> \/ ValidateKey(p.text)) /\ ParseLimit(query) # 0

-----------------------------------------------------------------------------
(* LIKE and ORDER BY *)

AtMost(s, n) == SubSeq(s, 1, IF Len(s) < n THEN Len(s) ELSE n)

\* Mutant of Pattern: a buffer of the size of the longest key.
PatternShort(prefix) == AtMost(prefix \o <<"%">>, MaxKey - 1)

\* What snprintf puts into a buffer of MaxKey + 2 bytes.
Pattern(prefix) == AtMost(prefix \o <<"%">>, MaxKey + 1)

Lower(c) == CASE c = "A" -> "a" [] c = "B" -> "b" [] OTHER -> c

\* LIKE takes '_' for any character and ignores the case of letters.
Like(pattern, key) ==
    LET open == pattern # <<>> /\ Last(pattern) = "%"
        fixed == IF open THEN Front(pattern) ELSE pattern
    IN  /\ Len(key) >= Len(fixed) /\ (~open => Len(key) = Len(fixed))
        /\ \A i \in DOMAIN fixed : fixed[i] = "us" \/ Lower(fixed[i]) = Lower(key[i])

Rank == [A |-> 1, B |-> 2, us |-> 3, a |-> 4, b |-> 5]

\* The order of sqlite's BINARY collation.
Before(k, l) ==
    \/ IsStrictPrefix(k, l)
    \/ \E i \in DOMAIN k \cap DOMAIN l : Rank[k[i]] < Rank[l[i]] /\ \A j \in 1 .. i - 1 : k[j] = l[j]

\* ORDER BY: in place k + 1 stands the element that has k others before it.
Ordered(S, before(_, _)) ==
    [k \in 1 .. Cardinality(S) |-> CHOOSE x \in S : Cardinality({y \in S : before(y, x)}) = k - 1]

\* store_kv_list
Rows(prefix, n) == AtMost(Ordered({k \in keys : Like(Pattern(prefix), k)}, Before), n)

\* The rows are written one behind the other; the first that cannot be written
\* makes the whole list fail.
ListStatus(sizes) ==
    LET bad == {i \in DOMAIN sizes : sizes[i] = 0 \/ FoldLeft(+, 0, SubSeq(sizes, 1, i)) > Room}
    IN  IF bad = {} THEN 200 ELSE IF sizes[Min(bad)] = 0 THEN 500 ELSE 413

SizesOf(rows) == [i \in DOMAIN rows |-> RowSize[rows[i]]]

\* handle_kv_list behind store_kv_list: a list that fits by itself may not fit its answer.
KvStatus(rows) ==
    IF ListStatus(SizesOf(rows)) # 200 THEN ListStatus(SizesOf(rows))
    ELSE IF FoldLeft(+, 0, SizesOf(rows)) > Room - Wrap THEN 500 ELSE 200

-----------------------------------------------------------------------------

NoList == [query |-> <<>>, status |-> 0, keys |-> {}, rows |-> <<>>]

ListingInit ==
    /\ keys = {} /\ listed = NoList
    /\ notes = <<>> /\ lastId = 0 /\ stayed = {} /\ deleted = 0
    /\ walk = "none" /\ limit \in 1 .. MaxList /\ offset = 0 /\ seen = <<>>

\* PUT or DELETE of a key by anybody.
ChangeKey(k) ==
    /\ keys' \in {keys \cup {k}, keys \ {k}} \ {keys}
    /\ listed' = NoList /\ UNCHANGED <<walkVars, noteVars>>

\* handle_kv_list
KvList(query) ==
    /\ LET rows == Rows(HttpQueryGet(query, "prefix").text, ParseLimit(query))
           status == IF Accepted(query) THEN KvStatus(rows) ELSE 400
       IN  listed' = [query |-> query, status |-> status, keys |-> keys,
                      rows |-> IF status = 200 THEN rows ELSE <<>>]
    /\ UNCHANGED <<keys, walkVars, noteVars>>

CreateNote(size) ==
    /\ lastId < MaxNotes /\ lastId' = lastId + 1
    /\ notes' = [i \in DOMAIN notes \cup {lastId + 1} |-> IF i \in DOMAIN notes THEN notes[i] ELSE size]
    /\ UNCHANGED <<kvVars, walkVars, stayed, deleted>>

DeleteNote(i) ==
    /\ i \in DOMAIN notes /\ notes' = Restrict(notes, DOMAIN notes \ {i}) /\ stayed' = stayed \ {i}
    /\ deleted' = IF walk = "on" THEN deleted + 1 ELSE deleted
    /\ UNCHANGED <<kvVars, walkVars, lastId>>

\* Mutant of Page: the newest first.
PageNewestFirst(n, o) ==
    AtMost(SubSeq(Ordered(DOMAIN notes, >), o + 1, Cardinality(DOMAIN notes)), n)

\* SELECT ... ORDER BY id LIMIT n OFFSET o
Page(n, o) ==
    AtMost(SubSeq(Ordered(DOMAIN notes, <), o + 1, Cardinality(DOMAIN notes)), n)

\* A client asks for the first page.
WalkBegins ==
    /\ walk = "none" /\ walk' = "on"
    /\ stayed' = DOMAIN notes /\ deleted' = 0
    /\ UNCHANGED <<kvVars, limit, offset, seen, notes, lastId>>

\* handle_note_list; a page that is not full is the last one.
WalkPage ==
    /\ walk = "on"
    /\ LET page == Page(limit, offset)
       IN  IF ListStatus([i \in DOMAIN page |-> notes[page[i]]]) = 200
           THEN /\ seen' = seen \o page /\ offset' = offset + limit
                /\ walk' = IF Len(page) < limit THEN "done" ELSE "on"
           ELSE walk' = "refused" /\ UNCHANGED <<seen, offset>>
    /\ UNCHANGED <<kvVars, limit, noteVars>>

\* An answer is looked at until the keys change; asking again would give the same.
KvNext ==
    \/ \E k \in Keys : ChangeKey(k)
    \/ listed = NoList /\ \E query \in Queries : KvList(query)

NotesNext ==
    \/ \E size \in NoteSizes : CreateNote(size)
    \/ \E i \in DOMAIN notes : DeleteNote(i)
    \/ WalkBegins \/ WalkPage

ListingNext == KvNext \/ NotesNext
ListingSpec == ListingInit /\ [][ListingNext]_listingVars

-----------------------------------------------------------------------------
(* Properties *)

\* A key that begins with the prefix is listed, unless the limit is filled with
\* keys before it.  Where the prefix has no underscore and no stored key differs
\* from it in case only, nothing else is listed.  A list fails because of a row
\* that cannot be written, or because several rows do not fit together: asked
\* for one by one, all rows that can be read are listed.
PrefixListing ==
    LET prefix == HttpQueryGet(listed.query, "prefix").text
        begins == {k \in listed.keys : IsPrefix(prefix, k)}
        rows == ToSet(listed.rows)
        page == Rows(prefix, ParseLimit(listed.query))
    IN  /\ listed.status = 200 =>
            /\ \A k \in begins \ rows : /\ Len(listed.rows) = ParseLimit(listed.query)
                                        /\ \A r \in rows : Before(r, k)
            /\ \/ "us" \in ToSet(prefix)
               \/ \E k \in listed.keys \ begins : /\ Len(k) >= Len(prefix)
                                              /\ \A i \in DOMAIN prefix : Lower(k[i]) = Lower(prefix[i])
               \/ rows \subseteq begins
        /\ listed.status \in {413, 500} => Len(page) > 1 \/ \E i \in DOMAIN page : RowSize[page[i]] = 0

\* A client goes from page to page while others create and delete.  No note is
\* shown to it twice; and when it is through it has missed, of the notes that
\* were there all the time, at most as many as were deleted meanwhile.
WalkAddsUp ==
    /\ IsInjective(seen)
    /\ walk = "done" => Cardinality(stayed \ ToSet(seen)) =< deleted
=============================================================================
