------------------------------- MODULE Codec --------------------------------
(***************************************************************************)
(* A text on its way through the server: the body of a request, written by *)
(* the client as pieces of JSON and possibly cut short, goes through       *)
(* json_get_string, is stored as a C string, and comes out again through   *)
(* json_escape in the answer to a GET and in a list.                       *)
(*                                                                         *)
(* A character is a name for its class: "a" and "n" are letters (the       *)
(* latter also the letter of an escape), "nl" is a newline, "ctl" any      *)
(* other control character, "nul" the zero byte, "lbrace" and "rbrace" are *)
(* the braces of an object.                                                *)
(***************************************************************************)
EXTENDS Integers, SequencesExt

CONSTANTS
    NameCap,        \* size of json_get_string's buffer for names (128)
    ValueCap,       \* and for values (8192)
    Fields,         \* the fields handlers ask for: name, size of the handler's buffer (cap),
                    \* longest text the store takes (max), whether it may be empty, and
                    \* the buffers of json_escape for one row (get) and for lists (list)
    Bodies          \* what clients send: pieces, and how many characters of them arrive

\* Sizes as the code orders them: an escaped value of the longest kind that the
\* parser lets through fits the buffers of the answers.
ASSUME SizesAssumption ==
    /\ NameCap \in Nat \ {0} /\ ValueCap \in Nat \ {0}
    /\ \A f \in Fields : f.max \in Nat /\ f.cap = f.max + 1 /\ f.get \in Nat /\ f.list \in Nat
    /\ \A f \in Fields : LET longest == IF f.cap < ValueCap THEN f.cap - 1 ELSE ValueCap - 1
                         IN  f.get > 2 * longest /\ f.list > 2 * longest

VARIABLES
    body, field,    \* the request: its pieces and cut, and the handler's field
    stage,          \* "open", "turn", "store", "encode" or "done"
    ptr, found,     \* of json_get_string
    out,            \* the text for the handler, a C string
    result, stored, \* what json_get_string and the store's check of the text returned
    inGet, inList   \* the text as json_escape puts it in the answers, or Failed

codecVars == <<body, field, stage, ptr, found, out, result, stored, inGet, inList>>

Failed == <<"failed">>
Spaces == {"sp", "nl"}

\* Mutant of Escape: a backslash is not escaped.
EscapeForgetsBackslash(c) == CASE c = "quote" -> <<"bslash", "quote">>
                               [] c = "nl" -> <<"bslash", "n">>
                               [] OTHER -> <<c>>

\* Escapes: what stands behind the backslash, and what it means.
Unescape == [quote |-> "quote", bslash |-> "bslash", n |-> "nl"]

Escape(c) == CASE c = "quote" -> <<"bslash", "quote">>
               [] c = "bslash" -> <<"bslash", "bslash">>
               [] c = "nl" -> <<"bslash", "n">>
               [] OTHER -> <<c>>

\* What strlen and strcmp see of a buffer.
CString(s) == IF \E i \in DOMAIN s : s[i] = "nul"
              THEN SubSeq(s, 1, (CHOOSE i \in DOMAIN s : s[i] = "nul" /\ \A j \in 1 .. i - 1 : s[j] # "nul") - 1)
              ELSE s

-----------------------------------------------------------------------------
(* What a client sends *)

\* A piece is a character between strings or, as "str", a sequence of units:
\* what is written, and what it means ("bad" for an escape that there is not).
Written(p) == IF p.kind = "str"
              THEN <<"quote">> \o FlattenSeq([i \in DOMAIN p.units |-> p.units[i].raw]) \o <<"quote">>
              ELSE <<p.kind>>

All(b) == FlattenSeq([i \in DOMAIN b.pieces |-> Written(b.pieces[i])])
Chars(b) == SubSeq(All(b), 1, b.cut)

Classes == {"a", "n", "quote", "bslash", "sp", "nl", "ctl", "nul", "lbrace", "rbrace", "colon", "comma"}

TextUnits ==
    {[raw |-> <<c>>, means |-> c] : c \in Classes \ {"quote", "bslash"}}
    \cup {[raw |-> <<"bslash", c>>, means |-> IF c \in DOMAIN Unescape THEN Unescape[c] ELSE "bad"] : c \in Classes}

Pieces == [kind : Classes \ {"quote"}] \cup [kind : {"str"}, units : Seq(TextUnits)]

\* The pieces are those of which a character arrives; of the last one the end may
\* be missing.  Every text is such a body: a string is whatever follows a quote.
Arrives(b) ==
    /\ b.pieces \in Seq(Pieces) /\ b.cut \in 0 .. Len(All(b))
    /\ b.pieces # <<>> => Len(All(b)) - b.cut < Len(Written(Last(b.pieces)))

ASSUME BodiesAssumption == \A b \in Bodies : Arrives(b)

-----------------------------------------------------------------------------
(* json.c *)

SkipSpaces(s, p) == CHOOSE q \in p .. Len(s) + 1 :
                        /\ q > Len(s) \/ s[q] \notin Spaces
                        /\ \A i \in p .. q - 1 : s[i] \in Spaces

NoString == [next |-> 0, text |-> <<>>]

Put(c, rest) == IF rest = NoString THEN NoString ELSE [rest EXCEPT !.text = <<c>> \o @]

\* parse_quoted from the quote at p, into a buffer of cap bytes.
ParseQuoted(s, p, cap) ==
    LET scan[i \in p + 1 .. Len(s) + 2] ==
            IF i > Len(s) THEN NoString
            ELSE IF s[i] = "quote" THEN [next |-> i + 1, text |-> <<>>]
            ELSE IF s[i] # "bslash" THEN Put(s[i], scan[i + 1])
            ELSE IF i < Len(s) /\ s[i + 1] \in DOMAIN Unescape THEN Put(Unescape[s[i + 1]], scan[i + 2])
            ELSE NoString
    IN  IF p > Len(s) \/ s[p] # "quote" \/ Len(scan[p + 1].text) >= cap THEN NoString ELSE scan[p + 1]

JsonEscape(s, cap) ==
    LET e == FlattenSeq([i \in DOMAIN s |-> Escape(s[i])])
    IN  IF "ctl" \in ToSet(s) \/ Len(e) + 1 > cap THEN Failed ELSE e

-----------------------------------------------------------------------------
(* json_get_string, one turn of its loop at a time, and what handlers do with it *)

CodecInit ==
    /\ body \in Bodies /\ field \in Fields
    /\ stage = "open" /\ ptr = 1 /\ found = FALSE /\ out = <<>>
    /\ result = "none" /\ stored = "none" /\ inGet = <<>> /\ inList = <<>>

Return(r) ==
    /\ result' = r /\ stage' = IF r = "OK" THEN "store" ELSE "done"
    /\ UNCHANGED <<ptr, found, out>>

OpenObject ==
    /\ stage = "open"
    /\ LET s == Chars(body)
           p == SkipSpaces(s, 1)
           opens == p =< Len(s) /\ s[p] = "lbrace"
       IN  \/ ~opens /\ Return("BAD_REQUEST")
           \/ opens /\ ptr' = p + 1 /\ stage' = "turn" /\ UNCHANGED <<found, out, result>>
    /\ UNCHANGED <<body, field, stored, inGet, inList>>

\* Mutant of ValueBuffer: values are decoded into a buffer of the caller's size.
ValueBufferOfCaller == field.cap

\* The size of the local buffer `value`, whatever the caller's buffer.
ValueBuffer == ValueCap

\* The end of the object: only spaces may follow.
CloseObject ==
    /\ stage = "turn"
    /\ LET s == Chars(body)
           p == SkipSpaces(s, ptr)
       IN  \/ p > Len(s) /\ Return("BAD_REQUEST")
           \/ /\ p =< Len(s) /\ s[p] = "rbrace"
              /\ Return(IF SkipSpaces(s, p + 1) =< Len(s) THEN "BAD_REQUEST"
                        ELSE IF found THEN "OK" ELSE "MISSING_FIELD")
    /\ UNCHANGED <<body, field, stored, inGet, inList>>

\* A name, a colon, a string, and a comma or the closing brace.  A comma may
\* also stand before the brace.
Pair ==
    /\ stage = "turn"
    /\ LET s == Chars(body)
           p == SkipSpaces(s, ptr)
           At(i, cs) == i =< Len(s) /\ s[i] \in cs
           name == ParseQuoted(s, p, NameCap)
           colon == SkipSpaces(s, name.next)
           value == ParseQuoted(s, SkipSpaces(s, colon + 1), ValueBuffer)
           after == SkipSpaces(s, value.next)
           mine == CString(name.text) = field.name
           text == CString(value.text)
       IN  /\ p =< Len(s) /\ s[p] # "rbrace"
           /\ IF name = NoString \/ ~At(colon, {"colon"}) \/ value = NoString \/ (mine /\ found)
              THEN Return("BAD_REQUEST")
              ELSE IF mine /\ Len(text) + 1 > field.cap THEN Return("PAYLOAD_TOO_LARGE")
              ELSE IF ~At(after, {"comma", "rbrace"}) THEN Return("BAD_REQUEST")
              ELSE /\ ptr' = IF s[after] = "comma" THEN after + 1 ELSE after
                   /\ found' = (found \/ mine) /\ out' = IF mine THEN text ELSE out
                   /\ UNCHANGED <<stage, result>>
    /\ UNCHANGED <<body, field, stored, inGet, inList>>

\* validate_value and validate_note_fields (of which only the title may not be
\* empty).  The handlers' buffers hold one byte more than the store takes, so a
\* text that got this far is never too large.
Valid(text) == IF ~field.empty /\ (text = <<>> \/ Len(text) > field.max) THEN "BAD_REQUEST"
               ELSE IF Len(text) > field.max THEN "PAYLOAD_TOO_LARGE" ELSE "OK"

\* The store checks the text and binds it, as a C string.
Store ==
    /\ stage = "store"
    /\ stored' = Valid(out) /\ stage' = IF Valid(out) = "OK" THEN "encode" ELSE "done"
    /\ UNCHANGED <<body, field, ptr, found, out, result, inGet, inList>>

\* Any later read: by itself, and in a list.
Encode ==
    /\ stage = "encode" /\ stage' = "done"
    /\ inGet' = JsonEscape(out, field.get) /\ inList' = JsonEscape(out, field.list)
    /\ UNCHANGED <<body, field, ptr, found, out, result, stored>>

CodecNext == OpenObject \/ Pair \/ CloseObject \/ Store \/ Encode
CodecSpec == CodecInit /\ [][CodecNext]_codecVars

-----------------------------------------------------------------------------
(* What a body means, without its characters *)

Meaning(p) == [i \in DOMAIN p.units |-> p.units[i].means]

Bare(b) == FlattenSeq([i \in DOMAIN b.pieces |-> IF b.pieces[i].kind \in Spaces THEN <<>> ELSE <<b.pieces[i]>>])

\* What the i-th piece of an object is, but for the closing brace, and how long
\* a string may be there.
Expected(i) == IF i = 1 THEN "lbrace" ELSE IF i % 4 \in {0, 2} THEN "str" ELSE IF i % 4 = 3 THEN "colon" ELSE "comma"
Limit(i) == IF i % 4 = 2 THEN NameCap ELSE ValueCap

InPlace(p, i) ==
    /\ p.kind = Expected(i)
    /\ p.kind = "str" => "bad" \notin ToSet(Meaning(p)) /\ Len(p.units) < Limit(i)

\* An object of strings, each within its buffer, of which nothing was cut off; a
\* comma may come before the brace.
WellFormed(b) ==
    LET P == Bare(b)
        n == Len(P)
    IN  /\ b.cut = Len(All(b))
        /\ n >= 2 /\ n % 4 \in {1, 2} /\ P[n].kind = "rbrace"
        /\ \A i \in 1 .. n - 1 : InPlace(P[i], i)

\* The places of the names that strcmp takes for the field's.
Mine(b) == {i \in DOMAIN Bare(b) : i % 4 = 2 /\ Bare(b)[i].kind = "str" /\ CString(Meaning(Bare(b)[i])) = field.name}

ValueAt(b, i) == CString(Meaning(Bare(b)[i + 2]))

-----------------------------------------------------------------------------
(* Properties *)

\* json_get_string finds the field exactly in a well-formed object with one such
\* field that fits, and returns its text up to a zero byte; it misses the field
\* exactly in a well-formed object without it; and it finds a text too large
\* only if it is.  No cut, wrong piece, wrong escape or repeated name gets
\* through, and no text of 8192 bytes or more, whatever the caller allows.
ParsesAsSpecified ==
    /\ result = "OK" <=> /\ result # "none" /\ WellFormed(body)
                         /\ \E i \in Mine(body) : /\ Mine(body) = {i} /\ out = ValueAt(body, i)
                                                  /\ Len(ValueAt(body, i)) < field.cap
    /\ result = "MISSING_FIELD" <=> result # "none" /\ WellFormed(body) /\ Mine(body) = {}
    /\ result = "PAYLOAD_TOO_LARGE" => \E i \in Mine(body) : Len(ValueAt(body, i)) >= field.cap

\* What the store accepted is what the client reads later, unless it has a
\* control character: then, and only then, it can be stored and never be read.
ReadsBack ==
    stage = "done" /\ stored = "OK" =>
        IF "ctl" \in ToSet(out) THEN inGet = Failed
        ELSE ParseQuoted(<<"quote">> \o inGet \o <<"quote">>, 1, Len(inGet) + 1).text = out

\* A row that can be read can be listed: the escaped text fits the smaller
\* buffer of store_kv_list, because the parser let no longer text in.
ListsWhatItServes == inGet # Failed => inList = inGet
=============================================================================
