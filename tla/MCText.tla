------------------------------- MODULE MCText -------------------------------
(* Bodies, queries and keys for TLC; Codec and Listing side by side. *)
EXTENDS Codec, Listing

Unit(raw, means) == [raw |-> raw, means |-> means]
A == Unit(<<"a">>, "a")
N == Unit(<<"n">>, "n")
Q == Unit(<<"bslash", "quote">>, "quote")
Units == {A, N, Q, Unit(<<"bslash", "bslash">>, "bslash"), Unit(<<"bslash", "n">>, "nl"), Unit(<<"nl">>, "nl"),
          Unit(<<"ctl">>, "ctl"), Unit(<<"nul">>, "nul"), Unit(<<"bslash", "a">>, "bad")}
Str(units) == [kind |-> "str", units |-> units]
Mark(c) == [kind |-> c]

Body(pieces) == [pieces |-> pieces, cut |-> Len(FlattenSeq([i \in DOMAIN pieces |-> Written(pieces[i])]))]
CutBodies(pieces) == {b \in {[pieces |-> SubSeq(pieces, 1, k), cut |-> c] : k \in 0 .. Len(pieces), c \in 0 .. Body(pieces).cut} : Arrives(b)}
SeqUpTo(S, n) == UNION {[1 .. k -> S] : k \in 0 .. n}
Object(units) == <<Mark("lbrace"), Str(<<A>>), Mark("colon"), Str(units), Mark("rbrace")>>

\* One field with every short text, and with texts around every limit.
TextBodies == {Body(Object(u)) : u \in SeqUpTo(Units, 3)
                                       \cup UNION {[1 .. k -> {A, Q}] : k \in {ValueCap - 1, ValueCap}}
                                       \cup UNION {[1 .. k -> {Q}] : k \in 4 .. 7}}

\* Pieces in every order.
ShapeBodies == {Body(p) : p \in SeqUpTo({Mark("lbrace"), Mark("rbrace"), Mark("colon"), Mark("comma"), Str(<<A>>)}, 6)}

\* Two fields: twice the same, names that differ behind a zero byte, names as long as the buffer and
\* longer, spaces, a last comma, and each of them cut anywhere.
Names == {<<A>>, <<N>>, <<A, Unit(<<"nul">>, "nul"), N>>, [i \in 1 .. NameCap - 1 |-> N], [i \in 1 .. NameCap |-> N]}
PairBodies ==
    LET Two(f, g, v, end) == <<Mark("lbrace"), Str(f), Mark("sp"), Mark("colon"), Str(v), Mark("comma"), Mark("nl"), Str(g),
                               Mark("colon"), Str(<<N>>)>> \o end
        ends == {<<Mark("rbrace")>>, <<Mark("comma"), Mark("rbrace"), Mark("sp")>>}
    IN  {Body(Two(f, g, v, e)) : f, g \in Names, v \in {<<A>>, <<A, A, A>>}, e \in ends \cup {<<Mark("rbrace"), Mark("a")>>}}
        \cup UNION {CutBodies(Two(<<A>>, <<N>>, <<Q>>, e)) : e \in ends}

MCBodies == TextBodies \cup ShapeBodies \cup PairBodies

MCFields == {
    [name |-> <<"a">>, cap |-> 7, max |-> 6, empty |-> TRUE, get |-> 13, list |-> 7],
    [name |-> <<"a">>, cap |-> ValueCap + 1, max |-> ValueCap, empty |-> TRUE, get |-> 2 * ValueCap + 1, list |-> 2 * ValueCap + 1],
    [name |-> <<"a">>, cap |-> 3, max |-> 2, empty |-> FALSE, get |-> 5, list |-> 5]}

\* Keys that differ in case, have an underscore, or are as long as can be.
MCKeys == {<<"a">>, <<"A">>, <<"a", "us">>, <<"a", "b">>, <<"us", "b">>, <<"a", "b", "b">>, <<"A", "b", "a">>}

\* One key with a text that cannot be escaped, one with a row as long as can be.
MCRowSize == [k \in MCKeys |-> CASE k = <<"us", "b">> -> 0 [] k = <<"a", "b">> -> 3 [] OTHER -> 1]

Param(name, text, num) == [name |-> name, text |-> text, num |-> num]

MCQueries ==
    LET prefixes == SeqUpTo({"a", "b", "us"}, MaxKey) \cup {<<"a", "+">>, [i \in 1 .. MaxKey + 1 |-> "a"]}
        limits == {<<>>} \cup {<<Param("limit", <<>>, n)>> : n \in 0 .. MaxList + 1}
    IN  limits \cup {<<Param("prefix", p, 0)>> \o l : p \in prefixes, l \in limits}
        \cup {<<Param("prefix", <<"a">>, 0), Param("prefix", <<"b">>, 0)>>}

NoBody == [pieces |-> <<>>, cut |-> 0]

\* Either a body goes through the codec, or one of the tables is listed.
MCSpec ==
    /\ \/ CodecInit /\ keys = {} /\ listed = NoList /\ notes = <<>> /\ lastId = 0 /\ stayed = {} /\ deleted = 0
                    /\ walk = "none" /\ limit = 1 /\ offset = 0 /\ seen = <<>>
       \/ ListingInit /\ body = NoBody /\ field = [name |-> <<>>] /\ stage \in {"keys", "notes"} /\ ptr = 1 /\ found = FALSE
                      /\ out = <<>> /\ result = "none" /\ stored = "none" /\ inGet = <<>> /\ inList = <<>>
    /\ [][ \/ CodecNext /\ UNCHANGED listingVars
           \/ stage = "keys" /\ KvNext /\ UNCHANGED codecVars
           \/ stage = "notes" /\ NotesNext /\ UNCHANGED codecVars ]_<<codecVars, listingVars>>
=============================================================================
