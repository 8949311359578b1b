------------------------------- MODULE Router -------------------------------
(***************************************************************************)
(* The decisions of api_dispatch, of the checks that the handlers make     *)
(* before they call the store, and of api_error_status.  A path stands for *)
(* the class of paths that the code tells apart: "kv_key" is /api/kv/ with *)
(* a valid key, "kv_badkey" with any other, "kv_other" is a path such as   *)
(* /api/kvx, "note_badid" is /api/notes/ without a positive number or a    *)
(* path such as /api/notesx, "note_nested" has one more slash.             *)
(***************************************************************************)
EXTENDS Integers, Sequences

Reject(e) == [handler |-> "none", err |-> e]
Run(h) == [handler |-> h, err |-> "OK"]

StatusOf == [BAD_REQUEST |-> 400, MISSING_FIELD |-> 400, INVALID_KEY |-> 400, INVALID_ID |-> 400,
             INVALID_QUERY |-> 400, UNAUTHORIZED |-> 401, FORBIDDEN |-> 403, NOT_FOUND |-> 404,
             METHOD_NOT_ALLOWED |-> 405, LENGTH_REQUIRED |-> 411, PAYLOAD_TOO_LARGE |-> 413,
             UNSUPPORTED_MEDIA |-> 415, INTERNAL |-> 500, NOT_IMPLEMENTED |-> 501]

Success(h) == CASE h = "note_create" -> 201
                [] h \in {"kv_del", "note_del"} -> 204
                [] OTHER -> 200

\* The handler of each method a route accepts.
Routes == [root |-> [GET |-> "root"], health |-> [GET |-> "health"], metrics |-> [GET |-> "metrics"],
           echo |-> [POST |-> "echo"],
           kv |-> [GET |-> "kv_list"],
           kv_key |-> [GET |-> "kv_get", PUT |-> "kv_put", DELETE |-> "kv_del"],
           notes |-> [GET |-> "note_list", POST |-> "note_create"],
           note_id |-> [GET |-> "note_get", PUT |-> "note_update", DELETE |-> "note_del"]]

\* Paths that are refused whatever the method.
Refused == [kv_badkey |-> "INVALID_KEY", kv_other |-> "NOT_FOUND", note_badid |-> "INVALID_ID",
            note_nested |-> "NOT_FOUND", api_other |-> "NOT_FOUND", other |-> "NOT_FOUND"]

Paths == DOMAIN Routes \cup DOMAIN Refused
UnderApi(path) == path \notin {"root", "health", "metrics", "other"}

\* server_auth_check of a server that was started with an API key, or without one.
AuthCheck(protected, r) == CASE ~protected \/ r.key = "right" -> "OK"
                             [] protected /\ r.key = "none" -> "UNAUTHORIZED"
                             [] protected /\ r.key = "wrong" -> "FORBIDDEN"

Route(r) == CASE r.path \in DOMAIN Refused -> Reject(Refused[r.path])
              [] r.path \in DOMAIN Routes /\ r.method \in DOMAIN Routes[r.path] ->
                    Run(Routes[r.path][r.method])
              [] OTHER -> Reject("METHOD_NOT_ALLOWED")

\* Mutant of Dispatch: only PUT and DELETE are taken for writes.
DispatchForgetsPost(protected, r) ==
    IF r.method \in {"PUT", "DELETE"} /\ UnderApi(r.path) /\ AuthCheck(protected, r) # "OK"
    THEN Reject(AuthCheck(protected, r)) ELSE Route(r)

\* api_dispatch: writes under /api/ are authenticated before they are routed.
Dispatch(protected, r) ==
    IF r.method # "GET" /\ UnderApi(r.path) /\ AuthCheck(protected, r) # "OK"
    THEN Reject(AuthCheck(protected, r))
    ELSE Route(r)

\* api_require_json with a required body
RequireJson(r) == CASE r.content_length < 0 -> "LENGTH_REQUIRED"
                    [] r.content_length = 0 -> "BAD_REQUEST"
                    [] r.content_length > 0 /\ ~r.json_type -> "UNSUPPORTED_MEDIA"
                    [] OTHER -> "OK"

\* json_get_string for the handler's fields, and the length of a title.  The
\* body's text is "good", lacks a field, is not JSON, or has a title of no or of
\* too many characters.
JsonError(h, text) ==
    CASE text = "missing" -> IF h = "note_update" THEN "BAD_REQUEST" ELSE "MISSING_FIELD"
      [] text = "malformed" -> "BAD_REQUEST"
      [] text = "emptytitle" /\ h \in {"note_create", "note_update"} -> "BAD_REQUEST"
      [] text = "longtitle" /\ h = "note_create" -> "PAYLOAD_TOO_LARGE"
      [] text = "longtitle" /\ h = "note_update" -> "BAD_REQUEST"
      [] OTHER -> "OK"

\* Parameters that parse_limit, parse_offset or the check of prefix refuse.
QueryError(h, query) ==
    IF query = "badlimit" \/ (h = "kv_list" /\ query = "badprefix") \/ (h = "note_list" /\ query = "badoffset")
    THEN "INVALID_QUERY" ELSE "OK"

\* What a handler finds wrong with a request before it touches the store.
Validate(h, r, text) ==
    CASE h \in {"echo", "kv_put", "note_create", "note_update"} ->
            IF RequireJson(r) = "OK" THEN JsonError(h, text) ELSE RequireJson(r)
      [] h \in {"kv_list", "note_list"} -> QueryError(h, r.query)
      [] OTHER -> "OK"

Writers == {"kv_put", "kv_del", "note_create", "note_update", "note_del"}

\* The calls that a handler makes for a valid request, in their order: which
\* errors each can return, and whether it changes the store when it returns none.
ReadCall(errors) == [errors |-> errors, writes |-> FALSE]
WriteCall(errors) == [errors |-> errors, writes |-> TRUE]

Calls(h) ==
    CASE h = "kv_put" -> <<WriteCall({"INTERNAL"}), ReadCall({"INTERNAL"})>>
      [] h = "kv_get" -> <<ReadCall({"NOT_FOUND", "INTERNAL"}), ReadCall({"INTERNAL"})>>
      [] h \in {"kv_del", "note_del"} -> <<WriteCall({"NOT_FOUND", "INTERNAL"})>>
      [] h = "note_create" -> <<WriteCall({"INTERNAL"}), ReadCall({"NOT_FOUND", "INTERNAL"})>>
      [] h = "note_update" -> <<WriteCall({"NOT_FOUND", "INTERNAL"}), ReadCall({"NOT_FOUND", "INTERNAL"})>>
      [] h = "note_get" -> <<ReadCall({"NOT_FOUND", "INTERNAL"})>>
      [] h \in {"kv_list", "note_list"} -> <<ReadCall({"PAYLOAD_TOO_LARGE", "INTERNAL"})>>
      [] h \in {"echo", "metrics"} -> <<ReadCall({"INTERNAL"})>>
      [] h \in {"root", "health"} -> <<>>

Effect(e, w) == [err |-> e, wrote |-> w]

\* How a valid request can end: a handler returns at its first call that fails,
\* with that call's error, and what the calls before it wrote stays written.
Outcomes(h) ==
    LET calls == Calls(h)
        Wrote(n) == \E i \in 1 .. n : calls[i].writes
    IN  {Effect("OK", Wrote(Len(calls)))}
            \cup UNION {{Effect(e, Wrote(n - 1)) : e \in calls[n].errors} : n \in DOMAIN calls}
=============================================================================
