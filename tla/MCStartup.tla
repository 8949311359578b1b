----------------------------- MODULE MCStartup ------------------------------
(* Command lines and terminals for TLC. *)
EXTENDS Startup

NoEnv == [bind |-> "", port |-> "", threads |-> "", db |-> "", key |-> ""]
Pipe == [tty |-> FALSE, columns |-> 0, env |-> 0, locale |-> <<"", "", "">>, noColor |-> FALSE,
         noAnimation |-> FALSE, ci |-> FALSE]

Values == {"", "7", "70", "0", "10.0.0.1", "denied/x", "longkey", "--help"}
MCNumber == [t \in Values \cup {"-h", "--bind", "--port", "--threads", "--db", "--api-key"} |->
                CASE t = "7" -> 7 [] t = "70" -> 70 [] OTHER -> 0]

SeqUpTo(S, n) == UNION {[1 .. k -> S] : k \in 0 .. n}
ValuePairs == {<<o, v>> : o \in DOMAIN FieldOf, v \in Values}

\* Any two arguments under several environments, and any two or three options.
MCInputs ==
    LET Args(argv, env) == [argv |-> argv, env |-> env, term |-> Pipe]
        envs == {NoEnv, [NoEnv EXCEPT !.port = "7", !.key = "7"], [NoEnv EXCEPT !.port = "0"],
                 [NoEnv EXCEPT !.threads = "70"], [NoEnv EXCEPT !.bind = "10.0.0.1", !.db = "denied/x", !.threads = "7"],
                 [NoEnv EXCEPT !.key = "longkey", !.bind = "7"]}
        three == {p \o q \o r : p, q \in {<<"--port", "7">>, <<"--port", "70">>, <<"--api-key", "">>, <<"--api-key", "7">>},
                                r \in ValuePairs \cup {<<"--db">>, <<"-h">>, <<"7">>}}
        locales == {<<"", "", "">>, <<"C", "", "">>, <<"C", "", "UTF-8">>, <<"UTF-8", "", "">>}
        terms == [tty : {TRUE}, columns : {0} \cup 1 .. 90, env : {0}, locale : {<<"", "", "C">>, <<"", "", "UTF-8">>}, noColor : {TRUE},
                  noAnimation : {FALSE}, ci : {FALSE}]
                 \cup [tty : {TRUE}, columns : {0, 49, 100}, env : {0, 60}, locale : locales, noColor : BOOLEAN,
                       noAnimation : BOOLEAN, ci : BOOLEAN]
                 \cup [tty : {FALSE}, columns : {0}, env : {0, 1, 52, 60, 70}, locale : locales, noColor : BOOLEAN,
                       noAnimation : {FALSE}, ci : {FALSE}]
    IN  {Args(argv, env) : argv \in SeqUpTo(DOMAIN MCNumber, 2), env \in envs}
        \cup {Args(p \o q, NoEnv) : p, q \in ValuePairs} \cup {Args(argv, NoEnv) : argv \in three}
        \cup {[argv |-> <<>>, env |-> NoEnv, term |-> t] : t \in terms}
=============================================================================
