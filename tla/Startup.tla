------------------------------ MODULE Startup -------------------------------
(***************************************************************************)
(* main(): the environment and the arguments become a configuration, the   *)
(* configuration a server, and the screens tell of it.  The signals and    *)
(* the inside of server_run are in Process; here server_run just returns.  *)
(***************************************************************************)
EXTENDS Console

CONSTANTS
    Inputs,         \* what the program is started with: env, argv and term
    Number,         \* of each text, the number strtol reads if it reads all of it, else 0
    Ips,            \* texts that inet_pton takes
    Denied,         \* paths whose directory cannot be made
    LongKeys,       \* texts of HTTP_MAX_API_KEY_LEN bytes and more
    MaxPort,        \* SERVER_MAX_PORT (65535)
    MaxThreads      \* MAX_THREADS, and main's limit (64)

\* argv[1] to argv[argc - 1]; a width that the terminal or COLUMNS does not tell is 0.
ASSUME InputsAssumption ==
    \A i \in Inputs : i.argv \in Seq(STRING) /\ i.term.columns \in Nat /\ i.term.env \in Nat

VARIABLES
    pc, input, arg,     \* control of main(), what it was started with, the next argument
    conf,               \* bind, port, threads, db, key; a number is 0 until it is known
    dirMade,            \* ensure_db_dir has gone through the path
    server,             \* the configuration in the Server, with its own copy of the key
    info,               \* the ConsoleInfo of the banner
    signalled, code     \* g_signalled, and what main returned (-1 before)

mainVars == <<pc, input, arg, conf, dirMade, server, info, signalled, code>>
startupVars == <<mainVars, term, screenVars>>

\* An empty text, or a variable that is not set.
NoText == ""

Default == [bind |-> "0.0.0.0", port |-> 8080, threads |-> 8, db |-> "./data/app.db", key |-> NoText]
NoServer == [conf |-> Default, key |-> NoText, live |-> FALSE]
NoInfo == [shown |-> FALSE]

StartupInit ==
    /\ input \in Inputs /\ term = input.term
    /\ pc = "env" /\ arg = 1 /\ conf = Default /\ dirMade = FALSE
    /\ server = NoServer /\ info = NoInfo /\ signalled = FALSE /\ code = -1
    /\ ConsoleInit

\* The number in a text, 0 if it is not one of 1 .. max.
ParseNumber(text, max) == IF Number[text] \in 1 .. max THEN Number[text] ELSE 0

Exit(c) == pc' = "exit" /\ code' = c

-----------------------------------------------------------------------------
(* Environment and arguments *)

\* Mutant of ReadEnv: a bad number in the environment gives way to the default.
ReadEnvLenient ==
    LET env == input.env
        Or(text, default) == IF text = NoText THEN default ELSE text
        Num(text, max, default) == IF ParseNumber(text, max) = 0 THEN default ELSE ParseNumber(text, max)
    IN  /\ pc = "env" /\ pc' = "args"
        /\ conf' = [bind |-> Or(env.bind, Default.bind), db |-> Or(env.db, Default.db), key |-> env.key,
                    port |-> Num(env.port, MaxPort, Default.port),
                    threads |-> Num(env.threads, MaxThreads, Default.threads)]
        /\ UNCHANGED <<input, arg, dirMade, server, info, signalled, code, term, screenVars>>

\* A variable that is empty is as good as none; a bad number ends the program
\* even if an argument would replace it.
ReadEnv ==
    LET env == input.env
        Or(text, default) == IF text = NoText THEN default ELSE text
        Num(text, max, default) == IF text = NoText THEN default ELSE ParseNumber(text, max)
        read == [bind |-> Or(env.bind, Default.bind), db |-> Or(env.db, Default.db), key |-> env.key,
                 port |-> Num(env.port, MaxPort, Default.port),
                 threads |-> Num(env.threads, MaxThreads, Default.threads)]
    IN  /\ pc = "env" /\ conf' = read
        /\ IF read.port = 0 \/ read.threads = 0 THEN Exit(2) ELSE pc' = "args" /\ UNCHANGED code
        /\ UNCHANGED <<input, arg, dirMade, server, info, signalled, term, screenVars>>

FieldOf == [opt \in {"--bind", "--port", "--threads", "--db", "--api-key"} |->
               CASE opt = "--bind" -> "bind" [] opt = "--port" -> "port" [] opt = "--threads" -> "threads"
                 [] opt = "--db" -> "db" [] OTHER -> "key"]

\* What an option makes of its value; 0 or NoText where it refuses it.
Take(opt, text) == CASE opt = "--port" -> ParseNumber(text, MaxPort)
                     [] opt = "--threads" -> ParseNumber(text, MaxThreads)
                     [] OTHER -> text

Refuses(opt, text) == \/ opt \in {"--port", "--threads"} /\ Take(opt, text) = 0
                      \/ opt = "--db" /\ text = NoText

\* Mutant of Argument: an option that was given already keeps its value.
ArgumentFirstWins ==
    LET argv == input.argv
        opt == argv[arg]
        valued == opt \in DOMAIN FieldOf /\ arg < Len(argv)
    IN  /\ pc = "args" /\ arg =< Len(argv)
        /\ IF valued /\ ~Refuses(opt, argv[arg + 1])
           THEN /\ conf' = IF \E j \in 1 .. arg - 1 : argv[j] = opt THEN conf
                           ELSE [conf EXCEPT ![FieldOf[opt]] = Take(opt, argv[arg + 1])]
                /\ arg' = arg + 2 /\ UNCHANGED <<pc, code>>
           ELSE Exit(IF opt \in {"--help", "-h"} THEN 0 ELSE 2) /\ UNCHANGED <<conf, arg>>
        /\ UNCHANGED <<input, dirMade, server, info, signalled, term, screenVars>>

\* One turn of the loop: an option takes whatever comes next as its value; as the
\* last argument it is unknown.
Argument ==
    LET argv == input.argv
        opt == argv[arg]
        valued == opt \in DOMAIN FieldOf /\ arg < Len(argv)
    IN  /\ pc = "args" /\ arg =< Len(argv)
        /\ IF valued /\ ~Refuses(opt, argv[arg + 1])
           THEN /\ conf' = [conf EXCEPT ![FieldOf[opt]] = Take(opt, argv[arg + 1])]
                /\ arg' = arg + 2 /\ UNCHANGED <<pc, code>>
           ELSE Exit(IF opt \in {"--help", "-h"} THEN 0 ELSE 2) /\ UNCHANGED <<conf, arg>>
        /\ UNCHANGED <<input, dirMade, server, info, signalled, term, screenVars>>

\* Behind the loop: the address and the length of the key.
CheckInput ==
    /\ pc = "args" /\ arg > Len(input.argv)
    /\ IF conf.bind \notin Ips \cup {Default.bind} \/ conf.key \in LongKeys
       THEN Exit(2) ELSE pc' = "dir" /\ UNCHANGED code
    /\ UNCHANGED <<input, arg, conf, dirMade, server, info, signalled, term, screenVars>>

-----------------------------------------------------------------------------
(* The server and its screens *)

EnsureDbDir ==
    /\ pc = "dir" /\ dirMade' = TRUE
    /\ IF conf.db \in Denied THEN Exit(2) ELSE pc' = "create" /\ UNCHANGED code
    /\ UNCHANGED <<input, arg, conf, server, info, signalled, term, screenVars>>

\* server_config_validate; the backlog and the queue's size are constants in its range.
ValidConfig(c) ==
    /\ c.port # 0 /\ c.threads \in 1 .. MaxThreads /\ c.db # NoText /\ c.key \notin LongKeys

\* server_create; memory, the mutex or the database may not be had.
Create ==
    /\ pc = "create"
    /\ \/ ValidConfig(conf) /\ server' = [conf |-> conf, key |-> conf.key, live |-> TRUE]
                            /\ pc' = "boot" /\ UNCHANGED code
       \/ Exit(1) /\ UNCHANGED server
    /\ UNCHANGED <<input, arg, conf, dirMade, info, signalled, term, screenVars>>

Boot ==
    /\ pc = "boot" /\ pc' = "banner" /\ Show(BootScreen)
    /\ UNCHANGED <<input, arg, conf, dirMade, server, info, signalled, code, term>>

Banner ==
    /\ pc = "banner" /\ todo = <<>> /\ pc' = "run" /\ Show(BannerScreen)
    /\ info' = [shown |-> TRUE, bind |-> conf.bind, port |-> conf.port, workers |-> conf.threads, db |-> conf.db,
                host |-> IF conf.bind = "0.0.0.0" THEN "127.0.0.1" ELSE conf.bind, auth |-> conf.key # NoText]
    /\ UNCHANGED <<input, arg, conf, dirMade, server, signalled, code, term>>

\* server_run returns, after a signal or not; then the shutdown screen, if there was one.
Run ==
    /\ pc = "run" /\ todo = <<>> /\ pc' \in {"stopped", "failed"}
    /\ signalled' \in BOOLEAN
    /\ Show(IF signalled' THEN ShutdownScreen ELSE <<>>)
    /\ UNCHANGED <<input, arg, conf, dirMade, server, info, code, term>>

\* server_destroy and the result of main.
Destroy ==
    /\ pc \in {"stopped", "failed"} /\ todo = <<>>
    /\ server' = [server EXCEPT !.live = FALSE] /\ Exit(IF pc = "stopped" THEN 0 ELSE 1)
    /\ UNCHANGED <<input, arg, conf, dirMade, info, signalled, term, screenVars>>

StartupNext ==
    \/ ReadEnv \/ Argument \/ CheckInput \/ EnsureDbDir \/ Create \/ Boot \/ Banner \/ Run \/ Destroy
    \/ Draw /\ UNCHANGED <<mainVars, term>>
    \/ pc = "exit" /\ UNCHANGED startupVars

StartupSpec == StartupInit /\ [][StartupNext]_startupVars

-----------------------------------------------------------------------------
(* What the program was asked to do, from the whole command line at once *)

\* The options and values as pairs, up to the first that is none.
Pairs == {i \in DOMAIN input.argv :
             /\ i % 2 = 1 /\ i < Len(input.argv)
             /\ \A j \in 1 .. i : j % 2 = 1 => input.argv[j] \in DOMAIN FieldOf}

\* The value of a field: of its last option, else of the environment's variable
\* if that is not empty, else the default.
Meant(opt) ==
    LET given == {i \in Pairs : input.argv[i] = opt}
        env == input.env[FieldOf[opt]]
    IN  IF given # {} THEN Take(opt, input.argv[Max(given) + 1])
        ELSE IF env # NoText THEN Take(opt, env) ELSE Default[FieldOf[opt]]

\* What main() demands of its input.  Numbers, the path of the database and the
\* form of the command line are judged wherever they stand, PORT and THREADS too
\* where an option replaces them.  The address and the key are judged only as the
\* server will use them: of several --bind the last one counts, and a bad one that
\* it replaces, or a bad BIND_IP, does not matter.
Accepted ==
    /\ \A i \in Pairs : ~Refuses(input.argv[i], input.argv[i + 1])
    /\ 2 * Cardinality(Pairs) = Len(input.argv)
    /\ \A opt \in {"--port", "--threads"} :
           input.env[FieldOf[opt]] # NoText => Take(opt, input.env[FieldOf[opt]]) # 0
    /\ Meant("--bind") \in Ips \cup {"0.0.0.0"} /\ Meant("--api-key") \notin LongKeys

-----------------------------------------------------------------------------
(* Properties *)

\* "CLI overrides env" (main.c's usage): a server runs with the last value of
\* each option, else with the environment's, else with the default; nothing of
\* an unused or an earlier value is left in it.  The banner tells the same: it
\* says PROTECTED exactly if the server asks for a key.
ConfigAsAsked ==
    /\ server # NoServer => \A opt \in DOMAIN FieldOf : server.conf[FieldOf[opt]] = Meant(opt)
    /\ info.shown => /\ info.auth <=> server.key # NoText
                     /\ <<info.bind, info.port, info.workers, info.db>> =
                            <<server.conf.bind, server.conf.port, server.conf.threads, server.conf.db>>

\* main.c says that it "Validates all external input at the boundary (argv/env)".
\* For what it does look at (Accepted), that comes first: an input that fails one of
\* these checks, whatever comes after it, leaves no directory and no server behind,
\* and main returns 2 for nothing else than such an input or a directory that
\* cannot be made.  Of an address or a key that another replaces it says nothing.
BadInputTouchesNothing ==
    /\ ~Accepted => ~dirMade /\ server = NoServer
    /\ code = 2 => ~Accepted \/ (dirMade /\ Meant("--db") \in Denied)
=============================================================================
