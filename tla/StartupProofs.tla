--------------------------- MODULE StartupProofs ----------------------------
(***************************************************************************)
(* Proofs about main(): what any command line and any environment make of  *)
(* the configuration, and that nothing is touched before all of it is read.*)
(***************************************************************************)
EXTENDS Startup, FiniteSetTheorems, TLAPS

Options == {"--bind", "--port", "--threads", "--db", "--api-key"}
ConfFields == {"bind", "port", "threads", "db", "key"}

\* Each option has a field of its own.
LEMMA FieldOfIs ==
    /\ DOMAIN FieldOf = Options
    /\ FieldOf["--bind"] = "bind" /\ FieldOf["--port"] = "port" /\ FieldOf["--threads"] = "threads"
    /\ FieldOf["--db"] = "db" /\ FieldOf["--api-key"] = "key"
    /\ \A o \in Options : FieldOf[o] \in ConfFields
    /\ \A o, q \in Options : FieldOf[o] = FieldOf[q] => o = q
BY DEF FieldOf, Options, ConfFields

\* What the environment asks for.
EnvValue(opt) ==
    IF input.env[FieldOf[opt]] # NoText THEN Take(opt, input.env[FieldOf[opt]]) ELSE Default[FieldOf[opt]]

\* The places of options: 1, 3, 5, ... as far as the loop of main() has come.
Given == {i \in 1 .. arg - 1 : i % 2 = 1}

\* The last option of a kind among those read so far gives its field the value v.
LastGives(opt, v) ==
    \/ v = EnvValue(opt) /\ \A i \in Given : input.argv[i] # opt
    \/ \E i \in Given : /\ input.argv[i] = opt /\ v = Take(opt, input.argv[i + 1])
                        /\ \A j \in Given : j > i => input.argv[j] # opt

EnvGood ==
    \A opt \in {"--port", "--threads"} :
        input.env[FieldOf[opt]] # NoText => Take(opt, input.env[FieldOf[opt]]) # 0

\* What is known of the arguments read so far.
ArgsRead ==
    /\ input \in Inputs /\ EnvGood
    /\ arg \in 1 .. Len(input.argv) + 1 /\ arg % 2 = 1
    /\ \A i \in Given : input.argv[i] \in Options /\ ~Refuses(input.argv[i], input.argv[i + 1])
    /\ DOMAIN conf = ConfFields
    /\ \A opt \in Options : LastGives(opt, conf[FieldOf[opt]])

\* All of the input was read and found good.
Complete ==
    /\ ArgsRead /\ arg > Len(input.argv)
    /\ conf.bind \in Ips \cup {"0.0.0.0"} /\ conf.key \notin LongKeys

\* The arguments are texts.
LEMMA ArgvIs ==
    ASSUME NEW i \in Inputs
    PROVE  Len(i.argv) \in Nat /\ DOMAIN i.argv = 1 .. Len(i.argv)
BY InputsAssumption

\* Half of the numbers up to an even one are odd.
LEMMA OddCount ==
    ASSUME NEW k \in Nat
    PROVE  Cardinality({i \in 1 .. 2 * k : i % 2 = 1}) = k /\ IsFiniteSet({i \in 1 .. 2 * k : i % 2 = 1})
<1> DEFINE S == {i \in 1 .. 2 * k : i % 2 = 1}
           f == [j \in 1 .. k |-> 2 * j - 1]
<1>1. f \in Bijection(1 .. k, S)
  <2>1. \A j \in 1 .. k : 2 * j - 1 \in S
    OBVIOUS
  <2>2. \A i \in S : \E j \in 1 .. k : 2 * j - 1 = i
    <3> TAKE i \in S
    <3>1. PICK q \in Int : i = 2 * q + 1
      OBVIOUS
    <3>2. q + 1 \in 1 .. k /\ 2 * (q + 1) - 1 = i
      BY <3>1
    <3>3. QED
      BY <3>2
  <2>3. QED
    BY <2>1, <2>2 DEF Bijection, Injection, Surjection, IsInjective
<1>2. IsFiniteSet(1 .. k) /\ Cardinality(1 .. k) = k
  BY FS_Interval
<1>3. QED
  BY <1>1, <1>2, FS_Bijection DEF ExistsBijection

\* Where all options read so far are good, the pairs of the command line that lie
\* behind the loop are the ones it has read.
LEMMA PairsRead ==
    ASSUME ArgsRead
    PROVE  /\ Given \subseteq Pairs /\ Len(input.argv) \in Nat /\ arg \in Nat
           /\ Cardinality(Given) \in Nat /\ 2 * Cardinality(Given) = arg - 1
           /\ arg > Len(input.argv) => Pairs = Given
           /\ arg =< Len(input.argv) /\ input.argv[arg] \notin Options => Pairs = Given
<1>1. Len(input.argv) \in Nat /\ DOMAIN input.argv = 1 .. Len(input.argv) /\ arg \in Nat
  BY ArgvIs DEF ArgsRead
<1>2. Given \subseteq Pairs
  <2> SUFFICES ASSUME NEW i \in Given PROVE i \in Pairs
    OBVIOUS
  <2>1. i \in 1 .. Len(input.argv) /\ i % 2 = 1 /\ i < arg
    BY <1>1 DEF Given, ArgsRead
  <2>2. i < Len(input.argv)
    BY <1>1, <2>1 DEF ArgsRead
  <2>3. \A j \in 1 .. i : j % 2 = 1 => input.argv[j] \in DOMAIN FieldOf
    BY <1>1, <2>1, FieldOfIs DEF ArgsRead, Given
  <2>4. QED
    BY <1>1, <2>1, <2>2, <2>3 DEF Pairs
<1>3. Cardinality(Given) \in Nat /\ 2 * Cardinality(Given) = arg - 1
  <2>1. PICK k \in Nat : arg = 2 * k + 1
    BY <1>1 DEF ArgsRead
  <2>2. Given = {i \in 1 .. 2 * k : i % 2 = 1}
    BY <2>1 DEF Given
  <2>3. Cardinality(Given) = k
    BY <2>2, OddCount
  <2>4. QED
    BY <2>1, <2>3
<1>4. arg > Len(input.argv) => Pairs = Given
  BY <1>1, <1>2 DEF Pairs, Given
<1>5. ASSUME arg =< Len(input.argv), input.argv[arg] \notin Options PROVE Pairs \subseteq Given
  <2> SUFFICES ASSUME NEW i \in Pairs PROVE i \in Given
    OBVIOUS
  <2>1. /\ i \in 1 .. Len(input.argv) /\ i % 2 = 1
        /\ \A j \in 1 .. i : j % 2 = 1 => input.argv[j] \in Options
    BY <1>1, FieldOfIs DEF Pairs
  <2>2. ~(arg =< i)
    BY <1>1, <1>5, <2>1 DEF ArgsRead
  <2>3. QED
    BY <1>1, <2>1, <2>2 DEF Given
<1>6. QED
  BY <1>1, <1>2, <1>3, <1>4, <1>5

\* With the whole command line read, the configuration is what was meant.
LEMMA ConfIsMeant ==
    ASSUME ArgsRead, arg > Len(input.argv), NEW opt \in Options
    PROVE  Meant(opt) = conf[FieldOf[opt]]
<1> DEFINE v == conf[FieldOf[opt]]
           given == {i \in Pairs : input.argv[i] = opt}
<1>1. Pairs = Given /\ arg \in Nat
  BY PairsRead
<1>2. CASE v = EnvValue(opt) /\ \A i \in Given : input.argv[i] # opt
  <2>1. given = {}
    BY <1>1, <1>2
  <2>2. QED
    BY <1>2, <2>1 DEF Meant, EnvValue
<1>3. ASSUME NEW i \in Given, input.argv[i] = opt, v = Take(opt, input.argv[i + 1]),
             \A j \in Given : j > i => input.argv[j] # opt
      PROVE  Meant(opt) = v
  <2>1. i \in given /\ \A j \in given : j \in Nat /\ i >= j
    BY <1>1, <1>3 DEF Given
  <2>2. \A x \in given : (\A y \in given : x >= y) => x = i
    BY <2>1
  <2>3. Max(given) = i
    BY <2>1, <2>2, Zenon DEF Max
  <2>4. given # {}
    BY <2>1
  <2>5. QED
    BY <1>3, <2>3, <2>4 DEF Meant
<1>4. LastGives(opt, v)
  BY DEF ArgsRead
<1>5. QED
  BY <1>2, <1>3, <1>4 DEF LastGives

\* Input that was read to its end has passed every check.
LEMMA CompleteIsAccepted ==
    ASSUME Complete
    PROVE  Accepted
<1>1. Pairs = Given /\ 2 * Cardinality(Pairs) = arg - 1 /\ Len(input.argv) \in Nat /\ arg = Len(input.argv) + 1
  BY PairsRead DEF Complete, ArgsRead
<1>2. Meant("--bind") = conf.bind /\ Meant("--api-key") = conf.key
  BY ConfIsMeant, FieldOfIs DEF Complete, Options
<1>3. 2 * Cardinality(Pairs) = Len(input.argv)
  BY <1>1
<1>4. \A i \in Pairs : ~Refuses(input.argv[i], input.argv[i + 1])
  BY <1>1 DEF Complete, ArgsRead
<1>5. QED
  BY <1>2, <1>3, <1>4 DEF Accepted, Complete, ArgsRead, EnvGood

-----------------------------------------------------------------------------
(* The steps that read the input *)

\* ReadEnv takes the environment as it is meant, or finds a bad number in it.
LEMMA ReadEnvStep ==
    ASSUME input \in Inputs, arg = 1, ReadEnv
    PROVE  /\ pc' = "args" => ArgsRead'
           /\ pc' = "exit" => ~Accepted
           /\ pc' \in {"args", "exit"}
<1> DEFINE env == input.env
           port == IF env.port = NoText THEN 8080 ELSE ParseNumber(env.port, MaxPort)
           threads == IF env.threads = NoText THEN 8 ELSE ParseNumber(env.threads, MaxThreads)
<1>1. /\ conf' = [bind |-> IF env.bind = NoText THEN "0.0.0.0" ELSE env.bind,
                  db |-> IF env.db = NoText THEN "./data/app.db" ELSE env.db, key |-> env.key,
                  port |-> port, threads |-> threads]
      /\ \/ (port = 0 \/ threads = 0) /\ pc' = "exit"
         \/ ~(port = 0 \/ threads = 0) /\ pc' = "args"
      /\ UNCHANGED <<input, arg>>
  BY DEF ReadEnv, Exit, Default
<1>2. /\ port = 0 => env.port # NoText /\ Take("--port", env.port) = 0
      /\ threads = 0 => env.threads # NoText /\ Take("--threads", env.threads) = 0
  BY DEF Take
<1>3. ASSUME pc' = "exit" PROVE ~Accepted
  BY <1>1, <1>2, <1>3, FieldOfIs DEF Accepted
<1>4. ASSUME pc' = "args" PROVE ArgsRead'
  <2>1. EnvGood
    BY <1>1, <1>4, FieldOfIs DEF EnvGood, Take
  <2>2. EnvGood'
    BY <1>1, <2>1 DEF EnvGood
  <2>3. Len(input.argv) \in Nat
    BY ArgvIs
  <2>4. Given' = {} /\ arg' \in 1 .. Len(input.argv) + 1 /\ arg' % 2 = 1
    BY <1>1, <2>3 DEF Given
  <2>5. DOMAIN conf' = ConfFields
    BY <1>1 DEF ConfFields
  <2>6. \A opt \in Options : conf'[FieldOf[opt]] = EnvValue(opt)
    <3>1. conf'["bind"] = EnvValue("--bind")
      BY <1>1, FieldOfIs DEF EnvValue, Default, Take
    <3>2. conf'["db"] = EnvValue("--db")
      BY <1>1, FieldOfIs DEF EnvValue, Default, Take
    <3>3. conf'["key"] = EnvValue("--api-key")
      BY <1>1, FieldOfIs DEF EnvValue, Default, Take
    <3>4. conf'["port"] = EnvValue("--port")
      BY <1>1, FieldOfIs DEF EnvValue, Default, Take
    <3>5. conf'["threads"] = EnvValue("--threads")
      BY <1>1, FieldOfIs DEF EnvValue, Default, Take
    <3>6. QED
      BY <3>1, <3>2, <3>3, <3>4, <3>5, FieldOfIs DEF Options
  <2>7. \A opt \in Options : EnvValue(opt)' = EnvValue(opt)
    BY <1>1 DEF EnvValue
  <2>8. \A opt \in Options : LastGives(opt, conf[FieldOf[opt]])'
    BY <2>4, <2>6, <2>7 DEF LastGives
  <2>9. QED
    BY <1>1, <2>2, <2>4, <2>5, <2>8 DEF ArgsRead
<1>5. QED
  BY <1>1, <1>3, <1>4

\* One turn of the loop over argv: another option is taken, or the input is bad
\* (code 2), or help was asked for (code 0).
LEMMA ArgumentStep ==
    ASSUME ArgsRead, Argument
    PROVE  \/ pc' = pc /\ code' = code /\ ArgsRead'
           \/ pc' = "exit" /\ code' = 0
           \/ pc' = "exit" /\ code' = 2 /\ ~Accepted
<1> DEFINE argv == input.argv
           opt == argv[arg]
           valued == opt \in DOMAIN FieldOf /\ arg < Len(argv)
<1>0. /\ Len(argv) \in Nat /\ DOMAIN argv = 1 .. Len(argv) /\ arg \in Nat /\ arg =< Len(argv)
      /\ UNCHANGED input
  BY ArgvIs DEF ArgsRead, Argument
<1>1. CASE valued /\ ~Refuses(opt, argv[arg + 1])
  <2>1. /\ conf' = [conf EXCEPT ![FieldOf[opt]] = Take(opt, argv[arg + 1])]
        /\ arg' = arg + 2 /\ pc' = pc /\ code' = code
    BY <1>1 DEF Argument
  <2>2. opt \in Options /\ arg % 2 = 1
    BY <1>1, FieldOfIs DEF ArgsRead
  <2>3. arg' \in 1 .. Len(argv) + 1 /\ arg' % 2 = 1
    BY <1>0, <1>1, <2>1, <2>2
  <2>4. Given' = Given \cup {arg} /\ \A i \in Given : i < arg
    BY <1>0, <2>1, <2>2 DEF Given
  <2>5. \A i \in Given' : argv[i] \in Options /\ ~Refuses(argv[i], argv[i + 1])
    BY <1>1, <2>2, <2>4 DEF ArgsRead
  <2>6. DOMAIN conf' = ConfFields
    BY <2>1 DEF ArgsRead
  <2>7. \A q \in Options : LastGives(q, conf[FieldOf[q]])'
    <3> SUFFICES ASSUME NEW q \in Options PROVE LastGives(q, conf[FieldOf[q]])'
      OBVIOUS
    <3>1. EnvValue(q)' = EnvValue(q)
      BY <1>0 DEF EnvValue
    <3>2. CASE q = opt
      <4>1. conf'[FieldOf[q]] = Take(q, argv[arg + 1])
        BY <2>1, <2>2, <3>2, FieldOfIs DEF ArgsRead
      <4>2. \A j \in Given' : ~(j > arg)
        BY <1>0, <2>4 DEF Given
      <4>3. QED
        BY <1>0, <2>4, <3>2, <4>1, <4>2 DEF LastGives
    <3>3. CASE q # opt
      <4>1. conf'[FieldOf[q]] = conf[FieldOf[q]]
        BY <2>1, <2>2, <3>3, FieldOfIs DEF ArgsRead
      <4>2. LastGives(q, conf[FieldOf[q]])
        BY DEF ArgsRead
      <4>3. QED
        BY <1>0, <2>4, <3>1, <3>3, <4>1, <4>2 DEF LastGives
    <3>4. QED
      BY <3>2, <3>3
  <2>8. EnvGood'
    BY <1>0 DEF EnvGood, ArgsRead
  <2>9. ArgsRead'
    BY <1>0, <2>3, <2>5, <2>6, <2>7, <2>8 DEF ArgsRead
  <2>10. QED
    BY <2>1, <2>9
<1>2. CASE ~(valued /\ ~Refuses(opt, argv[arg + 1]))
  <2>1. pc' = "exit" /\ code' = IF opt \in {"--help", "-h"} THEN 0 ELSE 2
    BY <1>2 DEF Argument, Exit
  <2>2. CASE opt \notin Options
    <3>1. Pairs = Given /\ 2 * Cardinality(Given) = arg - 1
      BY <1>0, <2>2, PairsRead
    <3>2. 2 * Cardinality(Pairs) # Len(argv)
      BY <1>0, <3>1
    <3>3. QED
      BY <2>1, <3>2 DEF Accepted
  <2>3. CASE opt \in Options /\ ~(arg < Len(argv))
    <3>0. PICK k \in Nat : arg = 2 * k + 1
      BY <1>0 DEF ArgsRead
    <3>1. Len(argv) = 2 * k + 1
      BY <1>0, <2>3, <3>0
    <3>2. Cardinality(Pairs) \in Nat
      <4>1. \A i \in Pairs : i \in Nat /\ i =< Len(argv)
        BY <1>0 DEF Pairs
      <4>2. IsFiniteSet(Pairs)
        BY <1>0, <4>1, FS_BoundedSetOfNaturals
      <4>3. QED
        BY <4>2, FS_CardinalityType
    <3>3. 2 * Cardinality(Pairs) # Len(argv)
      BY <1>0, <3>1, <3>2
    <3>4. QED
      BY <2>1, <2>3, <3>3 DEF Accepted, Options
  <2>4. CASE opt \in Options /\ arg < Len(argv) /\ Refuses(opt, argv[arg + 1])
    <3>1. \A j \in 1 .. arg : j % 2 = 1 => argv[j] \in DOMAIN FieldOf
      BY <1>0, <2>4, FieldOfIs DEF ArgsRead, Given
    <3>2. arg \in Pairs
      BY <1>0, <2>4, <3>1 DEF Pairs, ArgsRead
    <3>3. QED
      BY <2>1, <2>4, <3>2 DEF Accepted, Options
  <2>5. QED
    BY <1>2, <2>2, <2>3, <2>4, FieldOfIs
<1>3. QED
  BY <1>1, <1>2

\* The checks behind the loop.
LEMMA CheckInputStep ==
    ASSUME ArgsRead, CheckInput
    PROVE  \/ pc' = "dir" /\ code' = code /\ Complete'
           \/ pc' = "exit" /\ code' = 2 /\ ~Accepted
<1>1. arg > Len(input.argv) /\ UNCHANGED <<input, arg, conf>> /\ Default.bind = "0.0.0.0"
  BY DEF CheckInput, Default
<1>2. Meant("--bind") = conf.bind /\ Meant("--api-key") = conf.key
  BY <1>1, ConfIsMeant, FieldOfIs DEF Options
<1>3. CASE conf.bind \notin Ips \cup {Default.bind} \/ conf.key \in LongKeys
  BY <1>1, <1>2, <1>3 DEF CheckInput, Exit, Accepted
<1>4. CASE ~(conf.bind \notin Ips \cup {Default.bind} \/ conf.key \in LongKeys)
  <2>1. ArgsRead'
    BY <1>1 DEF ArgsRead, EnvGood, Given, LastGives, EnvValue
  <2>2. pc' = "dir" /\ code' = code
    BY <1>4 DEF CheckInput
  <2>3. QED
    BY <1>1, <1>4, <2>1, <2>2 DEF Complete
<1>5. QED
  BY <1>3, <1>4

-----------------------------------------------------------------------------
(* The invariant *)

\* No directory, no server, no banner.
Untouched == dirMade = FALSE /\ server = NoServer /\ info = NoInfo

BannerOf(c) == [shown |-> TRUE, bind |-> c.bind, port |-> c.port, workers |-> c.threads, db |-> c.db,
                host |-> IF c.bind = "0.0.0.0" THEN "127.0.0.1" ELSE c.bind, auth |-> c.key # NoText]

\* The server and the banner have the configuration of main().
Served == DOMAIN server = {"conf", "key", "live"} /\ server.conf = conf /\ server.key = conf.key
Told == info = NoInfo \/ (info = BannerOf(conf) /\ Served)

StartupInv ==
    /\ input \in Inputs /\ dirMade \in BOOLEAN
    /\ pc \in {"env", "args", "dir", "create", "boot", "banner", "run", "stopped", "failed", "exit"}
    /\ pc # "exit" => code = -1
    /\ pc = "env" => Untouched /\ arg = 1
    /\ pc = "args" => Untouched /\ ArgsRead
    /\ pc = "dir" => Untouched /\ Complete
    /\ pc = "create" => Complete /\ server = NoServer /\ info = NoInfo
    /\ pc \in {"boot", "banner", "run", "stopped", "failed"} => Complete /\ Served /\ Told
    /\ pc = "exit" =>
          \/ Untouched /\ (code = 2 => ~Accepted)
          \/ /\ Complete /\ (server = NoServer \/ Served) /\ Told
             /\ code = 2 => dirMade = TRUE /\ conf.db \in Denied

\* The judgement of the input depends on nothing but the input.
LEMMA JudgedByInput ==
    ASSUME UNCHANGED input
    PROVE  Accepted' = Accepted
BY DEF Accepted, Pairs, Meant

\* What a step that changes neither the configuration nor the place in argv keeps.
LEMMA ReadKept ==
    ASSUME UNCHANGED <<input, arg, conf>>
    PROVE  /\ ArgsRead => ArgsRead'
           /\ Complete => Complete'
BY DEF ArgsRead, Complete, EnvGood, Given, LastGives, EnvValue

\* The step of the invariant.
LEMMA StartupStep ==
    ASSUME StartupInv, [StartupNext]_startupVars
    PROVE  StartupInv'
<1>1. CASE ReadEnv
  <2>1. /\ pc = "env" /\ Untouched /\ arg = 1 /\ input \in Inputs /\ code = -1
        /\ UNCHANGED <<input, dirMade, server, info>>
        /\ pc' = "args" => code' = code
    BY <1>1 DEF ReadEnv, StartupInv, Exit
  <2>2. (pc' = "args" => ArgsRead') /\ (pc' = "exit" => ~Accepted) /\ pc' \in {"args", "exit"}
    BY <1>1, <2>1, ReadEnvStep
  <2>3. Untouched' /\ dirMade' \in BOOLEAN
    BY <2>1 DEF Untouched
  <2>4. Accepted' = Accepted
    BY <2>1, JudgedByInput
  <2>5. QED
    BY <2>1, <2>2, <2>3, <2>4 DEF StartupInv
<1>2. CASE Argument
  <2>1. /\ pc = "args" /\ Untouched /\ ArgsRead /\ input \in Inputs /\ code = -1
        /\ UNCHANGED <<input, dirMade, server, info>>
    BY <1>2 DEF Argument, StartupInv
  <2>2. \/ pc' = pc /\ code' = code /\ ArgsRead'
        \/ pc' = "exit" /\ code' = 0
        \/ pc' = "exit" /\ code' = 2 /\ ~Accepted
    BY <1>2, <2>1, ArgumentStep
  <2>3. Untouched' /\ dirMade' \in BOOLEAN
    BY <2>1 DEF Untouched
  <2>4. Accepted' = Accepted
    BY <2>1, JudgedByInput
  <2>5. QED
    BY <2>1, <2>2, <2>3, <2>4 DEF StartupInv
<1>3. CASE CheckInput
  <2>1. /\ pc = "args" /\ Untouched /\ ArgsRead /\ input \in Inputs /\ code = -1
        /\ UNCHANGED <<input, dirMade, server, info>>
    BY <1>3 DEF CheckInput, StartupInv
  <2>2. \/ pc' = "dir" /\ code' = code /\ Complete'
        \/ pc' = "exit" /\ code' = 2 /\ ~Accepted
    BY <1>3, <2>1, CheckInputStep
  <2>3. Untouched' /\ dirMade' \in BOOLEAN
    BY <2>1 DEF Untouched
  <2>4. Accepted' = Accepted
    BY <2>1, JudgedByInput
  <2>5. QED
    BY <2>1, <2>2, <2>3, <2>4 DEF StartupInv
<1>4. CASE EnsureDbDir
  <2>1. /\ pc = "dir" /\ Untouched /\ Complete /\ input \in Inputs /\ code = -1
        /\ UNCHANGED <<input, arg, conf, server, info>> /\ dirMade' = TRUE
        /\ \/ pc' = "create" /\ code' = code
           \/ pc' = "exit" /\ code' = 2 /\ conf.db \in Denied
    BY <1>4 DEF EnsureDbDir, StartupInv, Exit
  <2>2. Complete'
    BY <2>1, ReadKept
  <2>3. QED
    BY <2>1, <2>2 DEF StartupInv, Untouched, Told
<1>5. CASE Create
  <2>1. /\ pc = "create" /\ Complete /\ server = NoServer /\ info = NoInfo /\ input \in Inputs /\ code = -1
        /\ UNCHANGED <<input, arg, conf, info, dirMade>> /\ dirMade \in BOOLEAN
        /\ \/ pc' = "boot" /\ code' = code /\ server' = [conf |-> conf, key |-> conf.key, live |-> TRUE]
           \/ pc' = "exit" /\ code' = 1 /\ server' = server
    BY <1>5 DEF Create, StartupInv, Exit
  <2>2. Complete'
    BY <2>1, ReadKept
  <2>3. pc' = "boot" => Served'
    BY <2>1 DEF Served
  <2>4. QED
    BY <2>1, <2>2, <2>3 DEF StartupInv, Told
<1>6. CASE Banner
  <2>1. /\ pc = "banner" /\ pc' = "run" /\ Complete /\ Served /\ input \in Inputs /\ code = -1
        /\ UNCHANGED <<input, arg, conf, server, dirMade, code>> /\ dirMade \in BOOLEAN
        /\ info' = BannerOf(conf)
    BY <1>6 DEF Banner, StartupInv, BannerOf
  <2>2. Complete'
    BY <2>1, ReadKept
  <2>3. Served' /\ Told'
    BY <2>1 DEF Served, Told, BannerOf
  <2>4. QED
    BY <2>1, <2>2, <2>3 DEF StartupInv
<1>7. CASE Boot \/ Run
  <2>1. /\ pc \in {"boot", "run"} /\ pc' \in {"banner", "stopped", "failed"}
        /\ Complete /\ Served /\ Told /\ input \in Inputs /\ code = -1
        /\ UNCHANGED <<input, arg, conf, server, dirMade, code, info>> /\ dirMade \in BOOLEAN
    BY <1>7 DEF Boot, Run, StartupInv
  <2>2. Complete'
    BY <2>1, ReadKept
  <2>3. Served' /\ Told'
    BY <2>1 DEF Served, Told, BannerOf
  <2>4. QED
    BY <2>1, <2>2, <2>3 DEF StartupInv
<1>8. CASE Destroy
  <2>1. /\ pc \in {"stopped", "failed"} /\ pc' = "exit" /\ code' \in {0, 1}
        /\ Complete /\ Served /\ Told /\ input \in Inputs
        /\ UNCHANGED <<input, arg, conf, dirMade, info>> /\ dirMade \in BOOLEAN
        /\ server' = [server EXCEPT !.live = FALSE]
    BY <1>8 DEF Destroy, StartupInv, Exit
  <2>2. Complete'
    BY <2>1, ReadKept
  <2>3. DOMAIN server' = DOMAIN server /\ server'.conf = server.conf /\ server'.key = server.key
    BY <2>1 DEF Served
  <2>4. Served' /\ Told'
    BY <2>1, <2>3 DEF Served, Told, BannerOf
  <2>5. QED
    BY <2>1, <2>2, <2>4 DEF StartupInv
<1>9. CASE UNCHANGED mainVars
  <2>1. UNCHANGED <<pc, input, arg, conf, dirMade, server, info, code>>
    BY <1>9 DEF mainVars
  <2>2. (ArgsRead => ArgsRead') /\ (Complete => Complete')
    BY <2>1, ReadKept
  <2>3. Accepted' = Accepted
    BY <2>1, JudgedByInput
  <2>4. Untouched' = Untouched /\ Served' = Served /\ Told' = Told
    BY <2>1 DEF Untouched, Served, Told, BannerOf
  <2>5. QED
    BY <2>1, <2>2, <2>3, <2>4 DEF StartupInv
<1>10. QED
  BY <1>1, <1>2, <1>3, <1>4, <1>5, <1>6, <1>7, <1>8, <1>9 DEF StartupNext, startupVars

\* The invariant holds in every reachable state.
LEMMA StartupInvHolds == StartupSpec => []StartupInv
<1>1. StartupInit => StartupInv
  BY DEF StartupInit, StartupInv, Untouched
<1>2. StartupInv /\ [StartupNext]_startupVars => StartupInv'
  BY StartupStep
<1>3. QED
  BY <1>1, <1>2, PTL DEF StartupSpec

-----------------------------------------------------------------------------
(***************************************************************************)
(* The screens.  An output has five arguments at most, and makes four      *)
(* calls at most for them.                                                 *)
(***************************************************************************)

Chains == {Text, Painted, <<"make">>, MadeAndPainted}
ArgLists == UNION {[1 .. n -> Chains] : n \in 1 .. 5}

CallsFor(args, a) == IF a \in DOMAIN args THEN Len(args[a]) ELSE 0
CallsOf(args) == CallsFor(args, 1) + CallsFor(args, 2) + CallsFor(args, 3) + CallsFor(args, 4) + CallsFor(args, 5)

GoodArgs == {args \in ArgLists : CallsOf(args) =< 4}

\* Outputs of such arguments.
Drawable == [args : GoodArgs, cells : Int, lost : Int, bytes : Int, cap : Int]

\* The chains are texts of zero, one or two calls.
LEMMA ChainLengths ==
    /\ Len(Text) = 0 /\ Len(Painted) = 1 /\ Len(<<"make">>) = 1 /\ Len(MadeAndPainted) = 2
    /\ \A c \in Chains : Len(c) \in Nat /\ Len(c) =< 2
BY DEF Text, Painted, MadeAndPainted, Chains

\* The lists of arguments that the screens use.
LEMMA ArgShapes ==
    /\ \A c \in Chains : <<c>> \in GoodArgs
    /\ \A c, d \in Chains : <<c, d>> \in GoodArgs
    /\ \A c \in Chains : <<c, Painted, Painted>> \in GoodArgs
    /\ <<Painted, Painted, Text>> \in GoodArgs /\ <<Painted, Text, Painted>> \in GoodArgs
    /\ <<Painted, Text, Text>> \in GoodArgs
    /\ <<Painted, Painted, Text, Text>> \in GoodArgs /\ <<Painted, Painted, Painted, Painted>> \in GoodArgs
    /\ <<Painted, Text, Painted, Text, Painted>> \in GoodArgs
<1>0. Text \in Chains /\ Painted \in Chains
  BY DEF Chains
<1>1. ASSUME NEW c \in Chains PROVE <<c>> \in GoodArgs
  <2>1. <<c>> \in ArgLists
    <3>1. <<c>> \in [1 .. 1 -> Chains]
      OBVIOUS
    <3>2. QED
      BY <3>1 DEF ArgLists
  <2>2. CallsOf(<<c>>) =< 4
    <3>1. Len(c) \in Nat /\ Len(c) =< 2
      BY ChainLengths
    <3>2. QED
      BY <3>1 DEF CallsOf, CallsFor
  <2>3. QED
    BY <2>1, <2>2 DEF GoodArgs
<1>2. ASSUME NEW c \in Chains, NEW d \in Chains PROVE <<c, d>> \in GoodArgs
  <2>1. <<c, d>> \in ArgLists
    <3>1. <<c, d>> \in [1 .. 2 -> Chains]
      OBVIOUS
    <3>2. QED
      BY <3>1 DEF ArgLists
  <2>2. CallsOf(<<c, d>>) =< 4
    <3>1. Len(c) \in Nat /\ Len(c) =< 2 /\ Len(d) \in Nat /\ Len(d) =< 2
      BY ChainLengths
    <3>2. QED
      BY <3>1 DEF CallsOf, CallsFor
  <2>3. QED
    BY <2>1, <2>2 DEF GoodArgs
<1>3. ASSUME NEW c \in Chains, NEW d \in Chains, NEW e \in Chains, Len(c) + Len(d) + Len(e) =< 4
      PROVE  <<c, d, e>> \in GoodArgs
  <2>1. <<c, d, e>> \in ArgLists
    <3>1. <<c, d, e>> \in [1 .. 3 -> Chains]
      OBVIOUS
    <3>2. QED
      BY <3>1 DEF ArgLists
  <2>2. CallsOf(<<c, d, e>>) =< 4
    BY <1>3, ChainLengths DEF CallsOf, CallsFor
  <2>3. QED
    BY <2>1, <2>2 DEF GoodArgs
<1>4. ASSUME NEW c \in Chains, NEW d \in Chains, NEW e \in Chains, NEW f \in Chains,
             Len(c) + Len(d) + Len(e) + Len(f) =< 4
      PROVE  <<c, d, e, f>> \in GoodArgs
  <2>1. <<c, d, e, f>> \in ArgLists
    <3>1. <<c, d, e, f>> \in [1 .. 4 -> Chains]
      OBVIOUS
    <3>2. QED
      BY <3>1 DEF ArgLists
  <2>2. CallsOf(<<c, d, e, f>>) =< 4
    BY <1>4, ChainLengths DEF CallsOf, CallsFor
  <2>3. QED
    BY <2>1, <2>2 DEF GoodArgs
<1>5. <<Painted, Text, Painted, Text, Painted>> \in GoodArgs
  <2>1. <<Painted, Text, Painted, Text, Painted>> \in ArgLists
    <3>1. <<Painted, Text, Painted, Text, Painted>> \in [1 .. 5 -> Chains]
      BY <1>0
    <3>2. QED
      BY <3>1 DEF ArgLists
  <2>2. CallsOf(<<Painted, Text, Painted, Text, Painted>>) =< 4
    <3> DEFINE args == <<Painted, Text, Painted, Text, Painted>>
    <3>1. Len(Text) = 0 /\ Len(Painted) = 1
      BY ChainLengths
    <3>2. CallsFor(args, 1) = 1 /\ CallsFor(args, 3) = 1 /\ CallsFor(args, 5) = 1
      BY <3>1 DEF CallsFor
    <3>3. CallsFor(args, 2) = 0 /\ CallsFor(args, 4) = 0
      BY <3>1 DEF CallsFor
    <3>4. QED
      BY <3>2, <3>3 DEF CallsOf
  <2>3. QED
    BY <2>1, <2>2 DEF GoodArgs
<1>6. \A c \in Chains : <<c, Painted, Painted>> \in GoodArgs
  <2>1. \A c \in Chains : Len(c) + Len(Painted) + Len(Painted) =< 4
    BY ChainLengths
  <2>2. QED
    BY <1>0, <1>3, <2>1
<1>7. /\ <<Painted, Painted, Text>> \in GoodArgs /\ <<Painted, Text, Painted>> \in GoodArgs
      /\ <<Painted, Text, Text>> \in GoodArgs
  <2>1. /\ Len(Painted) + Len(Painted) + Len(Text) =< 4 /\ Len(Painted) + Len(Text) + Len(Painted) =< 4
        /\ Len(Painted) + Len(Text) + Len(Text) =< 4
    BY ChainLengths
  <2>2. QED
    BY <1>0, <1>3, <2>1
<1>8. <<Painted, Painted, Text, Text>> \in GoodArgs /\ <<Painted, Painted, Painted, Painted>> \in GoodArgs
  <2>1. /\ Len(Painted) + Len(Painted) + Len(Text) + Len(Text) =< 4
        /\ Len(Painted) + Len(Painted) + Len(Painted) + Len(Painted) =< 4
    BY ChainLengths
  <2>2. QED
    BY <1>0, <1>4, <2>1
<1>9. QED
  BY <1>1, <1>2, <1>5, <1>6, <1>7, <1>8

\* A sequence repeated has the same elements.
LEMMA TimesIs ==
    ASSUME NEW S, NEW n \in Nat, NEW outputs \in Seq(S), Len(outputs) \in {1, 3}
    PROVE  Times(n, outputs) \in Seq(S)
<1>1. \A i \in 1 .. n * Len(outputs) : ((i - 1) % Len(outputs)) + 1 \in 1 .. Len(outputs)
  OBVIOUS
<1>2. \A i \in 1 .. n * Len(outputs) : outputs[((i - 1) % Len(outputs)) + 1] \in S
  BY <1>1
<1>3. n * Len(outputs) \in Nat
  OBVIOUS
<1>4. QED
  BY <1>2, <1>3 DEF Times

\* console_width keeps the box between the least and the greatest width.
LEMMA WidthIs ==
    ASSUME term.columns \in Nat, term.env \in Nat
    PROVE  /\ Width \in Int /\ MinWidth =< Width /\ Width =< MaxWidth /\ Inner = Width - 2
           /\ Columns > MinWidth => Width < Columns
<1>1. Columns \in Nat
  BY WidthAssumption DEF Columns
<1>2. QED
  BY <1>1, WidthAssumption DEF Width, Inner

\* Colour and Unicode are on or off for a whole screen.
LEMMA GlyphIs ==
    /\ Paint = 0 \/ Paint = 17
    /\ \A u, a : Glyph(u, a) = u \/ Glyph(u, a) = a
BY DEF Paint, Glyph

\* A rule that fits its buffer is not cut.
LEMMA RepeatIs ==
    ASSUME NEW count \in Nat, 3 * count + 1 < RuleBuffer
    PROVE  Repeat(count) = count
<1> DEFINE S == {k \in 0 .. count : k = 0 \/ k * Glyph(3, 1) + 1 < RuleBuffer}
<1>1. count * Glyph(3, 1) + 1 < RuleBuffer
  <2>1. RuleBuffer \in Int
    BY WidthAssumption DEF RuleBuffer
  <2>2. CASE Glyph(3, 1) = 3
    BY <2>2
  <2>3. CASE Glyph(3, 1) = 1
    BY <2>1, <2>3
  <2>4. QED
    BY <2>2, <2>3, GlyphIs
<1>2. count \in S /\ \A k \in S : k \in Nat /\ count >= k
  BY <1>1
<1>3. \A x \in S : (\A y \in S : x >= y) => x = count
  BY <1>2
<1>4. Max(S) = count
  BY <1>2, <1>3, Zenon DEF Max
<1>5. QED
  BY <1>4 DEF Repeat

\* Outputs as BoxIsWhole wants them, where the least width is the code's.
Good == {o \in Drawable : /\ o.cells = 0 \/ o.cells = Width
                          /\ 48 =< MinWidth => o.lost = 0
                          /\ o.bytes < o.cap}

\* An output is good by its own measures,
LEMMA OutputIsGood ==
    ASSUME NEW args \in GoodArgs, NEW cells \in Int, NEW lost \in Int, NEW bytes \in Int, NEW cap \in Int,
           cells = 0 \/ cells = Width, 48 =< MinWidth => lost = 0, bytes < cap
    PROVE  Output(args, cells, lost, bytes, cap) \in Good
<1>1. Output(args, cells, lost, bytes, cap) \in Drawable
  BY DEF Output, Drawable
<1>2. /\ Output(args, cells, lost, bytes, cap).cells = cells
      /\ Output(args, cells, lost, bytes, cap).lost = lost
      /\ Output(args, cells, lost, bytes, cap).bytes = bytes
      /\ Output(args, cells, lost, bytes, cap).cap = cap
  BY DEF Output
<1>3. QED
  BY <1>1, <1>2 DEF Good

\* an snprintf if it fits its buffer,
LEMMA CopyIsGood ==
    ASSUME NEW chain \in Chains, NEW bytes \in Int, NEW cap \in Int, bytes < cap
    PROVE  Copy(chain, bytes, cap) \in Good
<1>1. <<chain>> \in GoodArgs
  BY ArgShapes
<1>2. Output(<<chain>>, 0, 0, bytes, cap) \in Good
  BY <1>1, OutputIsGood
<1>3. QED
  BY <1>2 DEF Copy

\* a printf outside the box by its arguments,
LEMMA PrintfIsGood ==
    ASSUME NEW args \in GoodArgs
    PROVE  Printf(args) \in Good
<1>1. Output(args, 0, 0, 0, 1) \in Good
  BY OutputIsGood
<1>2. QED
  BY <1>1 DEF Printf

\* a line of the box if it is as wide as the box,
LEMMA LineIsGood ==
    ASSUME NEW args \in GoodArgs, Width \in Int, NEW lost \in Int, 48 =< MinWidth => lost = 0
    PROVE  Line(args, Width, lost) \in Good
<1>1. Output(args, Width, lost, 0, 1) \in Good
  BY OutputIsGood
<1>2. QED
  BY <1>1 DEF Line

\* and a copied rule if its buffer takes it in the widest glyph.
LEMMA CopyRuleIsGood ==
    ASSUME NEW count \in Nat, 3 * count + 1 < RuleBuffer
    PROVE  CopyRule(count) \in Good
<1>1. RuleBuffer + 32 \in Int /\ RuleBuffer \in Int
  BY WidthAssumption DEF RuleBuffer
<1>2. count * Glyph(3, 1) \in Int /\ count * Glyph(3, 1) =< 3 * count
  <2>1. CASE Glyph(3, 1) = 3
    BY <2>1
  <2>2. CASE Glyph(3, 1) = 1
    BY <2>2
  <2>3. QED
    BY <2>1, <2>2, GlyphIs
<1>3. count * Glyph(3, 1) + Paint \in Int /\ count * Glyph(3, 1) + Paint < RuleBuffer + 32
  BY <1>1, <1>2, GlyphIs
<1>4. Painted \in Chains
  BY DEF Chains
<1>5. Copy(Painted, count * Glyph(3, 1) + Paint, RuleBuffer + 32) \in Good
  BY <1>1, <1>3, <1>4, CopyIsGood
<1>6. QED
  BY <1>5, RepeatIs DEF CopyRule

\* The pieces of the box.
LEMMA BoxIsGood ==
    ASSUME term.columns \in Nat, term.env \in Nat
    PROVE  /\ DrawRule \in Seq(Good) /\ DrawBlank \in Seq(Good) /\ DrawClosing \in Seq(Good)
           /\ \A used, extra \in Nat : used =< 44 /\ extra =< 4 => DrawRow(used, extra) \in Seq(Good)
<1>0. /\ Width \in Int /\ MinWidth =< Width /\ Width =< MaxWidth /\ Inner = Width - 2
      /\ MinWidth \in Nat /\ MaxWidth \in Nat /\ 16 =< MinWidth
  BY WidthIs, WidthAssumption
<1>1. <<Painted, Text, Painted>> \in GoodArgs /\ <<Painted, Text, Painted, Text, Painted>> \in GoodArgs
  BY ArgShapes
<1>2. RuleBuffer = MaxWidth * 4 + 16 /\ RowBuffer = MaxWidth * 2 + 16
  BY DEF RuleBuffer, RowBuffer
<1>3. Line(<<Painted, Text, Painted>>, Width, 0) \in Good /\ MadeAndPainted \in Chains /\ <<"make">> \in Chains
  BY <1>0, <1>1, LineIsGood DEF Chains
<1>4. DrawRule \in Seq(Good)
  <2>1. Inner \in Nat /\ 3 * Inner + 1 < RuleBuffer
    BY <1>0, <1>2
  <2>2. CopyRule(Inner) \in Good
    BY <2>1, CopyRuleIsGood
  <2>3. 1 + Repeat(Inner) + 1 = Width
    BY <1>0, <2>1, RepeatIs
  <2>4. QED
    BY <1>3, <2>2, <2>3 DEF DrawRule
<1>5. DrawBlank \in Seq(Good)
  <2>1. Inner \in Int /\ RowBuffer \in Int /\ Inner < RowBuffer /\ 1 + Inner + 1 = Width
    BY <1>0, <1>2
  <2>2. Copy(<<"make">>, Inner, RowBuffer) \in Good
    BY <1>3, <2>1, CopyIsGood
  <2>3. QED
    BY <1>3, <2>1, <2>2 DEF DrawBlank
<1>6. DrawClosing \in Seq(Good)
  <2> DEFINE lead == (Inner - 6) \div 2
             trail == Inner - 6 - lead
  <2>1. lead \in Nat /\ trail \in Nat /\ lead + trail = Inner - 6
    BY <1>0
  <2> HIDE DEF lead, trail
  <2>2. 3 * lead + 1 < RuleBuffer /\ 3 * trail + 1 < RuleBuffer
    BY <1>0, <1>2, <2>1
  <2>3. CopyRule(lead) \in Good /\ CopyRule(trail) \in Good
    BY <2>1, <2>2, CopyRuleIsGood
  <2>4. 1 + Repeat(lead) + 6 + Repeat(trail) + 1 = Width
    <3>1. Repeat(lead) = lead /\ Repeat(trail) = trail
      BY <2>1, <2>2, RepeatIs
    <3>2. QED
      BY <1>0, <2>1, <3>1
  <2>5. Line(<<Painted, Text, Painted, Text, Painted>>, Width, 0) \in Good
    BY <1>0, <1>1, LineIsGood
  <2>6. DrawClosing = <<CopyRule(lead), CopyRule(trail),
                        Line(<<Painted, Text, Painted, Text, Painted>>, 1 + Repeat(lead) + 6 + Repeat(trail) + 1, 0)>>
    BY DEF DrawClosing, lead, trail
  <2>7. QED
    BY <2>3, <2>4, <2>5, <2>6
<1>7. ASSUME NEW used \in Nat, NEW extra \in Nat, used =< 44, extra =< 4 PROVE DrawRow(used, extra) \in Seq(Good)
  <2> DEFINE kept == IF used > RowRoom THEN RowRoom ELSE used
  <2>1. RowRoom = Width - 4
    BY <1>0 DEF RowRoom
  <2>2. kept \in Int /\ kept < Inner /\ used - kept \in Int /\ (48 =< MinWidth => used - kept = 0)
    BY <1>0, <1>7, <2>1
  <2> HIDE DEF kept
  <2>3. Centered(kept, Inner) = Inner
    BY <1>0, <2>2 DEF Centered
  <2>4. Inner + extra + Paint \in Int /\ RowBuffer \in Int /\ Inner + extra + Paint < RowBuffer
    BY <1>0, <1>2, <1>7, GlyphIs
  <2>5. Copy(MadeAndPainted, Inner + extra + Paint, RowBuffer) \in Good
    BY <1>3, <2>4, CopyIsGood
  <2>6. Line(<<Painted, Text, Painted>>, Width, used - kept) \in Good
    BY <1>0, <1>1, <2>2, LineIsGood
  <2>7. 1 + Inner + 1 = Width
    BY <1>0
  <2>8. DrawRow(used, extra) = <<Copy(MadeAndPainted, Centered(kept, Inner) + extra + Paint, RowBuffer),
                                 Line(<<Painted, Text, Painted>>, 1 + Centered(kept, Inner) + 1, used - kept)>>
    BY DEF DrawRow, kept
  <2>9. QED
    BY <2>3, <2>5, <2>6, <2>7, <2>8
<1>8. QED
  BY <1>4, <1>5, <1>6, <1>7

\* console_print_banner
LEMMA BannerIsGood ==
    ASSUME term.columns \in Nat, term.env \in Nat
    PROVE  BannerScreen \in Seq(Good)
<1> DEFINE Heading == <<Printf(<<Painted, Painted, Text>>)>>
           Two == <<Printf(<<Painted, Painted>>)>>
           Fact == <<Printf(<<MadeAndPainted, Text>>)>>
           Auth == <<Printf(<<MadeAndPainted, Painted>>)>>
           Status == <<Printf(<<MadeAndPainted, Painted, Painted>>)>>
           Endpoint == <<Printf(<<Painted, Painted, Painted, Painted>>)>>
           Place == <<Printf(<<Painted, Text, Text>>)>>
           RowA == DrawRow(14 + 2 * Rad, Glyph(4, 0))
           RowB == DrawRow(22 + 2 * Rad, Glyph(4, 0))
           RowC == DrawRow(37, Glyph(3, 0))
           RowD == DrawRow(25, 0)
<1>1. /\ Heading \in Seq(Good) /\ Two \in Seq(Good) /\ Fact \in Seq(Good) /\ Auth \in Seq(Good)
      /\ Status \in Seq(Good) /\ Endpoint \in Seq(Good) /\ Place \in Seq(Good)
  <2>0. Painted \in Chains /\ Text \in Chains /\ MadeAndPainted \in Chains
    BY DEF Chains
  <2>1. /\ <<Painted, Painted, Text>> \in GoodArgs /\ <<Painted, Painted>> \in GoodArgs
        /\ <<MadeAndPainted, Text>> \in GoodArgs /\ <<MadeAndPainted, Painted>> \in GoodArgs
        /\ <<MadeAndPainted, Painted, Painted>> \in GoodArgs
        /\ <<Painted, Painted, Painted, Painted>> \in GoodArgs /\ <<Painted, Text, Text>> \in GoodArgs
    BY <2>0, ArgShapes
  <2>2. \A args \in GoodArgs : <<Printf(args)>> \in Seq(Good)
    BY PrintfIsGood
  <2>3. QED
    BY <2>1, <2>2
<1>2. Len(Two) = 1 /\ Len(Fact) = 1 /\ Len(Status) = 1 /\ Len(Endpoint) = 1
  OBVIOUS
<1>3. RowA \in Seq(Good) /\ RowB \in Seq(Good) /\ RowC \in Seq(Good) /\ RowD \in Seq(Good)
  <2>1. Rad = 1 \/ Rad = 11
    BY GlyphIs DEF Rad
  <2>2. (Glyph(4, 0) = 4 \/ Glyph(4, 0) = 0) /\ (Glyph(3, 0) = 3 \/ Glyph(3, 0) = 0)
    BY GlyphIs
  <2>3. \A used, extra \in Nat : used =< 44 /\ extra =< 4 => DrawRow(used, extra) \in Seq(Good)
    BY BoxIsGood
  <2>4. 14 + 2 * Rad \in Nat /\ 14 + 2 * Rad =< 44 /\ 22 + 2 * Rad \in Nat /\ 22 + 2 * Rad =< 44
    BY <2>1
  <2>5. Glyph(4, 0) \in Nat /\ Glyph(4, 0) =< 4 /\ Glyph(3, 0) \in Nat /\ Glyph(3, 0) =< 4
    BY <2>2
  <2>6. RowA \in Seq(Good)
    BY <2>3, <2>4, <2>5
  <2>7. RowB \in Seq(Good)
    BY <2>3, <2>4, <2>5
  <2>8. RowC \in Seq(Good)
    BY <2>3, <2>5
  <2>9. RowD \in Seq(Good)
    BY <2>3
  <2>10. QED
    BY <2>6, <2>7, <2>8, <2>9
<1>4. DrawRule \in Seq(Good) /\ DrawBlank \in Seq(Good) /\ DrawClosing \in Seq(Good)
  BY BoxIsGood
<1> HIDE DEF Heading, Two, Fact, Auth, Status, Endpoint, Place, RowA, RowB, RowC, RowD
<1>5. /\ Times(4, Endpoint) \in Seq(Good) /\ Times(3, Fact) \in Seq(Good) /\ Times(3, Two) \in Seq(Good)
      /\ Times(2, Status) \in Seq(Good)
  BY <1>1, <1>2, TimesIs
<1>6. BannerScreen =
          DrawRule \o DrawBlank \o RowA \o DrawBlank \o RowB \o DrawBlank \o RowC
          \o DrawBlank \o RowD \o DrawBlank \o DrawClosing
          \o Heading \o Two \o Heading \o Times(4, Endpoint)
          \o Place \o Times(3, Fact) \o Auth
          \o Heading \o Times(3, Two) \o Heading \o Times(2, Status) \o Auth
  BY DEF BannerScreen, Heading, Two, Fact, Auth, Status, Endpoint, Place, RowA, RowB, RowC, RowD
<1>7. \A x, y \in Seq(Good) : x \o y \in Seq(Good)
  OBVIOUS
<1>8. DrawRule \o DrawBlank \o RowA \o DrawBlank \o RowB \o DrawBlank \o RowC \in Seq(Good)
  BY <1>3, <1>4, <1>7, Zenon
<1>9. DrawRule \o DrawBlank \o RowA \o DrawBlank \o RowB \o DrawBlank \o RowC
      \o DrawBlank \o RowD \o DrawBlank \o DrawClosing \in Seq(Good)
  BY <1>3, <1>4, <1>7, <1>8, Zenon
<1>10. DrawRule \o DrawBlank \o RowA \o DrawBlank \o RowB \o DrawBlank \o RowC
       \o DrawBlank \o RowD \o DrawBlank \o DrawClosing
       \o Heading \o Two \o Heading \o Times(4, Endpoint) \in Seq(Good)
  BY <1>1, <1>5, <1>7, <1>9, Zenon
<1>11. DrawRule \o DrawBlank \o RowA \o DrawBlank \o RowB \o DrawBlank \o RowC
       \o DrawBlank \o RowD \o DrawBlank \o DrawClosing
       \o Heading \o Two \o Heading \o Times(4, Endpoint)
       \o Place \o Times(3, Fact) \o Auth \in Seq(Good)
  BY <1>1, <1>5, <1>7, <1>10, Zenon
<1>12. QED
  BY <1>1, <1>5, <1>6, <1>7, <1>11, Zenon

\* console_print_boot
LEMMA BootIsGood ==
    ASSUME term.columns \in Nat, term.env \in Nat
    PROVE  BootScreen \in Seq(Good)
<1> DEFINE bar == IF Inner > 30 THEN Inner - 30 ELSE 16
           part(percent) == (bar * percent) \div 100
           Bar(percent) == <<CopyRule(part(percent)), CopyRule(bar - part(percent)), Printf(<<Text, Text>>)>>
           Caption(bytes, cap) == <<Copy(MadeAndPainted, bytes + Paint, cap), Printf(<<Text>>)>>
           Step == <<Copy(Painted, 37 + Paint, 256), Copy(Painted, 2 + Glyph(3, 2) + Paint, 64),
                     Printf(<<Text, Text>>)>>
           Captions == Caption(16 + Glyph(2, 0), 64) \o Caption(16, 64)
                       \o Caption(Inner, RuleBuffer + 32) \o Caption(Inner + Glyph(2, 0), RuleBuffer + 32)
           Percents == {0, 20, 40, 60, 80, 100}
<1>0. /\ Width \in Int /\ MinWidth =< Width /\ Width =< MaxWidth /\ Inner = Width - 2
      /\ MinWidth \in Nat /\ MaxWidth \in Nat /\ 16 =< MinWidth /\ RuleBuffer = MaxWidth * 4 + 16
  BY WidthIs, WidthAssumption DEF RuleBuffer
<1>1. /\ Painted \in Chains /\ MadeAndPainted \in Chains
      /\ Printf(<<Text, Text>>) \in Good /\ Printf(<<Text>>) \in Good
  <2>1. Painted \in Chains /\ MadeAndPainted \in Chains /\ Text \in Chains
    BY DEF Chains
  <2>2. <<Text, Text>> \in GoodArgs /\ <<Text>> \in GoodArgs
    BY <2>1, ArgShapes
  <2>3. QED
    BY <2>1, <2>2, PrintfIsGood
<1>2. \A percent \in Percents : Bar(percent) \in Seq(Good)
  <2> SUFFICES ASSUME NEW percent \in Percents PROVE Bar(percent) \in Seq(Good)
    OBVIOUS
  <2>1. bar \in Nat /\ 3 * bar + 1 < RuleBuffer
    BY <1>0
  <2> HIDE DEF bar
  <2>2. part(percent) \in Nat /\ part(percent) =< bar
    BY <2>1
  <2> HIDE DEF part
  <2>3. bar - part(percent) \in Nat /\ 3 * (bar - part(percent)) + 1 < RuleBuffer /\ 3 * part(percent) + 1 < RuleBuffer
    BY <1>0, <2>1, <2>2
  <2>4. CopyRule(part(percent)) \in Good /\ CopyRule(bar - part(percent)) \in Good
    BY <2>2, <2>3, CopyRuleIsGood
  <2>5. QED
    BY <1>1, <2>4
<1>3. \A bytes, cap \in Int : bytes + 17 < cap => Caption(bytes, cap) \in Seq(Good)
  <2> SUFFICES ASSUME NEW bytes \in Int, NEW cap \in Int, bytes + 17 < cap PROVE Caption(bytes, cap) \in Seq(Good)
    OBVIOUS
  <2>1. bytes + Paint \in Int /\ bytes + Paint < cap
    BY GlyphIs
  <2>2. QED
    BY <1>1, <2>1, CopyIsGood
<1>4. Step \in Seq(Good) /\ Len(Step) = 3
  <2>1. Glyph(3, 2) = 3 \/ Glyph(3, 2) = 2
    BY GlyphIs
  <2>2. 37 + Paint \in Int /\ 37 + Paint < 256 /\ 2 + Glyph(3, 2) + Paint \in Int /\ 2 + Glyph(3, 2) + Paint < 64
    BY <2>1, GlyphIs
  <2>3. Copy(Painted, 37 + Paint, 256) \in Good /\ Copy(Painted, 2 + Glyph(3, 2) + Paint, 64) \in Good
    BY <1>1, <2>2, CopyIsGood
  <2>4. QED
    BY <1>1, <2>3
<1>5. /\ Caption(16 + Glyph(2, 0), 64) \in Seq(Good) /\ Caption(16, 64) \in Seq(Good)
      /\ Caption(Inner, RuleBuffer + 32) \in Seq(Good) /\ Caption(Inner + Glyph(2, 0), RuleBuffer + 32) \in Seq(Good)
  <2>1. Glyph(2, 0) = 2 \/ Glyph(2, 0) = 0
    BY GlyphIs
  <2>2. /\ 16 + Glyph(2, 0) \in Int /\ 16 + Glyph(2, 0) + 17 < 64
        /\ Inner \in Int /\ Inner + Glyph(2, 0) \in Int /\ RuleBuffer + 32 \in Int
        /\ Inner + 17 < RuleBuffer + 32 /\ Inner + Glyph(2, 0) + 17 < RuleBuffer + 32
    BY <1>0, <2>1
  <2> HIDE DEF Caption
  <2>3. QED
    BY <1>3, <2>2
<1> HIDE DEF Bar, Caption, Step
<1>6. Times(5, Step) \in Seq(Good)
  BY <1>4, TimesIs
<1>7. /\ Bar(0) \in Seq(Good) /\ Bar(20) \in Seq(Good) /\ Bar(40) \in Seq(Good)
      /\ Bar(60) \in Seq(Good) /\ Bar(80) \in Seq(Good) /\ Bar(100) \in Seq(Good)
  BY <1>2
<1>8. \A x, y \in Seq(Good) : x \o y \in Seq(Good)
  OBVIOUS
<1>9. Captions \in Seq(Good)
  BY <1>5, <1>8, Zenon
<1> HIDE DEF Captions
<1>10. Captions \o Times(5, Step) \o Bar(0) \o Bar(20) \o Bar(40) \in Seq(Good)
  BY <1>6, <1>7, <1>8, <1>9, Zenon
<1>11. Captions \o Times(5, Step) \o Bar(0) \o Bar(20) \o Bar(40) \o Bar(60) \o Bar(80) \o Bar(100)
       \o Caption(Inner, RuleBuffer + 32) \in Seq(Good)
  BY <1>5, <1>7, <1>8, <1>10, Zenon
<1>12. BootScreen = IF ~term.tty \/ term.noAnimation \/ term.ci THEN <<>>
                    ELSE Captions \o Times(5, Step) \o Bar(0) \o Bar(20) \o Bar(40) \o Bar(60) \o Bar(80) \o Bar(100)
                         \o Caption(Inner, RuleBuffer + 32)
  BY DEF BootScreen, Captions, Step, Bar, Caption
<1>13. <<>> \in Seq(Good)
  OBVIOUS
<1>14. QED
  BY <1>11, <1>12, <1>13, Zenon

\* console_print_shutdown
LEMMA ShutdownIsGood == ShutdownScreen \in Seq(Good)
<1> DEFINE Two == <<Printf(<<Painted, Painted>>)>>
           Four == <<Printf(<<Painted, Painted, Text, Text>>)>>
<1>1. Two \in Seq(Good) /\ Four \in Seq(Good) /\ Len(Four) = 1
  <2>1. Painted \in Chains
    BY DEF Chains
  <2>2. <<Painted, Painted>> \in GoodArgs /\ <<Painted, Painted, Text, Text>> \in GoodArgs
    BY <2>1, ArgShapes
  <2>3. QED
    BY <2>2, PrintfIsGood
<1> HIDE DEF Two, Four
<1>2. Times(4, Four) \in Seq(Good)
  BY <1>1, TimesIs
<1>3. Two \o Times(4, Four) \in Seq(Good) /\ <<>> \in Seq(Good)
  BY <1>1, <1>2
<1>4. ShutdownScreen = IF ~term.tty THEN <<>> ELSE Two \o Times(4, Four)
  BY DEF ShutdownScreen, Two, Four
<1>5. QED
  BY <1>3, <1>4, Zenon

-----------------------------------------------------------------------------
(***************************************************************************)
(* Drawing.  The buffers filled for the current output are the last ones   *)
(* before index, and there are no more of them than calls were made.  So   *)
(* the next buffer is free as long as an output makes no more calls than   *)
(* there are buffers.                                                      *)
(***************************************************************************)

MadeBy(a) == IF a \in DOMAIN ptrs THEN ptrs[a].calls ELSE 0
Made == MadeBy(1) + MadeBy(2) + MadeBy(3) + MadeBy(4) + MadeBy(5)

\* How many turns ago next_slot handed out a buffer.
Back(s) == IF s < index THEN index - s ELSE index - s + SlotCount

Pointer == [calls : Nat, slot : Slots, at : Nat]

Drawing ==
    /\ term.columns \in Nat /\ term.env \in Nat
    /\ todo \in Seq(Good) /\ index \in Slots /\ DOMAIN owner = Slots
    /\ pc \in {"env", "args", "dir", "create", "boot"} => todo = <<>>
    /\ todo = <<>> => ptrs = <<>>
    /\ todo # <<>> =>
          /\ DOMAIN ptrs = DOMAIN Head(todo).args
          /\ \A a \in DOMAIN ptrs : ptrs[a] \in Pointer /\ ptrs[a].calls =< Len(Head(todo).args[a])
    /\ \A s \in Slots : owner[s] # NoOwner => Back(s) =< Made
    /\ TextsIntact

\* next_slot goes round.
LEMMA SlotWraps ==
    ASSUME NEW i \in Slots
    PROVE  NextSlot(i) \in Slots /\ NextSlot(i) = IF i + 1 < SlotCount THEN i + 1 ELSE 0
BY WidthAssumption, SMT DEF Slots, NextSlot

\* A screen, or what is left of it, begins with no pointers.
LEMMA FreshIs ==
    ASSUME NEW outputs \in Seq(Good)
    PROVE  /\ outputs = <<>> => Fresh(outputs) = <<>>
           /\ outputs # <<>> =>
                 /\ DOMAIN Fresh(outputs) = DOMAIN Head(outputs).args
                 /\ \A a \in DOMAIN Fresh(outputs) :
                       Fresh(outputs)[a] = NoPtr /\ Head(outputs).args[a] \in Chains
           /\ outputs # <<>> => Head(outputs).args \in GoodArgs
<1>1. outputs # <<>> => Head(outputs) \in Good
  OBVIOUS
<1>2. outputs # <<>> => Head(outputs).args \in GoodArgs
  BY <1>1 DEF Good, Drawable
<1>3. \A args \in GoodArgs : \A a \in DOMAIN args : args[a] \in Chains
  BY DEF GoodArgs, ArgLists
<1>4. QED
  BY <1>2, <1>3 DEF Fresh

\* The calls made are never more than the output asks for.
LEMMA MadeBounded ==
    ASSUME Drawing, todo # <<>>
    PROVE  /\ Head(todo).args \in GoodArgs /\ DOMAIN ptrs \subseteq 1 .. 5
           /\ \A a \in 1 .. 5 : MadeBy(a) \in Nat /\ CallsFor(Head(todo).args, a) \in Nat
                                /\ MadeBy(a) =< CallsFor(Head(todo).args, a)
           /\ Made \in Nat
<1> DEFINE args == Head(todo).args
<1>1. args \in GoodArgs /\ \A a \in DOMAIN args : args[a] \in Chains
  BY FreshIs DEF Drawing
<1>2. \A a \in DOMAIN args : Len(args[a]) \in Nat
  BY <1>1, ChainLengths
<1>3. DOMAIN ptrs = DOMAIN args /\ DOMAIN args \subseteq 1 .. 5
  BY <1>1 DEF Drawing, GoodArgs, ArgLists
<1>4. \A a \in DOMAIN ptrs : ptrs[a].calls \in Nat /\ ptrs[a].calls =< Len(args[a])
  BY DEF Drawing, Pointer
<1>5. \A a \in 1 .. 5 : MadeBy(a) \in Nat /\ CallsFor(args, a) \in Nat /\ MadeBy(a) =< CallsFor(args, a)
  BY <1>2, <1>3, <1>4 DEF MadeBy, CallsFor
<1>6. Made \in Nat
  <2>1. /\ MadeBy(1) \in Nat /\ MadeBy(2) \in Nat /\ MadeBy(3) \in Nat /\ MadeBy(4) \in Nat /\ MadeBy(5) \in Nat
    BY <1>5
  <2>2. QED
    BY <2>1 DEF Made
<1>7. QED
  BY <1>1, <1>3, <1>5, <1>6

\* The terminal does not change, so neither does what fits it.
LEMMA GoodKept ==
    ASSUME UNCHANGED term
    PROVE  Good' = Good /\ ColorEnabled' = ColorEnabled
BY DEF Good, Width, Columns, ColorEnabled

\* One more call is one more call.
LEMMA MadeGrows ==
    ASSUME Drawing, todo # <<>>, NEW a \in DOMAIN ptrs, DOMAIN ptrs' = DOMAIN ptrs,
           ptrs'[a].calls = ptrs[a].calls + 1, \A b \in DOMAIN ptrs : b # a => ptrs'[b] = ptrs[b],
           ptrs[a].calls + 1 =< Len(Head(todo).args[a])
    PROVE  Made' = Made + 1 /\ Made \in Nat /\ Made < 4
<1> DEFINE args == Head(todo).args
<1>1. /\ args \in GoodArgs /\ a \in 1 .. 5 /\ Made \in Nat /\ a \in DOMAIN args
      /\ \A b \in 1 .. 5 : MadeBy(b) \in Nat /\ CallsFor(args, b) \in Nat /\ MadeBy(b) =< CallsFor(args, b)
  BY MadeBounded DEF Drawing
<1>2. MadeBy(a)' = MadeBy(a) + 1 /\ MadeBy(a) + 1 =< CallsFor(args, a)
  BY <1>1 DEF MadeBy, CallsFor
<1>3. \A b \in 1 .. 5 : b # a => MadeBy(b)' = MadeBy(b)
  BY DEF MadeBy
<1>t. /\ MadeBy(1) \in Nat /\ MadeBy(2) \in Nat /\ MadeBy(3) \in Nat /\ MadeBy(4) \in Nat /\ MadeBy(5) \in Nat
      /\ CallsFor(args, 1) \in Nat /\ CallsFor(args, 2) \in Nat /\ CallsFor(args, 3) \in Nat
      /\ CallsFor(args, 4) \in Nat /\ CallsFor(args, 5) \in Nat
      /\ MadeBy(1) =< CallsFor(args, 1) /\ MadeBy(2) =< CallsFor(args, 2) /\ MadeBy(3) =< CallsFor(args, 3)
      /\ MadeBy(4) =< CallsFor(args, 4) /\ MadeBy(5) =< CallsFor(args, 5)
  BY <1>1
<1>a. a = 1 \/ a = 2 \/ a = 3 \/ a = 4 \/ a = 5
  BY <1>1
<1>4. Made' = Made + 1
  <2>1. CASE a = 1
    <3>1. /\ MadeBy(1)' = MadeBy(1) + 1 /\ MadeBy(2)' = MadeBy(2) /\ MadeBy(3)' = MadeBy(3)
          /\ MadeBy(4)' = MadeBy(4) /\ MadeBy(5)' = MadeBy(5)
      BY <1>2, <1>3, <2>1
    <3>2. QED
      BY <1>t, <3>1 DEF Made
  <2>2. CASE a = 2
    <3>1. /\ MadeBy(1)' = MadeBy(1) /\ MadeBy(2)' = MadeBy(2) + 1 /\ MadeBy(3)' = MadeBy(3)
          /\ MadeBy(4)' = MadeBy(4) /\ MadeBy(5)' = MadeBy(5)
      BY <1>2, <1>3, <2>2
    <3>2. QED
      BY <1>t, <3>1 DEF Made
  <2>3. CASE a = 3
    <3>1. /\ MadeBy(1)' = MadeBy(1) /\ MadeBy(2)' = MadeBy(2) /\ MadeBy(3)' = MadeBy(3) + 1
          /\ MadeBy(4)' = MadeBy(4) /\ MadeBy(5)' = MadeBy(5)
      BY <1>2, <1>3, <2>3
    <3>2. QED
      BY <1>t, <3>1 DEF Made
  <2>4. CASE a = 4
    <3>1. /\ MadeBy(1)' = MadeBy(1) /\ MadeBy(2)' = MadeBy(2) /\ MadeBy(3)' = MadeBy(3)
          /\ MadeBy(4)' = MadeBy(4) + 1 /\ MadeBy(5)' = MadeBy(5)
      BY <1>2, <1>3, <2>4
    <3>2. QED
      BY <1>t, <3>1 DEF Made
  <2>5. CASE a = 5
    <3>1. /\ MadeBy(1)' = MadeBy(1) /\ MadeBy(2)' = MadeBy(2) /\ MadeBy(3)' = MadeBy(3)
          /\ MadeBy(4)' = MadeBy(4) /\ MadeBy(5)' = MadeBy(5) + 1
      BY <1>2, <1>3, <2>5
    <3>2. QED
      BY <1>t, <3>1 DEF Made
  <2>6. QED
    BY <1>a, <2>1, <2>2, <2>3, <2>4, <2>5
<1>5. CallsOf(args) =< 4
  BY <1>1 DEF GoodArgs
<1>6. Made < CallsOf(args)
  <2>1. \/ MadeBy(1) < CallsFor(args, 1) \/ MadeBy(2) < CallsFor(args, 2) \/ MadeBy(3) < CallsFor(args, 3)
        \/ MadeBy(4) < CallsFor(args, 4) \/ MadeBy(5) < CallsFor(args, 5)
    BY <1>2, <1>a, <1>t
  <2>2. MadeBy(1) + MadeBy(2) + MadeBy(3) + MadeBy(4) + MadeBy(5)
        < CallsFor(args, 1) + CallsFor(args, 2) + CallsFor(args, 3) + CallsFor(args, 4) + CallsFor(args, 5)
    <3> HIDE DEF args
    <3>1. QED
      BY <1>t, <2>1, SMTT(30)
  <2>3. QED
    BY <2>2 DEF Made, CallsOf
<1>7. CallsOf(args) \in Nat
  <2>1. \A c1, c2, c3, c4, c5 \in Nat : c1 + c2 + c3 + c4 + c5 \in Nat
    OBVIOUS
  <2>2. QED
    BY <1>t, <2>1, Zenon DEF CallsOf
<1>8. QED
  BY <1>1, <1>4, <1>5, <1>6, <1>7

\* A call fills a buffer that no text is in.
LEMMA CallStep ==
    ASSUME Drawing, 4 =< SlotCount, NEW a \in DOMAIN ptrs, Call(a), UNCHANGED <<term, pc>>
    PROVE  Drawing'
<1> DEFINE n == ptrs[a].calls + 1
           chain == Head(todo).args[a]
<1>0. SlotCount \in Nat /\ index \in Slots /\ Slots = 0 .. SlotCount - 1
  BY WidthAssumption DEF Drawing, Slots
<1>1. todo # <<>>
  BY DEF Drawing
<1>2. /\ n =< Len(chain) /\ todo' = todo /\ n \in Nat /\ DOMAIN ptrs = DOMAIN Head(todo).args
      /\ \A b \in DOMAIN ptrs : ptrs[b] \in Pointer /\ ptrs[b].calls =< Len(Head(todo).args[b])
  BY <1>1 DEF Call, Drawing, Pointer
<1>3. CASE chain[n] = "paint" /\ ~ColorEnabled
  <2>1. ptrs' = [ptrs EXCEPT ![a].calls = n] /\ UNCHANGED <<index, owner>>
    BY <1>3 DEF Call
  <2>2. /\ DOMAIN ptrs' = DOMAIN ptrs /\ \A b \in DOMAIN ptrs : b # a => ptrs'[b] = ptrs[b]
        /\ ptrs'[a] \in Pointer /\ ptrs'[a].calls = n /\ ptrs'[a].slot = ptrs[a].slot /\ ptrs'[a].at = ptrs[a].at
    BY <1>2, <2>1 DEF Pointer
  <2>3. Made' = Made + 1 /\ Made \in Nat
    BY <1>1, <1>2, <2>2, MadeGrows
  <2>4. \A s \in Slots : owner'[s] # NoOwner => Back(s)' =< Made'
    <3>1. \A s \in Slots : Back(s)' = Back(s) /\ Back(s) \in Int
      BY <1>0, <2>1 DEF Back
    <3>2. QED
      BY <2>1, <2>3, <3>1 DEF Drawing
  <2>5. TextsIntact'
    BY <2>1, <2>2 DEF Drawing, TextsIntact
  <2>6. QED
    BY <1>1, <1>2, <2>1, <2>2, <2>4, <2>5, GoodKept DEF Drawing
<1>4. CASE ~(chain[n] = "paint" /\ ~ColorEnabled)
  <2>1. /\ ptrs' = [ptrs EXCEPT ![a] = [calls |-> n, slot |-> index, at |-> n]]
        /\ owner' = [owner EXCEPT ![index] = <<a, n>>] /\ index' = NextSlot(index)
    BY <1>4 DEF Call
  <2>2. /\ DOMAIN ptrs' = DOMAIN ptrs /\ \A b \in DOMAIN ptrs : b # a => ptrs'[b] = ptrs[b]
        /\ ptrs'[a] \in Pointer /\ ptrs'[a].calls = n /\ ptrs'[a].slot = index /\ ptrs'[a].at = n
    BY <1>0, <1>2, <2>1 DEF Pointer
  <2>3. Made' = Made + 1 /\ Made \in Nat /\ Made < 4
    BY <1>1, <1>2, <2>2, MadeGrows
  <2>4. DOMAIN owner' = Slots /\ owner'[index] = <<a, n>> /\ \A s \in Slots : s # index => owner'[s] = owner[s]
    BY <1>0, <2>1 DEF Drawing
  <2>5. owner[index] = NoOwner
    <3>1. Back(index) = SlotCount
      BY <1>0 DEF Back
    <3>2. QED
      BY <1>0, <2>3, <3>1 DEF Drawing
  <2>6. index' \in Slots /\ index' = IF index + 1 < SlotCount THEN index + 1 ELSE 0
    BY <1>0, <2>1, SlotWraps
  <2>7. \A s \in Slots : owner'[s] # NoOwner => Back(s)' =< Made'
    <3> SUFFICES ASSUME NEW s \in Slots, owner'[s] # NoOwner PROVE Back(s)' =< Made'
      OBVIOUS
    <3>1. CASE s = index
      <4>1. Back(s)' = 1
        BY <1>0, <2>6, <3>1 DEF Back
      <4>2. QED
        BY <2>3, <4>1
    <3>2. CASE s # index
      <4>1. Back(s)' = Back(s) + 1 /\ Back(s) \in Int
        BY <1>0, <2>6, <3>2 DEF Back
      <4>2. Back(s) =< Made
        BY <2>4, <3>2 DEF Drawing
      <4>3. QED
        BY <2>3, <4>1, <4>2
    <3>3. QED
      BY <3>1, <3>2
  <2>8. TextsIntact'
    <3> SUFFICES ASSUME NEW b \in DOMAIN ptrs, ptrs'[b].at > 0
                 PROVE  owner'[ptrs'[b].slot] = <<b, ptrs'[b].at>>
      BY <2>2 DEF TextsIntact
    <3>1. CASE b = a
      BY <2>2, <2>4, <3>1
    <3>2. CASE b # a
      <4>1. ptrs'[b] = ptrs[b] /\ ptrs[b].slot \in Slots /\ ptrs[b].at \in Nat
        BY <1>2, <2>2, <3>2 DEF Pointer
      <4>2. owner[ptrs[b].slot] = <<b, ptrs[b].at>> /\ ptrs[b].at # 0
        BY <4>1 DEF Drawing, TextsIntact
      <4>3. ptrs[b].slot # index
        BY <2>5, <4>2 DEF NoOwner
      <4>4. QED
        BY <2>4, <4>1, <4>2, <4>3
    <3>3. QED
      BY <3>1, <3>2
  <2>9. QED
    BY <1>1, <1>2, <2>2, <2>4, <2>6, <2>7, <2>8, GoodKept DEF Drawing
<1>5. QED
  BY <1>3, <1>4

\* Outputs that come with no buffer filled.
LEMMA NextOutput ==
    ASSUME Drawing, NEW outputs \in Seq(Good), todo' = outputs, ptrs' = Fresh(outputs), UNCHANGED <<index, term>>,
           pc' \in {"env", "args", "dir", "create", "boot"} => outputs = <<>>,
           DOMAIN owner' = Slots, \A s \in Slots : owner'[s] = NoOwner
    PROVE  Drawing'
<1>0. SlotCount \in Nat /\ index \in Slots /\ Slots = 0 .. SlotCount - 1 /\ 0 \in Slots
  BY WidthAssumption DEF Drawing, Slots
<1>1. /\ outputs = <<>> => ptrs' = <<>>
      /\ outputs # <<>> => /\ DOMAIN ptrs' = DOMAIN Head(outputs).args
                           /\ \A a \in DOMAIN ptrs' : ptrs'[a] = NoPtr /\ Head(outputs).args[a] \in Chains
  BY FreshIs
<1>2. NoPtr \in Pointer /\ NoPtr.calls = 0 /\ NoPtr.at = 0
  BY <1>0 DEF NoPtr, Pointer
<1>3. \A a \in DOMAIN ptrs' : ptrs'[a] = NoPtr
  BY <1>1
<1>4. TextsIntact'
  BY <1>2, <1>3 DEF TextsIntact
<1>5. outputs # <<>> => \A a \in DOMAIN ptrs' : ptrs'[a] \in Pointer /\ ptrs'[a].calls =< Len(Head(outputs).args[a])
  BY <1>1, <1>2, ChainLengths
<1>6. Pointer' = Pointer /\ Slots' = Slots
  BY DEF Pointer, Slots
<1>7. QED
  BY <1>1, <1>4, <1>5, <1>6, GoodKept DEF Drawing

\* The step of the drawing, with every screen that main() shows.
LEMMA DrawingStep ==
    ASSUME Drawing, 4 =< SlotCount, [StartupNext]_startupVars
    PROVE  Drawing'
<1>1. ASSUME todo = <<>> PROVE \A s \in Slots : owner[s] = NoOwner
  <2>1. Made = 0
    BY <1>1 DEF Drawing, Made, MadeBy
  <2>2. \A s \in Slots : Back(s) \in Int /\ Back(s) > 0
    BY WidthAssumption DEF Back, Slots, Drawing
  <2>3. QED
    BY <2>1, <2>2 DEF Drawing
<1>2. ASSUME NEW screen \in Seq(Good), todo = <<>>, Show(screen), UNCHANGED term,
             pc' \notin {"env", "args", "dir", "create", "boot"}
      PROVE  Drawing'
  <2>1. todo' = screen /\ ptrs' = Fresh(screen) /\ UNCHANGED <<index, term, owner>>
    BY <1>2 DEF Show
  <2>2. DOMAIN owner' = Slots /\ \A s \in Slots : owner'[s] = NoOwner
    BY <1>1, <1>2, <2>1 DEF Drawing
  <2>3. QED
    BY <1>2, <2>1, <2>2, NextOutput
<1>3. term.columns \in Nat /\ term.env \in Nat /\ <<>> \in Seq(Good)
  BY DEF Drawing
<1>4. CASE Boot
  <2>1. todo = <<>> /\ Show(BootScreen) /\ pc' = "banner" /\ UNCHANGED term
    BY <1>4 DEF Boot, Drawing
  <2>2. QED
    BY <1>2, <1>3, <2>1, BootIsGood
<1>5. CASE Banner
  <2>1. todo = <<>> /\ Show(BannerScreen) /\ pc' = "run" /\ UNCHANGED term
    BY <1>5 DEF Banner
  <2>2. QED
    BY <1>2, <1>3, <2>1, BannerIsGood
<1>6. CASE Run
  <2>1. todo = <<>> /\ (Show(ShutdownScreen) \/ Show(<<>>)) /\ pc' \in {"stopped", "failed"} /\ UNCHANGED term
    BY <1>6 DEF Run
  <2>2. QED
    BY <1>2, <1>3, <2>1, ShutdownIsGood
<1>7. ASSUME NEW a \in DOMAIN ptrs, Call(a), UNCHANGED <<mainVars, term>> PROVE Drawing'
  BY <1>7, CallStep DEF mainVars
<1>8. CASE Put /\ UNCHANGED <<mainVars, term>>
  <2>1. /\ todo # <<>> /\ todo' = Tail(todo) /\ ptrs' = Fresh(Tail(todo)) /\ UNCHANGED <<index, term, pc>>
        /\ owner' = [s \in Slots |-> NoOwner]
    BY <1>8 DEF Put, mainVars
  <2>2. Tail(todo) \in Seq(Good)
    BY <2>1 DEF Drawing
  <2>3. pc' \notin {"env", "args", "dir", "create", "boot"}
    BY <2>1 DEF Drawing
  <2>4. DOMAIN owner' = Slots /\ \A s \in Slots : owner'[s] = NoOwner
    BY <2>1
  <2>5. QED
    BY <2>1, <2>2, <2>3, <2>4, NextOutput
<1>9. ASSUME UNCHANGED <<term, screenVars>>,
             pc' \in {"env", "args", "dir", "create", "boot"} => pc \in {"env", "args", "dir", "create", "boot"}
      PROVE  Drawing'
  <2>1. UNCHANGED <<term, todo, ptrs, index, owner>>
    BY <1>9 DEF screenVars
  <2>2. Made' = Made /\ \A s \in Slots : Back(s)' = Back(s)
    BY <2>1 DEF Made, MadeBy, Back
  <2>3. TextsIntact' = TextsIntact
    BY <2>1 DEF TextsIntact
  <2>4. QED
    BY <1>9, <2>1, <2>2, <2>3, GoodKept DEF Drawing
<1>10. CASE ReadEnv \/ Argument \/ CheckInput \/ EnsureDbDir \/ Create \/ Destroy
  <2>1. UNCHANGED <<term, screenVars>>
    BY <1>10 DEF ReadEnv, Argument, CheckInput, EnsureDbDir, Create, Destroy
  <2>2. pc' \in {"env", "args", "dir", "create", "boot"} => pc \in {"env", "args", "dir", "create", "boot"}
    BY <1>10 DEF ReadEnv, Argument, CheckInput, EnsureDbDir, Create, Destroy, Exit
  <2>3. QED
    BY <1>9, <2>1, <2>2
<1>11. CASE UNCHANGED startupVars
  BY <1>9, <1>11 DEF startupVars, mainVars
<1>12. QED
  BY <1>4, <1>5, <1>6, <1>7, <1>8, <1>10, <1>11 DEF StartupNext, Draw

\* Every reachable state of the screens.
LEMMA DrawingHolds ==
    ASSUME 4 =< SlotCount
    PROVE  StartupSpec => []Drawing
<1>1. StartupInit => Drawing
  <2> SUFFICES ASSUME StartupInit PROVE Drawing
    OBVIOUS
  <2>1. /\ todo = <<>> /\ ptrs = <<>> /\ index = 0 /\ owner = [s \in Slots |-> NoOwner]
        /\ term.columns \in Nat /\ term.env \in Nat
    BY InputsAssumption DEF StartupInit, ConsoleInit
  <2>2. 0 \in Slots /\ todo \in Seq(Good)
    BY <2>1, WidthAssumption DEF Slots
  <2>3. TextsIntact
    BY <2>1 DEF TextsIntact
  <2>4. QED
    BY <2>1, <2>2, <2>3 DEF Drawing
<1>2. Drawing /\ [StartupNext]_startupVars => Drawing'
  BY DrawingStep
<1>3. QED
  BY <1>1, <1>2, PTL DEF StartupSpec

-----------------------------------------------------------------------------
(* Theorems *)

\* "CLI overrides env": for every command line and every environment, a server
\* has the last value of each option, else the environment's, else the default,
\* and the banner tells what the server does.
THEOREM ConfigAsAskedHolds == StartupSpec => []ConfigAsAsked
<1>1. StartupInv => ConfigAsAsked
  <2> SUFFICES ASSUME StartupInv PROVE ConfigAsAsked
    OBVIOUS
  <2>1. \/ server = NoServer /\ info = NoInfo
        \/ Complete /\ (server = NoServer \/ Served) /\ Told
    BY DEF StartupInv, Untouched, Told
  <2>2. ASSUME server # NoServer, NEW opt \in DOMAIN FieldOf PROVE server.conf[FieldOf[opt]] = Meant(opt)
    <3>1. ArgsRead /\ arg > Len(input.argv) /\ server.conf = conf
      BY <2>1, <2>2 DEF Complete, Served
    <3>2. QED
      BY <3>1, ConfIsMeant, FieldOfIs
  <2>3. ASSUME info.shown
        PROVE  /\ info.auth <=> server.key # NoText
               /\ <<info.bind, info.port, info.workers, info.db>> =
                      <<server.conf.bind, server.conf.port, server.conf.threads, server.conf.db>>
    <3>1. info # NoInfo
      BY <2>3 DEF NoInfo
    <3>2. info = BannerOf(conf) /\ server.conf = conf /\ server.key = conf.key
      BY <2>1, <3>1 DEF Told, Served
    <3>3. info.auth <=> conf.key # NoText
      BY <3>2 DEF BannerOf
    <3>4. info.bind = conf.bind /\ info.port = conf.port /\ info.workers = conf.threads /\ info.db = conf.db
      BY <3>2 DEF BannerOf
    <3>5. QED
      BY <3>2, <3>3, <3>4
  <2>4. QED
    BY <2>2, <2>3 DEF ConfigAsAsked
<1>2. QED
  BY <1>1, StartupInvHolds, PTL

\* Where the command line, a number or a path is bad, replaced or not, or the
\* address or the key that would be used, main() makes no directory and no server;
\* and it returns 2 for no other input, unless the directory of the database cannot
\* be made.
THEOREM BadInputTouchesNothingHolds == StartupSpec => []BadInputTouchesNothing
<1>1. StartupInv => BadInputTouchesNothing
  <2> SUFFICES ASSUME StartupInv PROVE BadInputTouchesNothing
    OBVIOUS
  <2>1. CASE Complete
    <3>1. Accepted
      BY <2>1, CompleteIsAccepted
    <3>2. Meant("--db") = conf.db
      BY <2>1, ConfIsMeant, FieldOfIs DEF Complete, Options
    <3>3. code = 2 => dirMade = TRUE /\ conf.db \in Denied
      BY <3>1 DEF StartupInv
    <3>4. QED
      BY <3>1, <3>2, <3>3 DEF BadInputTouchesNothing
  <2>2. CASE ~Complete
    <3>1. dirMade = FALSE /\ server = NoServer /\ (code = 2 => ~Accepted)
      BY <2>2 DEF StartupInv, Untouched
    <3>2. QED
      BY <3>1 DEF BadInputTouchesNothing
  <2>3. QED
    BY <2>1, <2>2
<1>2. QED
  BY <1>1, StartupInvHolds, PTL

\* With four buffers (there are eight) no call of a helper fills a buffer whose
\* text is still to be painted or printed, in whatever order the arguments of any
\* printf of any screen are evaluated.
THEOREM TextsIntactHolds ==
    ASSUME 4 =< SlotCount
    PROVE  StartupSpec => []TextsIntact
<1>1. Drawing => TextsIntact
  BY DEF Drawing
<1>2. QED
  BY <1>1, DrawingHolds, PTL

\* From the least width of 48 cells on, on every terminal: the box is whole, fits
\* the terminal, cuts no text, and no text is too long for its buffer.
THEOREM BoxIsWholeHolds ==
    ASSUME 4 =< SlotCount, 48 =< MinWidth
    PROVE  StartupSpec => []BoxIsWhole
<1>1. Drawing => BoxIsWhole
  <2> SUFFICES ASSUME Drawing, todo # <<>>
               PROVE  /\ Head(todo).cells \in {0, Width} /\ (Columns > MinWidth => Width < Columns)
                      /\ Head(todo).lost = 0 /\ Head(todo).bytes < Head(todo).cap
    BY DEF BoxIsWhole
  <2>1. Head(todo) \in Good
    BY DEF Drawing
  <2>2. Columns > MinWidth => Width < Columns
    BY WidthIs DEF Drawing
  <2>3. QED
    BY <2>1, <2>2 DEF Good
<1>2. QED
  BY <1>1, DrawingHolds, PTL
=============================================================================
