--------------------------- MODULE ProcessProofs ----------------------------
(***************************************************************************)
(* Proofs about the life of the process.  main() only restricts when the   *)
(* pool runs, so all that ThreadPoolProofs shows of the pool holds here;   *)
(* the rest is where main(), the acceptor and the handlers can be at the   *)
(* same time.                                                              *)
(***************************************************************************)
EXTENDS Process, ThreadPoolProofs

\* A thread is inside its signal handler's server_stop.
Active(c) == spc[c] \notin {"idle", "returned"}

\* What main() has done before it is where it is, what the listener is before
\* and after server_run, and which threads can be inside the handler.
Life ==
    /\ mpc \in {"create", "publish", "install", "serve", "close", "free", "forget", "exit"}
    /\ apc \in {"created", "returned"} => listener = "none"
    /\ mpc \in {"close", "free", "forget"} => apc = "returned"
    /\ store = "closed" => mpc \in {"free", "forget", "exit"} /\ apc = "returned"
    /\ memory = "live" <=> mpc \in {"publish", "install", "serve", "close", "free"}
    /\ handlers = TRUE => mpc \notin {"create", "publish", "install"}
    /\ handlers = TRUE /\ mpc = "exit" => apc = "returned"
    /\ \A c \in Callers : Active(c) => handlers = TRUE
    /\ \A w \in Workers \cap Callers : Active(w) => wpc[w] \notin {"none", "exited"}
    /\ Main \in Callers /\ mpc = "exit" => ~Active(Main)

\* A step of the process is a step of the pool or leaves the pool alone.
LEMMA ProcessStepIsPoolStep == [ProcessNext]_allVars => [Next]_vars
<1> SUFFICES ASSUME [ProcessNext]_allVars PROVE [Next]_vars
  OBVIOUS
<1>1. CASE CreateServer \/ CreateFails \/ Publish \/ InstallHandlers \/ Report \/ CloseStore
           \/ FreeServer \/ Forget \/ Exited \/ UNCHANGED allVars
  <2>1. UNCHANGED vars
    BY <1>1 DEF CreateServer, CreateFails, Publish, InstallHandlers, Report, CloseStore,
       FreeServer, Forget, Exited, allVars
  <2>2. QED
    BY <2>1
<1>2. CASE Serve \/ Others
  BY <1>2 DEF Serve, Others, Next
<1>3. CASE \E c \in Callers : OnSignal(c)
  BY <1>3 DEF OnSignal, Next
<1>4. QED
  BY <1>1, <1>2, <1>3 DEF ProcessNext

\* So every behaviour of the process is a behaviour of the pool.
THEOREM ProcessRunsPool == ProcessSpec => Spec
<1>1. ProcessInit => Init
  BY DEF ProcessInit
<1>2. QED
  BY <1>1, ProcessStepIsPoolStep, PTL DEF ProcessSpec, Spec

\* The pool moves no handler and no acceptor except as its own steps say.
LEMMA PoolMoves ==
    ASSUME TypeOK, Acceptor \/ Connect \/ \E w \in Workers : Worker(w) \/ SpuriousWakeup(w)
    PROVE  /\ UNCHANGED spc
           /\ \A w \in Workers : \/ wpc[w] \notin {"none", "exited"} /\ ~(w \in Callers /\ Active(w))
                                 \/ wpc'[w] = wpc[w]
                                 \/ wpc'[w] \notin {"none", "exited"}
<1> USE DEF queueVars, serverVars, envVars
<1>1. CASE RunStart \/ RunStartFails \/ Spawned \/ SpawnFails \/ LoopTest \/ PollReady
           \/ PollTimeout \/ Interrupted \/ PollFails \/ AcceptShut \/ AcceptFails \/ CountAccepted
           \/ PushLock \/ CountDropped \/ CloseDropped \/ DrainLock \/ AbortShutdown \/ Join
           \/ CloseListener \/ RunReturns \/ Connect \/ \E fd \in Fds : Accept(fd)
  BY <1>1 DEF RunStart, RunStartFails, Spawned, SpawnFails, LoopTest, PollReady, PollTimeout,
     Interrupted, PollFails, AcceptShut, AcceptFails, CountAccepted, PushLock, CountDropped,
     CloseDropped, DrainLock, AbortShutdown, Join, CloseListener, RunReturns, Connect, Accept
<1>2. CASE TryPush \/ DrainClose \/ \E w \in Workers : Spawn(w)
  <2>1. UNCHANGED spc
    BY <1>2 DEF TryPush, DrainClose, Spawn
  <2>2. ASSUME NEW w \in Workers PROVE wpc'[w] = wpc[w] \/ wpc'[w] = "lock"
    BY <1>2 DEF TryPush, Signal, Waiting, DrainClose, QueueClose, Spawn, TypeOK
  <2>3. QED
    BY <2>1, <2>2
<1>3. ASSUME NEW w \in Workers, Worker(w) \/ SpuriousWakeup(w)
      PROVE  /\ UNCHANGED spc
             /\ wpc[w] \notin {"none", "exited"} /\ ~(w \in Callers /\ Active(w))
             /\ \A v \in Workers : v # w => wpc'[v] = wpc[v]
  <2>1. /\ UNCHANGED spc /\ \E pc \in WorkerPCs : WorkerGoto(w, pc)
        /\ wpc[w] \notin {"none", "exited"} /\ Free(w)
    BY <1>3 DEF Worker, PopLock, PopWait, PopExit, PopTake, Handle, Answer, CloseHandled,
       CountHandled, SpuriousWakeup, AtWorker, WorkerPCs
  <2>2. QED
    BY <2>1 DEF WorkerGoto, Free, Active, TypeOK
<1>4. QED
  BY <1>1, <1>2, <1>3 DEF Acceptor

\* The step of Life.
LEMMA LifeStep ==
    ASSUME TypeOK, Drained, Life, [ProcessNext]_allVars
    PROVE  Life'
<1> USE DEF queueVars, serverVars, envVars, processVars
<1>1. CASE CreateServer \/ CreateFails \/ Publish \/ InstallHandlers \/ Report \/ CloseStore
           \/ FreeServer \/ Forget
  <2>1. UNCHANGED <<apc, wpc, spc, listener>>
    BY <1>1 DEF CreateServer, CreateFails, Publish, InstallHandlers, Report, CloseStore,
       FreeServer, Forget, vars
  <2>2. Free(Main)
    BY <1>1 DEF CreateServer, CreateFails, Publish, InstallHandlers, Report, CloseStore,
       FreeServer, Forget, MainAt
  <2>3. QED
    BY <1>1, <2>1, <2>2 DEF CreateServer, CreateFails, Publish, InstallHandlers, Report, CloseStore,
       FreeServer, Forget, MainAt, Life, Active, Free
<1>2. CASE Serve
  <2>1. mpc = "serve" /\ (Acceptor \/ Connect) /\ UNCHANGED processVars
    BY <1>2 DEF Serve
  <2>2. UNCHANGED spc
    BY <2>1, PoolMoves
  <2>3. \A w \in Workers \cap Callers : Active(w) => wpc'[w] \notin {"none", "exited"}
    BY <2>1, PoolMoves DEF Life
  <2>4. apc' \in {"created", "returned"} => listener' = "none"
    <3>1. CASE Connect
      BY <3>1 DEF Connect, Life
    <3>2. CASE Acceptor
      BY <3>2 DEF Acceptor, Life, AtMain, RunStart, RunStartFails, Spawn, Spawned, SpawnFails,
         LoopTest, PollReady, PollTimeout, Interrupted, PollFails, Accept, AcceptShut, AcceptFails,
         CountAccepted, PushLock, TryPush, CountDropped, CloseDropped, DrainLock, DrainClose,
         AbortShutdown, Join, CloseListener, RunReturns
    <3>3. QED
      BY <2>1, <3>1, <3>2
  <2>5. QED
    BY <2>1, <2>2, <2>3, <2>4 DEF Life, Active
<1>3. ASSUME NEW w \in Workers, Worker(w) \/ SpuriousWakeup(w), UNCHANGED processVars PROVE Life'
  <2>1. UNCHANGED spc /\ \A v \in Workers \cap Callers : Active(v) => wpc'[v] \notin {"none", "exited"}
    BY <1>3, PoolMoves DEF Life
  <2>2. UNCHANGED <<apc, listener>>
    BY <1>3 DEF Worker, PopLock, PopWait, PopExit, PopTake, Handle, Answer, CloseHandled,
       CountHandled, SpuriousWakeup
  <2>3. QED
    BY <1>3, <2>1, <2>2 DEF Life, Active
<1>4. ASSUME NEW c \in Callers, Stop(c), UNCHANGED processVars PROVE Life'
  <2>1. UNCHANGED apc /\ (listener = "none" => listener' = "none")
    BY <1>4 DEF Stop, StopLock, StopClose, StopCheck, StopShutdown, ShutdownListener
  <2>2. /\ Active(c) /\ \A b \in Callers : b # c => spc'[b] = spc[b]
    BY <1>4 DEF Stop, StopLock, StopClose, StopCheck, StopShutdown, StopGoto, Active, TypeOK
  <2>3. UNCHANGED wpc \/ QueueClose(c)
    BY <1>4 DEF Stop, StopLock, StopClose, StopCheck, StopShutdown
  <2>4. \A w \in Workers : wpc'[w] = wpc[w] \/ wpc'[w] = "lock"
    BY <2>3 DEF QueueClose, TypeOK
  <2>5. QED
    BY <1>4, <2>1, <2>2, <2>4 DEF Life, Active
<1>5. ASSUME NEW c \in Callers, OnSignal(c) PROVE Life'
  <2>1. /\ handlers /\ mpc # "exit" /\ UNCHANGED <<mpc, handlers, memory, store>>
        /\ UNCHANGED <<apc, listener, wpc>>
    BY <1>5 DEF OnSignal, StopCall, vars
  <2>2. handlers = TRUE
    BY <2>1 DEF Life
  <2>3. /\ \A b \in Callers : b # c => spc'[b] = spc[b]
        /\ c \in Workers => spc'[c] = spc[c] \/ wpc[c] \notin {"none", "exited"}
    BY <1>5 DEF OnSignal, StopCall, StopGoto, TypeOK, vars
  <2>4. QED
    BY <2>1, <2>2, <2>3 DEF Life, Active
<1>6. CASE UNCHANGED allVars
  BY <1>6 DEF allVars, vars, Life, Active
<1>7. QED
  BY <1>1, <1>2, <1>3, <1>4, <1>5, <1>6 DEF ProcessNext, Others, Exited

\* Life holds in every reachable state of the process.
LEMMA LifeHolds == ProcessSpec => [](TypeOK /\ Drained /\ Life)
<1>1. ProcessInit => Life
  BY DEF ProcessInit, Init, Life, Active
<1>2. TypeOK /\ Drained /\ Life /\ [ProcessNext]_allVars => Life'
  BY LifeStep
<1>3. QED
  BY <1>1, <1>2, ProcessRunsPool, TypeCorrect, DrainedHolds, PTL DEF ProcessSpec

\* server_destroy closes the database only after server_run has joined every
\* worker, closed every connection and forgotten the listener, on every path.
THEOREM StoreOutlivesWorkersHolds == ProcessSpec => []StoreOutlivesWorkers
<1>1. Drained /\ Life => StoreOutlivesWorkers
  BY DEF Drained, Life, StoreOutlivesWorkers
<1>2. QED
  BY <1>1, LifeHolds, PTL

\* Only a signal on main itself, between server_destroy and g_server = NULL, can
\* find a freed server.
THEOREM UsedAfterDestroyOnlyByMainHolds == ProcessSpec => []UsedAfterDestroyOnlyByMain
<1>1. Drained /\ Life => UsedAfterDestroyOnlyByMain
  <2> SUFFICES ASSUME Drained, Life, NEW c \in Callers, Active(c), memory # "live"
               PROVE  c = Main /\ mpc = "forget"
    BY DEF UsedAfterDestroyOnlyByMain, Active
  <2>1. handlers = TRUE /\ mpc \in {"forget", "exit"} /\ apc = "returned"
    BY DEF Life
  <2>2. \A w \in Workers : wpc[w] \in {"none", "exited"}
    BY <2>1 DEF Drained
  <2>3. c = Main
    BY <2>2, CallersAssumption DEF Life
  <2>4. QED
    BY <2>1, <2>3 DEF Life
<1>2. QED
  BY <1>1, LifeHolds, PTL
=============================================================================
