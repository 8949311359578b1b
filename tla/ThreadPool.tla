----------------------------- MODULE ThreadPool -----------------------------
(***************************************************************************)
(* The accept loop, the bounded connection queue and the worker pool of    *)
(* server.c, with server_stop() called at any moment by other threads or   *)
(* by a signal handler.                                                    *)
(*                                                                         *)
(* One action is one step between two points where another thread can see  *)
(* a difference.  Each critical section of the queue is two actions: take  *)
(* the mutex, then do the body and release it, so that "who holds the      *)
(* mutex now" is part of the state.                                        *)
(***************************************************************************)
EXTENDS Integers, FiniteSets, Sequences

CONSTANTS
    Workers,    \* threads running worker_main
    Main,       \* the thread that runs server_run (the acceptor)
    Callers,    \* threads a call of server_stop may run on
    Nobody,     \* the mutex is free
    Fds,        \* descriptors accept may return: the process limit
    NoFd,       \* no descriptor: -1 in the code
    Capacity,   \* config.queue_size
    MaxConns,   \* bound: connections clients open
    MaxFaults   \* bound: failing or interrupted calls, spurious wakeups

Threads == Workers \cup {Main} \cup Callers

\* server_config_validate: thread_count and queue_size are at least 1.
ASSUME WorkersAssumption == IsFiniteSet(Workers) /\ Workers # {} /\ Main \notin Workers
ASSUME NobodyAssumption == Nobody \notin Threads
ASSUME FdsAssumption == IsFiniteSet(Fds) /\ NoFd \notin Fds
ASSUME CapacityAssumption == Capacity \in Nat \ {0}
ASSUME BoundsAssumption == MaxConns \in Nat /\ MaxFaults \in Nat

VARIABLES
    fds, head, tail, count, closed, mutex,      \* struct ConnQueue
    listener, stop_requested, rc,               \* struct Server, result of server_run
    stats,                                      \* struct ServerStats
    apc, afd,                                   \* server_run: control, client_fd
    wpc, wfd,                                   \* worker_main: control, client_fd
    spc,                                        \* server_stop: control of each call
    open, backlog, conns, faults                \* the kernel, and the bounds

queueVars  == <<fds, head, tail, count, closed>>
envVars    == <<backlog, conns, faults>>
serverVars == <<listener, stop_requested, rc>>
vars == <<queueVars, mutex, serverVars, stats, apc, afd, wpc, wfd, spc, open, envVars>>

Slots == 0 .. Capacity - 1

AcceptorPCs == {"created", "spawn", "loop", "poll", "accept", "count", "push", "pushing",
                "drop", "shed", "drain", "draining", "abort", "join", "close", "forget",
                "returned"}
WorkerPCs == {"none", "lock", "popping", "wait", "handle", "failed", "dispatch", "close",
              "count", "exited"}
StopPCs == {"idle", "lock", "closing", "check", "shutdown", "returned"}
Counters == {"accepted", "handled", "dropped", "errors", "http_requests", "http_errors"}

Init ==
    /\ fds = [i \in Slots |-> NoFd]
    /\ head = 0 /\ tail = 0 /\ count = 0 /\ closed = FALSE /\ mutex = Nobody
    /\ listener = "none" /\ stop_requested = FALSE /\ rc = "running"
    /\ stats = [s \in Counters |-> 0]
    /\ apc = "created" /\ afd = NoFd
    /\ wpc = [w \in Workers |-> "none"] /\ wfd = [w \in Workers |-> NoFd]
    /\ spc = [c \in Callers |-> "idle"]
    /\ open = {} /\ backlog = 0 /\ conns = 0 /\ faults = 0

-----------------------------------------------------------------------------
(* Parts the threads share. *)

\* A thread that is inside a signal handler does not run its own code.
Free(t) == t \in Callers => spc[t] \in {"idle", "returned"}

Bump(c) == stats' = [stats EXCEPT ![c] = @ + 1]

Inc(i) == (i + 1) % Capacity

Lock(t) == mutex = Nobody /\ mutex' = t

Fault == faults < MaxFaults /\ faults' = faults + 1

Waiting == {w \in Workers : wpc[w] = "wait"}

\* pthread_cond_signal: one waiter, if there is one, goes back to get the mutex.
Signal ==
    \/ Waiting = {} /\ UNCHANGED wpc
    \/ \E w \in Waiting : wpc' = [wpc EXCEPT ![w] = "lock"]

\* Mutant of QueueClose: no broadcast.
QueueCloseSilently(t) ==
    /\ mutex = t /\ mutex' = Nobody /\ closed' = TRUE
    /\ UNCHANGED <<fds, head, tail, count, wpc>>

\* queue_close once it holds the mutex: every waiter of not_empty is woken.
QueueClose(t) ==
    /\ mutex = t /\ mutex' = Nobody
    /\ closed' = TRUE
    /\ wpc' = [w \in Workers |-> IF wpc[w] = "wait" THEN "lock" ELSE wpc[w]]
    /\ UNCHANGED <<fds, head, tail, count>>

\* shutdown() on a listening socket: pending connections are reset and every
\* later accept() fails at once; it does nothing to a closed descriptor.
ShutdownListener ==
    IF listener = "open"
    THEN listener' = "shut" /\ backlog' = 0
    ELSE UNCHANGED <<listener, backlog>>

-----------------------------------------------------------------------------
(* server_run *)

AtMain(pc) == apc = pc /\ Free(Main)

\* create_listener, calloc.
RunStart ==
    /\ AtMain("created")
    /\ listener' = "open" /\ apc' = "spawn"
    /\ UNCHANGED <<queueVars, mutex, stop_requested, rc, stats, afd, wpc, wfd, spc, open, envVars>>

RunStartFails ==
    /\ AtMain("created") /\ Fault
    /\ apc' = "returned" /\ rc' = "failed"
    /\ UNCHANGED <<queueVars, mutex, listener, stop_requested, stats, afd, wpc, wfd, spc, open,
                   backlog, conns>>

Spawn(w) ==
    /\ AtMain("spawn") /\ wpc[w] = "none"
    /\ wpc' = [wpc EXCEPT ![w] = "lock"]
    /\ UNCHANGED <<queueVars, mutex, serverVars, stats, apc, afd, wfd, spc, open, envVars>>

Spawned ==
    /\ AtMain("spawn") /\ \A w \in Workers : wpc[w] # "none"
    /\ apc' = "loop"
    /\ UNCHANGED <<queueVars, mutex, serverVars, stats, afd, wpc, wfd, spc, open, envVars>>

\* pthread_create fails: server_stop inline, then join the workers that started.
SpawnFails ==
    /\ AtMain("spawn") /\ (\E w \in Workers : wpc[w] = "none") /\ Fault
    /\ stop_requested' = TRUE /\ rc' = "failed" /\ apc' = "drain"
    /\ UNCHANGED <<queueVars, mutex, listener, stats, afd, wpc, wfd, spc, open, backlog, conns>>

LoopTest ==
    /\ AtMain("loop")
    /\ apc' = IF stop_requested THEN "drain" ELSE "poll"
    /\ UNCHANGED <<queueVars, mutex, serverVars, stats, afd, wpc, wfd, spc, open, envVars>>

PollReady ==
    /\ AtMain("poll") /\ (backlog > 0 \/ listener = "shut")
    /\ apc' = "accept"
    /\ UNCHANGED <<queueVars, mutex, serverVars, stats, afd, wpc, wfd, spc, open, envVars>>

PollTimeout ==
    /\ AtMain("poll") /\ backlog = 0 /\ listener = "open"
    /\ apc' = "loop"
    /\ UNCHANGED <<queueVars, mutex, serverVars, stats, afd, wpc, wfd, spc, open, envVars>>

\* EINTR from poll, or EINTR or EAGAIN from accept: back to the loop test.
Interrupted ==
    /\ (AtMain("poll") \/ AtMain("accept")) /\ Fault
    /\ apc' = "loop"
    /\ UNCHANGED <<queueVars, mutex, serverVars, stats, afd, wpc, wfd, spc, open, backlog, conns>>

\* Any other error of poll: counted, and the loop is left.
PollFails ==
    /\ AtMain("poll") /\ Fault
    /\ Bump("errors") /\ apc' = "drain"
    /\ UNCHANGED <<queueVars, mutex, serverVars, afd, wpc, wfd, spc, open, backlog, conns>>

Accept(fd) ==
    /\ AtMain("accept") /\ backlog > 0 /\ fd \notin open
    /\ open' = open \cup {fd} /\ backlog' = backlog - 1
    /\ afd' = fd /\ apc' = "count"
    /\ UNCHANGED <<queueVars, mutex, serverVars, stats, wpc, wfd, spc, conns, faults>>

\* accept fails on a listener that was shut down; server_stop set the flag first.
AcceptShut ==
    /\ AtMain("accept") /\ listener = "shut" /\ stop_requested
    /\ apc' = "drain"
    /\ UNCHANGED <<queueVars, mutex, serverVars, stats, afd, wpc, wfd, spc, open, envVars>>

\* EMFILE, ENFILE, ECONNABORTED: counted unless the server is stopping.
AcceptFails ==
    /\ AtMain("accept") /\ listener = "open" /\ Fault
    /\ IF stop_requested
       THEN apc' = "drain" /\ UNCHANGED stats
       ELSE apc' = "loop" /\ Bump("errors")
    /\ UNCHANGED <<queueVars, mutex, serverVars, afd, wpc, wfd, spc, open, backlog, conns>>

CountAccepted ==
    /\ AtMain("count")
    /\ Bump("accepted") /\ apc' = "push"
    /\ UNCHANGED <<queueVars, mutex, serverVars, afd, wpc, wfd, spc, open, envVars>>

PushLock ==
    /\ AtMain("push") /\ Lock(Main)
    /\ apc' = "pushing"
    /\ UNCHANGED <<queueVars, serverVars, stats, afd, wpc, wfd, spc, open, envVars>>

\* Mutants of TryPush: wrong test for "full"; closed not tested; no unlock on
\* the early exit; a signal only when the queue was empty; no signal at all.
TryPushWith(refused, unlocked, signals) ==
    /\ AtMain("pushing") /\ mutex = Main
    /\ mutex' = IF unlocked THEN Nobody ELSE Main
    /\ IF refused
       THEN apc' = "drop" /\ UNCHANGED <<queueVars, afd, wpc>>
       ELSE /\ fds' = [fds EXCEPT ![tail] = afd]
            /\ tail' = Inc(tail) /\ count' = count + 1
            /\ IF signals THEN Signal ELSE UNCHANGED wpc
            /\ afd' = NoFd /\ apc' = "loop" /\ UNCHANGED <<head, closed>>
    /\ UNCHANGED <<serverVars, stats, wfd, spc, open, envVars>>
TryPushOverfull == TryPushWith(closed \/ count > Capacity, TRUE, TRUE)
TryPushWhenClosed == TryPushWith(count = Capacity, TRUE, TRUE)
TryPushSignalsIfEmpty == TryPushWith(closed \/ count = Capacity, TRUE, count = 0)
TryPushNoSignal == TryPushWith(closed \/ count = Capacity, TRUE, FALSE)

\* queue_try_push: never waits; refuses when closed or full.
TryPush ==
    /\ AtMain("pushing") /\ mutex = Main
    /\ mutex' = Nobody
    /\ IF closed \/ count = Capacity
       THEN /\ apc' = "drop"
            /\ UNCHANGED <<queueVars, afd, wpc>>
       ELSE /\ fds' = [fds EXCEPT ![tail] = afd]
            /\ tail' = Inc(tail) /\ count' = count + 1
            /\ Signal
            /\ afd' = NoFd /\ apc' = "loop"
            /\ UNCHANGED <<head, closed>>
    /\ UNCHANGED <<serverVars, stats, wfd, spc, open, envVars>>

\* Mutant of CountDropped: only a full queue counts as a drop.
CountDroppedIfFull ==
    /\ AtMain("drop")
    /\ (IF closed THEN UNCHANGED stats ELSE Bump("dropped")) /\ apc' = "shed"
    /\ UNCHANGED <<queueVars, mutex, serverVars, afd, wpc, wfd, spc, open, envVars>>

CountDropped ==
    /\ AtMain("drop")
    /\ Bump("dropped") /\ apc' = "shed"
    /\ UNCHANGED <<queueVars, mutex, serverVars, afd, wpc, wfd, spc, open, envVars>>

CloseDropped ==
    /\ AtMain("shed")
    /\ open' = open \ {afd} /\ afd' = NoFd /\ apc' = "loop"
    /\ UNCHANGED <<queueVars, mutex, serverVars, stats, wpc, wfd, spc, envVars>>

DrainLock ==
    /\ AtMain("drain") /\ Lock(Main)
    /\ apc' = "draining"
    /\ UNCHANGED <<queueVars, serverVars, stats, afd, wpc, wfd, spc, open, envVars>>

DrainClose ==
    /\ AtMain("draining") /\ QueueClose(Main)
    /\ apc' = IF rc = "failed" THEN "abort" ELSE "join"
    /\ UNCHANGED <<serverVars, stats, afd, wfd, spc, open, envVars>>

\* The rest of the inline server_stop of a failed start.
AbortShutdown ==
    /\ AtMain("abort") /\ ShutdownListener
    /\ apc' = "join"
    /\ UNCHANGED <<queueVars, mutex, stop_requested, rc, stats, afd, wpc, wfd, spc, open,
                   conns, faults>>

\* Mutant of Join: the first worker to end is taken for all of them.
JoinOne ==
    /\ AtMain("join") /\ \E w \in Workers : wpc[w] \in {"none", "exited"}
    /\ apc' = "close"
    /\ UNCHANGED <<queueVars, mutex, serverVars, stats, afd, wpc, wfd, spc, open, envVars>>

Join ==
    /\ AtMain("join") /\ \A w \in Workers : wpc[w] \in {"none", "exited"}
    /\ apc' = "close"
    /\ UNCHANGED <<queueVars, mutex, serverVars, stats, afd, wpc, wfd, spc, open, envVars>>

\* close(listen_fd): the field still holds the closed descriptor.
CloseListener ==
    /\ AtMain("close")
    /\ listener' = "closed" /\ backlog' = 0 /\ apc' = "forget"
    /\ UNCHANGED <<queueVars, mutex, stop_requested, rc, stats, afd, wpc, wfd, spc, open,
                   conns, faults>>

\* listen_fd = -1; return.
RunReturns ==
    /\ AtMain("forget")
    /\ listener' = "none" /\ apc' = "returned"
    /\ rc' = IF rc = "failed" THEN "failed" ELSE "ok"
    /\ UNCHANGED <<queueVars, mutex, stop_requested, stats, afd, wpc, wfd, spc, open, envVars>>

Acceptor ==
    \/ RunStart \/ RunStartFails \/ (\E w \in Workers : Spawn(w)) \/ Spawned \/ SpawnFails
    \/ LoopTest \/ PollReady \/ PollTimeout \/ Interrupted \/ PollFails
    \/ (\E fd \in Fds : Accept(fd)) \/ AcceptShut \/ AcceptFails
    \/ CountAccepted \/ PushLock \/ TryPush \/ CountDropped \/ CloseDropped
    \/ DrainLock \/ DrainClose \/ AbortShutdown \/ Join \/ CloseListener \/ RunReturns

-----------------------------------------------------------------------------
(* worker_main *)

AtWorker(w, pc) == wpc[w] = pc /\ Free(w)

WorkerGoto(w, pc) == wpc' = [wpc EXCEPT ![w] = pc]

PopLock(w) ==
    /\ AtWorker(w, "lock") /\ Lock(w)
    /\ WorkerGoto(w, "popping")
    /\ UNCHANGED <<queueVars, serverVars, stats, apc, afd, wfd, spc, open, envVars>>

\* pthread_cond_wait(not_empty): releases the mutex while it waits.
PopWait(w) ==
    /\ AtWorker(w, "popping") /\ mutex = w
    /\ count = 0 /\ ~closed
    /\ mutex' = Nobody /\ WorkerGoto(w, "wait")
    /\ UNCHANGED <<queueVars, serverVars, stats, apc, afd, wfd, spc, open, envVars>>

SpuriousWakeup(w) ==
    /\ AtWorker(w, "wait") /\ Fault
    /\ WorkerGoto(w, "lock")
    /\ UNCHANGED <<queueVars, mutex, serverVars, stats, apc, afd, wfd, spc, open, backlog, conns>>

\* Mutant of PopExit: the worker ends as soon as the queue is closed.
PopExitEarly(w) ==
    /\ AtWorker(w, "popping") /\ mutex = w /\ closed
    /\ mutex' = Nobody /\ WorkerGoto(w, "exited")
    /\ UNCHANGED <<queueVars, serverVars, stats, apc, afd, wfd, spc, open, envVars>>

\* Queue closed and drained: the worker ends.
PopExit(w) ==
    /\ AtWorker(w, "popping") /\ mutex = w
    /\ count = 0 /\ closed
    /\ mutex' = Nobody /\ WorkerGoto(w, "exited")
    /\ UNCHANGED <<queueVars, serverVars, stats, apc, afd, wfd, spc, open, envVars>>

\* Mutant of PopTake: head is not advanced.
PopTakeKeepsHead(w) ==
    /\ AtWorker(w, "popping") /\ mutex = w /\ count > 0
    /\ wfd' = [wfd EXCEPT ![w] = fds[head]]
    /\ count' = count - 1 /\ mutex' = Nobody /\ WorkerGoto(w, "handle")
    /\ UNCHANGED <<fds, head, tail, closed, serverVars, stats, apc, afd, spc, open, envVars>>

PopTake(w) ==
    /\ AtWorker(w, "popping") /\ mutex = w
    /\ count > 0
    /\ wfd' = [wfd EXCEPT ![w] = fds[head]]
    /\ head' = Inc(head) /\ count' = count - 1
    /\ mutex' = Nobody /\ WorkerGoto(w, "handle")
    /\ UNCHANGED <<fds, tail, closed, serverVars, stats, apc, afd, spc, open, envVars>>

\* handle_client: set_timeouts or http_read_request fails, or a request was read.
Handle(w) ==
    /\ AtWorker(w, "handle")
    /\ \/ Bump("errors") /\ WorkerGoto(w, "failed")
       \/ Bump("http_requests") /\ WorkerGoto(w, "dispatch")
    /\ UNCHANGED <<queueVars, mutex, serverVars, apc, afd, wfd, spc, open, envVars>>

\* Mutant of Answer: a failed dispatch also counts in errors.
AnswerCountsTwice(w) ==
    /\ AtWorker(w, "failed") \/ AtWorker(w, "dispatch")
    /\ stats' = [stats EXCEPT !.http_errors = @ + 1, !.errors = @ + 1]
    /\ WorkerGoto(w, "close")
    /\ UNCHANGED <<queueVars, mutex, serverVars, apc, afd, wfd, spc, open, envVars>>

\* The failure's second counter, or what api_dispatch returned.
Answer(w) ==
    /\ \/ AtWorker(w, "failed") /\ Bump("http_errors")
       \/ AtWorker(w, "dispatch") /\ (Bump("http_errors") \/ UNCHANGED stats)
    /\ WorkerGoto(w, "close")
    /\ UNCHANGED <<queueVars, mutex, serverVars, apc, afd, wfd, spc, open, envVars>>

CloseHandled(w) ==
    /\ AtWorker(w, "close")
    /\ open' = open \ {wfd[w]} /\ wfd' = [wfd EXCEPT ![w] = NoFd]
    /\ WorkerGoto(w, "count")
    /\ UNCHANGED <<queueVars, mutex, serverVars, stats, apc, afd, spc, envVars>>

CountHandled(w) ==
    /\ AtWorker(w, "count")
    /\ Bump("handled") /\ WorkerGoto(w, "lock")
    /\ UNCHANGED <<queueVars, mutex, serverVars, apc, afd, wfd, spc, open, envVars>>

Worker(w) ==
    \/ PopLock(w) \/ PopWait(w) \/ PopExit(w) \/ PopTake(w)
    \/ Handle(w) \/ Answer(w) \/ CloseHandled(w) \/ CountHandled(w)

-----------------------------------------------------------------------------
(* server_stop, on a thread of its own or in a signal handler on thread c *)

StopGoto(c, pc) == spc' = [spc EXCEPT ![c] = pc]

StopCall(c) ==
    /\ spc[c] = "idle"
    /\ c \in Workers => wpc[c] \notin {"none", "exited"}
    /\ stop_requested' = TRUE /\ StopGoto(c, "lock")
    /\ UNCHANGED <<queueVars, mutex, listener, rc, stats, apc, afd, wpc, wfd, open, envVars>>

StopLock(c) ==
    /\ spc[c] = "lock" /\ Lock(c)
    /\ StopGoto(c, "closing")
    /\ UNCHANGED <<queueVars, serverVars, stats, apc, afd, wpc, wfd, open, envVars>>

StopClose(c) ==
    /\ spc[c] = "closing" /\ QueueClose(c)
    /\ StopGoto(c, "check")
    /\ UNCHANGED <<serverVars, stats, apc, afd, wfd, open, envVars>>

\* if (server->listen_fd >= 0)
StopCheck(c) ==
    /\ spc[c] = "check"
    /\ StopGoto(c, IF listener = "none" THEN "returned" ELSE "shutdown")
    /\ UNCHANGED <<queueVars, mutex, serverVars, stats, apc, afd, wpc, wfd, open, envVars>>

StopShutdown(c) ==
    /\ spc[c] = "shutdown" /\ ShutdownListener
    /\ StopGoto(c, "returned")
    /\ UNCHANGED <<queueVars, mutex, stop_requested, rc, stats, apc, afd, wpc, wfd, open,
                   conns, faults>>

Stop(c) == StopLock(c) \/ StopClose(c) \/ StopCheck(c) \/ StopShutdown(c)

-----------------------------------------------------------------------------
(* The clients, and the whole system *)

\* A client's connection is complete in the kernel's accept queue.
Connect ==
    /\ listener = "open" /\ conns < MaxConns
    /\ conns' = conns + 1 /\ backlog' = backlog + 1
    /\ UNCHANGED <<queueVars, mutex, serverVars, stats, apc, afd, wpc, wfd, spc, open, faults>>

Finished ==
    /\ apc = "returned" /\ \A c \in Callers : spc[c] \in {"idle", "returned"}
    /\ UNCHANGED vars

Next ==
    \/ Acceptor
    \/ \E w \in Workers : Worker(w) \/ SpuriousWakeup(w)
    \/ \E c \in Callers : StopCall(c) \/ Stop(c)
    \/ Connect
    \/ Finished

Spec == Init /\ [][Next]_vars

(***************************************************************************)
(* Fairness.  Every runnable thread is scheduled, and every blocking call  *)
(* of a thread returns: poll has a 100 ms timeout, recv and send have 5 s  *)
(* timeouts and a request is bounded, so handle_client ends.  Nothing is   *)
(* assumed of the clients, of failures and spurious wakeups, or of who     *)
(* calls server_stop.                                                      *)
(* All activity between two connections is bounded, so weak fairness of    *)
(* each thread is enough for it to get the mutex.                          *)
(***************************************************************************)
Fairness ==
    /\ WF_vars(Acceptor)
    /\ \A w \in Workers : WF_vars(Worker(w))
    /\ \A c \in Callers : WF_vars(Stop(c))

FairSpec == Spec /\ Fairness

-----------------------------------------------------------------------------
(* Safety *)

\* Every variable holds a value the code's types and control points allow.
TypeOK ==
    /\ fds \in [Slots -> Fds \cup {NoFd}]
    /\ head \in Slots /\ tail \in Slots /\ count \in 0 .. Capacity
    /\ closed \in BOOLEAN /\ mutex \in Threads \cup {Nobody}
    /\ listener \in {"none", "open", "shut", "closed"}
    /\ stop_requested \in BOOLEAN /\ rc \in {"running", "ok", "failed"}
    /\ stats \in [Counters -> Nat]
    /\ apc \in AcceptorPCs /\ afd \in Fds \cup {NoFd}
    /\ wpc \in [Workers -> WorkerPCs] /\ wfd \in [Workers -> Fds \cup {NoFd}]
    /\ spc \in [Callers -> StopPCs]
    /\ open \subseteq Fds /\ backlog \in Nat /\ conns \in 0 .. MaxConns
    /\ faults \in 0 .. MaxFaults

\* Slot j holds a queued connection: it is among the count slots from head on.
InWindow(j) ==
    IF head + count =< Capacity
    THEN head =< j /\ j < head + count
    ELSE head =< j \/ j < head + count - Capacity

\* Client descriptors a thread holds: the acceptor from accept to push or
\* close, a worker from pop to close.
HeldByMain == apc \in {"count", "push", "pushing", "drop", "shed"}
HeldBy(w) == wpc[w] \in {"handle", "failed", "dispatch", "close"}

\* Every open client descriptor has exactly one owner: one queue slot, the
\* acceptor or one worker; and nobody owns a closed one.  So server_run and
\* worker_main close each accepted connection once, never two of them the
\* same one and never a descriptor that the kernel has given out again.
Ownership ==
    /\ \A j \in Slots : InWindow(j) => fds[j] \in open
    /\ \A w \in Workers : HeldBy(w) => wfd[w] \in open
    /\ HeldByMain => afd \in open
    /\ \A fd \in open : \/ \E j \in Slots : InWindow(j) /\ fds[j] = fd
                        \/ \E w \in Workers : HeldBy(w) /\ wfd[w] = fd
                        \/ HeldByMain /\ afd = fd
    /\ \A i, j \in Slots : InWindow(i) /\ InWindow(j) /\ fds[i] = fds[j] => i = j
    /\ \A v, w \in Workers : HeldBy(v) /\ HeldBy(w) /\ wfd[v] = wfd[w] => v = w
    /\ \A j \in Slots, w \in Workers : InWindow(j) /\ HeldBy(w) => fds[j] # wfd[w]
    /\ HeldByMain => /\ \A j \in Slots : InWindow(j) => fds[j] # afd
                     /\ \A w \in Workers : HeldBy(w) => wfd[w] # afd

\* Workers on their way into the queue, and workers between close and counter.
Awake == {w \in Workers : wpc[w] \in {"lock", "popping"}}
Finishing == {w \in Workers : wpc[w] = "count"}

\* No wakeup is lost in queue_try_push, queue_pop or queue_close: while a worker
\* sleeps in pthread_cond_wait, every queued connection has an awake worker on
\* its way to it; and nobody sleeps on a closed queue.
NoLostWakeup ==
    Waiting # {} =>
        /\ ~closed
        /\ count =< Cardinality(Awake)

One(b) == IF b THEN 1 ELSE 0

\* The counters of /metrics account for every connection: accepted is dropped
\* plus handled plus those still open, up to the step between a close() and its
\* counter.  So "handled + dropped" never runs ahead of "accepted".
Conservation ==
    /\ stats.accepted + One(apc = "count") + One(apc = "shed") =
          stats.handled + stats.dropped + Cardinality(open) + Cardinality(Finishing)
    /\ stats.handled + stats.dropped =< stats.accepted

\* Each connection a worker takes is counted in exactly one of http_requests and
\* errors; what errors has beyond that came from failing accept and poll calls.
Classified ==
    LET judged == {w \in Workers : wpc[w] \in {"failed", "dispatch", "close", "count"}}
        beyond == stats.http_requests + stats.errors - stats.handled - Cardinality(judged)
    IN  beyond \in 0 .. faults

\* When a worker ends, and so when server_run returns, the queue is closed and
\* empty for good, and at the return no accepted connection is left open or
\* unaccounted for: the "graceful drain" of server_run.
Drained ==
    /\ (\E w \in Workers : wpc[w] = "exited") => closed /\ count = 0
    /\ apc = "returned" =>
          /\ count = 0 /\ open = {}
          /\ \A w \in Workers : wpc[w] \in {"none", "exited"}
          /\ stats.accepted = stats.handled + stats.dropped

-----------------------------------------------------------------------------
(* Liveness *)

\* After server_stop, whoever calls it and wherever the other threads are,
\* server_run returns; and the call of server_stop, once begun, returns itself.
StopReturns ==
    /\ stop_requested ~> apc = "returned"
    /\ \A c \in Callers : spc[c] = "lock" ~> spc[c] = "returned"

\* Every connection that server_run accepts is closed in the end, be it served
\* by a worker, dropped by the acceptor, or in the queue when the server stops.
EveryConnectionServed == \A fd \in Fds : fd \in open ~> fd \notin open

-----------------------------------------------------------------------------
(* What the comments of the code say, checked by runs that find a violation *)

\* main.c calls the signal handler's work async-signal-safe: a call of
\* server_stop never waits for a mutex that the interrupted thread holds.
StopNeverWaitsForItself == \A c \in Callers : ~(spc[c] = "lock" /\ mutex = c)

-----------------------------------------------------------------------------
(* The queue implements an abstract bounded FIFO *)

Contents == [i \in 1 .. count |-> fds[(head + i - 1) % Capacity]]

Fifo == INSTANCE BoundedFifo WITH Items <- Fds, queue <- Contents

\* The ring of queue_try_push, queue_pop and queue_close, used by the acceptor,
\* the workers and the stop calls in any order, is a bounded FIFO: connections
\* leave in the order they entered, none is lost, duplicated or overwritten.  A
\* close is final: nothing enters afterwards, whatever the acceptor has in hand,
\* and a server stopped before or during server_run stays stopped.
ImplementsFifo == Fifo!Spec
=============================================================================
