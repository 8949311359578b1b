-------------------------- MODULE ThreadPoolProofs --------------------------
(***************************************************************************)
(* Proofs about ThreadPool, for any number of workers, any queue capacity, *)
(* any descriptor limit and any set of threads that call server_stop.      *)
(***************************************************************************)
EXTENDS ThreadPool, FiniteSetTheorems, SequenceTheorems, TLAPS

\* The ring index of queue_try_push and queue_pop stays inside the ring and
\* wraps from the last slot to slot 0.
LEMMA IncWraps ==
    ASSUME NEW i \in Slots
    PROVE  /\ Inc(i) \in Slots
           /\ Inc(i) = IF i + 1 = Capacity THEN 0 ELSE i + 1
BY CapacityAssumption, SMT DEF Inc, Slots

\* The step of the type invariant.  Each group of actions changes the same few
\* variables; the ring and the counters are the ones with something to show.
LEMMA TypeStep == TypeOK /\ [Next]_vars => TypeOK'
<1> SUFFICES ASSUME TypeOK, [Next]_vars PROVE TypeOK'
  OBVIOUS
<1> USE DEF TypeOK, queueVars, envVars, serverVars, AcceptorPCs, WorkerPCs, StopPCs, Counters
<1> DEFINE Quiet == Spawned \/ LoopTest \/ PollReady \/ PollTimeout \/ AcceptShut \/ Join
<1> DEFINE Starts == RunStart \/ RunStartFails \/ SpawnFails \/ Interrupted
<1> DEFINE Returns == CloseListener \/ RunReturns
<1> DEFINE Counts == PollFails \/ AcceptFails \/ CountAccepted \/ CountDropped
<1> DEFINE Locks == PushLock \/ DrainLock
<1>1. CASE Quiet
  BY <1>1 DEF Spawned, LoopTest, PollReady, PollTimeout, AcceptShut, Join
<1>2. CASE Starts
  <2>1. faults' \in 0 .. MaxFaults
    BY <1>2, BoundsAssumption DEF RunStart, RunStartFails, SpawnFails, Interrupted, Fault
  <2>2. QED
    BY <1>2, <2>1 DEF RunStart, RunStartFails, SpawnFails, Interrupted
<1>3. CASE Counts
  BY <1>3, BoundsAssumption DEF PollFails, AcceptFails, CountAccepted, CountDropped, Bump, Fault
<1>4. CASE Locks
  BY <1>4 DEF PushLock, DrainLock, Lock, Threads
<1>5. CASE \E w \in Workers : Spawn(w)
  BY <1>5 DEF Spawn
<1>6. CASE \E fd \in Fds : Accept(fd)
  BY <1>6 DEF Accept
<1>7. CASE CloseDropped
  BY <1>7 DEF CloseDropped
<1>8. CASE TryPush
  <2>1. Inc(tail) \in Slots
    BY IncWraps
  <2>2. wpc' \in [Workers -> WorkerPCs]
    BY <1>8 DEF TryPush, Signal, Waiting
  <2>3. count' \in 0 .. Capacity
    BY <1>8, CapacityAssumption DEF TryPush
  <2>4. QED
    BY <1>8, <2>1, <2>2, <2>3 DEF TryPush
<1>9. CASE DrainClose
  BY <1>9 DEF DrainClose, QueueClose
<1>10. CASE AbortShutdown
  BY <1>10 DEF AbortShutdown, ShutdownListener
<1>11. ASSUME NEW w \in Workers, Worker(w) \/ SpuriousWakeup(w) PROVE TypeOK'
  <2>1. CASE PopLock(w) \/ PopWait(w) \/ PopExit(w)
    BY <2>1 DEF PopLock, PopWait, PopExit, Lock, WorkerGoto, Threads
  <2>2. CASE SpuriousWakeup(w)
    BY <2>2, BoundsAssumption DEF SpuriousWakeup, WorkerGoto, Fault
  <2>3. CASE PopTake(w)
    <3>1. Inc(head) \in Slots
      BY IncWraps
    <3>2. count' \in 0 .. Capacity
      BY <2>3, CapacityAssumption DEF PopTake
    <3>3. QED
      BY <2>3, <3>1, <3>2 DEF PopTake, WorkerGoto
  <2>4. CASE Handle(w) \/ Answer(w) \/ CountHandled(w)
    <3>1. \A c \in Counters : Bump(c) => stats' \in [Counters -> Nat]
      BY DEF Bump
    <3>2. stats' \in [Counters -> Nat]
      BY <2>4, <3>1 DEF Handle, Answer, CountHandled
    <3>3. wpc' \in [Workers -> WorkerPCs]
      BY <2>4 DEF Handle, Answer, CountHandled, WorkerGoto
    <3>4. UNCHANGED <<queueVars, mutex, serverVars, apc, afd, wfd, spc, open, envVars>>
      BY <2>4 DEF Handle, Answer, CountHandled
    <3>5. QED
      BY <3>2, <3>3, <3>4
  <2>5. CASE CloseHandled(w)
    BY <2>5 DEF CloseHandled, WorkerGoto
  <2>6. QED
    BY <1>11, <2>1, <2>2, <2>3, <2>4, <2>5 DEF Worker
<1>12. ASSUME NEW c \in Callers, StopCall(c) \/ Stop(c) PROVE TypeOK'
  <2>1. CASE StopCall(c)
    BY <2>1 DEF StopCall, StopGoto
  <2>5. CASE StopCheck(c)
    <3>1. spc' \in [Callers -> StopPCs]
      BY <2>5 DEF StopCheck, StopGoto
    <3>2. QED
      BY <2>5, <3>1 DEF StopCheck
  <2>2. CASE StopLock(c)
    BY <2>2 DEF StopLock, StopGoto, Lock, Threads
  <2>3. CASE StopClose(c)
    BY <2>3 DEF StopClose, StopGoto, QueueClose
  <2>4. CASE StopShutdown(c)
    BY <2>4 DEF StopShutdown, StopGoto, ShutdownListener
  <2>6. QED
    BY <1>12, <2>1, <2>2, <2>3, <2>4, <2>5 DEF Stop
<1>16. CASE Returns
  BY <1>16 DEF CloseListener, RunReturns
<1>13. CASE Connect
  BY <1>13, BoundsAssumption DEF Connect
<1>14. CASE UNCHANGED vars
  BY <1>14 DEF vars
<1>15. QED
  BY <1>1, <1>2, <1>3, <1>4, <1>5, <1>6, <1>7, <1>8, <1>9, <1>10, <1>11, <1>12, <1>13, <1>14, <1>16
     DEF Next, Acceptor, Finished

\* Initially everything has its type.
LEMMA TypeInit == Init => TypeOK
<1>1. 0 \in Slots /\ 0 \in 0 .. Capacity
  BY CapacityAssumption DEF Slots
<1>2. 0 \in 0 .. MaxConns /\ 0 \in 0 .. MaxFaults
  BY BoundsAssumption
<1> SUFFICES ASSUME Init PROVE TypeOK
  OBVIOUS
<1>3. fds \in [Slots -> Fds \cup {NoFd}] /\ stats \in [Counters -> Nat]
  BY DEF Init
<1>4. wpc \in [Workers -> WorkerPCs] /\ wfd \in [Workers -> Fds \cup {NoFd}]
  BY DEF Init, WorkerPCs
<1>5. spc \in [Callers -> StopPCs]
  BY DEF Init, StopPCs
<1>6. apc \in AcceptorPCs
  BY DEF Init, AcceptorPCs
<1>7. /\ head = 0 /\ tail = 0 /\ count = 0 /\ closed = FALSE /\ mutex = Nobody
      /\ listener = "none" /\ stop_requested = FALSE /\ rc = "running"
      /\ afd = NoFd /\ open = {} /\ backlog = 0 /\ conns = 0 /\ faults = 0
  BY DEF Init
<1>8. QED
  BY <1>1, <1>2, <1>3, <1>4, <1>5, <1>6, <1>7 DEF TypeOK

\* The control points and the ranges of server.c: no index leaves the ring, the
\* count never passes the capacity, and no step leaves its control points.
THEOREM TypeCorrect == Spec => []TypeOK
BY TypeInit, TypeStep, PTL DEF Spec

-----------------------------------------------------------------------------
(***************************************************************************)
(* Ownership of descriptors.  It is not inductive by itself: that a push    *)
(* overwrites no queued connection needs tail to be where the window of     *)
(* queued slots ends.                                                       *)
(***************************************************************************)
Ring == tail = IF head + count < Capacity THEN head + count ELSE head + count - Capacity

\* A push adds the tail slot, which was free, to the queued ones, and tail moves
\* to the end of the larger window.
LEMMA PushWindow ==
    ASSUME TypeOK, Ring, count # Capacity,
           head' = head, count' = count + 1, tail' = Inc(tail)
    PROVE  /\ ~InWindow(tail)
           /\ \A j \in Slots : InWindow(j)' <=> InWindow(j) \/ j = tail
           /\ Ring'
<1>1. /\ head \in 0 .. Capacity - 1 /\ tail \in 0 .. Capacity - 1
      /\ count \in 0 .. Capacity - 1 /\ Capacity \in Nat \ {0}
  BY CapacityAssumption DEF TypeOK, Slots
<1>2. tail' = IF tail + 1 = Capacity THEN 0 ELSE tail + 1
  BY IncWraps DEF TypeOK
<1>3. QED
  BY <1>1, <1>2 DEF InWindow, Ring, Slots

\* A pop removes the head slot, which was queued, from the queued ones.
LEMMA PopWindow ==
    ASSUME TypeOK, Ring, count > 0,
           head' = Inc(head), count' = count - 1, tail' = tail
    PROVE  /\ InWindow(head)
           /\ \A j \in Slots : InWindow(j)' <=> InWindow(j) /\ j # head
           /\ Ring'
<1>1. /\ head \in 0 .. Capacity - 1 /\ tail \in 0 .. Capacity - 1
      /\ count \in 1 .. Capacity /\ Capacity \in Nat \ {0}
  BY CapacityAssumption DEF TypeOK, Slots
<1>2. head' = IF head + 1 = Capacity THEN 0 ELSE head + 1
  BY IncWraps DEF TypeOK
<1>3. QED
  BY <1>1, <1>2 DEF InWindow, Ring, Slots

\* Steps that move no descriptor keep the ring and the owners.
LEMMA SameOwners ==
    ASSUME Ring, Ownership,
           UNCHANGED <<fds, head, tail, count, open, afd, wfd>>,
           HeldByMain' <=> HeldByMain,
           \A w \in Workers : HeldBy(w)' <=> HeldBy(w)
    PROVE  Ring' /\ Ownership'
<1>1. \A j \in Slots : InWindow(j)' <=> InWindow(j)
  BY DEF InWindow
<1>2. QED
  BY <1>1 DEF Ring, Ownership

\* A signal, a broadcast or a spurious wakeup changes only waiting workers, so
\* it changes no worker that holds a descriptor.
LEMMA WakeKeepsHolders ==
    ASSUME TypeOK, Signal \/ (\E t \in Threads : QueueClose(t)) \/ (\E w \in Workers : SpuriousWakeup(w))
    PROVE  \A w \in Workers : HeldBy(w)' <=> HeldBy(w)
<1>1. CASE Signal
  BY <1>1 DEF Signal, Waiting, HeldBy, TypeOK
<1>2. CASE \E t \in Threads : QueueClose(t)
  BY <1>2 DEF QueueClose, HeldBy, TypeOK
<1>3. CASE \E w \in Workers : SpuriousWakeup(w)
  BY <1>3 DEF SpuriousWakeup, AtWorker, WorkerGoto, HeldBy, TypeOK
<1>4. QED
  BY <1>1, <1>2, <1>3

\* The step of the ownership invariant: five actions move a descriptor.
LEMMA OwnershipStep ==
    ASSUME TypeOK, Ring, Ownership, [Next]_vars
    PROVE  Ring' /\ Ownership'
<1> USE DEF queueVars, serverVars, envVars
<1> DEFINE Idle == RunStart \/ RunStartFails \/ Spawned \/ SpawnFails \/ LoopTest \/ PollReady
                   \/ PollTimeout \/ Interrupted \/ PollFails \/ AcceptShut \/ AcceptFails
                   \/ DrainLock \/ AbortShutdown \/ Join \/ CloseListener \/ RunReturns
<1> DEFINE Holds == CountAccepted \/ PushLock \/ CountDropped
<1>1. CASE Idle
  <2>1. /\ UNCHANGED <<fds, head, tail, count, open, afd, wfd, wpc>>
        /\ ~HeldByMain /\ ~HeldByMain'
    BY <1>1 DEF HeldByMain, AtMain, RunStart, RunStartFails, Spawned, SpawnFails, LoopTest,
       PollReady, PollTimeout, Interrupted, PollFails, AcceptShut, AcceptFails, DrainLock,
       AbortShutdown, Join, CloseListener, RunReturns
  <2>2. QED
    BY <2>1, SameOwners DEF HeldBy
<1>2. CASE Holds
  <2>1. /\ UNCHANGED <<fds, head, tail, count, open, afd, wfd, wpc>>
        /\ HeldByMain /\ HeldByMain'
    BY <1>2 DEF HeldByMain, AtMain, CountAccepted, PushLock, CountDropped
  <2>2. QED
    BY <2>1, SameOwners DEF HeldBy
<1>3. ASSUME NEW w \in Workers, Spawn(w) PROVE Ring' /\ Ownership'
  <2>1. \A v \in Workers : HeldBy(v)' <=> HeldBy(v)
    BY <1>3 DEF Spawn, HeldBy, TypeOK
  <2>2. QED
    BY <1>3, <2>1, SameOwners DEF Spawn, HeldByMain
<1>4. ASSUME NEW fd \in Fds, Accept(fd) PROVE Ring' /\ Ownership'
  <2>1. /\ UNCHANGED <<fds, head, tail, count, wpc, wfd>>
        /\ open' = open \cup {fd} /\ fd \notin open /\ afd' = fd
        /\ ~HeldByMain /\ HeldByMain'
    BY <1>4 DEF Accept, AtMain, HeldByMain
  <2>2. (\A j \in Slots : InWindow(j)' <=> InWindow(j)) /\ (\A w \in Workers : HeldBy(w)' <=> HeldBy(w))
    BY <2>1 DEF InWindow, HeldBy
  <2>3. QED
    BY <2>1, <2>2 DEF Ring, Ownership
<1>5. CASE TryPush
  <2>1. CASE closed \/ count = Capacity
    <3>1. /\ UNCHANGED <<fds, head, tail, count, open, afd, wfd, wpc>>
          /\ HeldByMain /\ HeldByMain'
      BY <1>5, <2>1 DEF TryPush, AtMain, HeldByMain
    <3>2. QED
      BY <3>1, SameOwners DEF HeldBy
  <2>2. CASE ~(closed \/ count = Capacity)
    <3>1. /\ fds' = [fds EXCEPT ![tail] = afd] /\ tail' = Inc(tail) /\ count' = count + 1
          /\ UNCHANGED <<head, open, wfd>> /\ Signal
          /\ HeldByMain /\ ~HeldByMain'
      BY <1>5, <2>2 DEF TryPush, AtMain, HeldByMain
    <3>2. \A w \in Workers : HeldBy(w)' <=> HeldBy(w)
      BY <3>1, WakeKeepsHolders
    <3>3. /\ ~InWindow(tail) /\ Ring'
          /\ \A j \in Slots : InWindow(j)' <=> InWindow(j) \/ j = tail
      BY <2>2, <3>1, PushWindow
    <3>4. /\ tail \in Slots /\ fds'[tail] = afd
          /\ \A j \in Slots : j # tail => fds'[j] = fds[j]
      BY <3>1 DEF TypeOK
    <3>5. QED
      BY <3>1, <3>2, <3>3, <3>4 DEF Ownership
  <2>3. QED
    BY <2>1, <2>2
<1>6. CASE CloseDropped
  <2>1. /\ UNCHANGED <<fds, head, tail, count, wpc, wfd>>
        /\ open' = open \ {afd} /\ HeldByMain /\ ~HeldByMain'
    BY <1>6 DEF CloseDropped, AtMain, HeldByMain
  <2>2. (\A j \in Slots : InWindow(j)' <=> InWindow(j)) /\ (\A w \in Workers : HeldBy(w)' <=> HeldBy(w))
    BY <2>1 DEF InWindow, HeldBy
  <2>3. QED
    BY <2>1, <2>2 DEF Ring, Ownership
<1>7. CASE DrainClose
  <2>1. /\ UNCHANGED <<fds, head, tail, count, open, afd, wfd>> /\ QueueClose(Main)
        /\ ~HeldByMain /\ ~HeldByMain'
    BY <1>7 DEF DrainClose, QueueClose, AtMain, HeldByMain
  <2>2. QED
    BY <2>1, WakeKeepsHolders, SameOwners DEF Threads
<1>8. ASSUME NEW w \in Workers, Worker(w) \/ SpuriousWakeup(w) PROVE Ring' /\ Ownership'
  <2> HeldByMain' <=> HeldByMain
    BY <1>8 DEF HeldByMain, Worker, PopLock, PopWait, PopExit, PopTake, Handle, Answer, CloseHandled,
       CountHandled, SpuriousWakeup
  <2>1. CASE PopLock(w) \/ PopWait(w) \/ PopExit(w) \/ Handle(w) \/ Answer(w) \/ CountHandled(w)
    <3>1. /\ UNCHANGED <<fds, head, tail, count, open, afd, wfd>>
          /\ \A v \in Workers : HeldBy(v)' <=> HeldBy(v)
      BY <2>1 DEF PopLock, PopWait, PopExit, Handle, Answer, CountHandled, AtWorker, WorkerGoto,
         HeldBy, TypeOK
    <3>2. QED
      BY <3>1, SameOwners
  <2>2. CASE SpuriousWakeup(w)
    <3>1. UNCHANGED <<fds, head, tail, count, open, afd, wfd>>
      BY <2>2 DEF SpuriousWakeup
    <3>2. QED
      BY <2>2, <3>1, WakeKeepsHolders, SameOwners
  <2>3. CASE PopTake(w)
    <3>1. /\ UNCHANGED <<fds, tail, open, afd>> /\ count > 0
          /\ head' = Inc(head) /\ count' = count - 1
      BY <2>3 DEF PopTake
    <3>2. /\ ~HeldBy(w) /\ HeldBy(w)' /\ wfd'[w] = fds[head]
          /\ \A v \in Workers : v # w => (HeldBy(v)' <=> HeldBy(v)) /\ wfd'[v] = wfd[v]
      BY <2>3 DEF PopTake, AtWorker, WorkerGoto, HeldBy, TypeOK
    <3>3. /\ InWindow(head) /\ Ring'
          /\ \A j \in Slots : InWindow(j)' <=> InWindow(j) /\ j # head
      BY <3>1, PopWindow
    <3>4. head \in Slots
      BY DEF TypeOK
    <3>5. QED
      BY <3>1, <3>2, <3>3, <3>4 DEF Ownership
  <2>4. CASE CloseHandled(w)
    <3>1. UNCHANGED <<fds, head, tail, count, afd>> /\ open' = open \ {wfd[w]}
      BY <2>4 DEF CloseHandled
    <3>2. /\ HeldBy(w) /\ ~HeldBy(w)'
          /\ \A v \in Workers : v # w => (HeldBy(v)' <=> HeldBy(v)) /\ wfd'[v] = wfd[v]
      BY <2>4 DEF CloseHandled, AtWorker, WorkerGoto, HeldBy, TypeOK
    <3>3. \A j \in Slots : InWindow(j)' <=> InWindow(j)
      BY <3>1 DEF InWindow
    <3>4. QED
      BY <3>1, <3>2, <3>3 DEF Ring, Ownership
  <2>5. QED
    BY <1>8, <2>1, <2>2, <2>3, <2>4 DEF Worker
<1>9. ASSUME NEW c \in Callers, StopCall(c) \/ Stop(c) PROVE Ring' /\ Ownership'
  <2>1. UNCHANGED <<fds, head, tail, count, open, afd, wfd, apc>>
    BY <1>9 DEF Stop, StopCall, StopLock, StopClose, StopCheck, StopShutdown, QueueClose
  <2>2. UNCHANGED wpc \/ QueueClose(c)
    BY <1>9 DEF Stop, StopCall, StopLock, StopClose, StopCheck, StopShutdown
  <2>3. \A w \in Workers : HeldBy(w)' <=> HeldBy(w)
    BY <2>2, WakeKeepsHolders DEF HeldBy, Threads
  <2>4. QED
    BY <2>1, <2>3, SameOwners DEF HeldByMain
<1>10. CASE Connect \/ UNCHANGED vars
  BY <1>10, SameOwners DEF Connect, vars, HeldBy, HeldByMain
<1>11. QED
  BY <1>1, <1>2, <1>3, <1>4, <1>5, <1>6, <1>7, <1>8, <1>9, <1>10 DEF Next, Acceptor, Finished

\* Every accepted connection has exactly one owner until it is closed, whatever
\* the number of workers, the capacity and the threads that stop the server.
THEOREM OwnershipHolds == Spec => []Ownership
<1>1. Init => Ring /\ Ownership
  BY CapacityAssumption DEF Init, Ring, Ownership, InWindow, HeldBy, HeldByMain, Slots
<1>2. TypeOK /\ Ring /\ Ownership /\ [Next]_vars => (Ring /\ Ownership)'
  BY OwnershipStep
<1>3. QED
  BY <1>1, <1>2, TypeCorrect, PTL DEF Spec

-----------------------------------------------------------------------------
(***************************************************************************)
(* No lost wakeup.  The invariant counts awake workers against queued      *)
(* connections, and is inductive together with the types.                  *)
(***************************************************************************)

\* Sets of workers are finite.
LEMMA AwakeFinite == IsFiniteSet(Awake) /\ Cardinality(Awake) \in Nat
BY WorkersAssumption, FS_Subset, FS_CardinalityType DEF Awake

\* A step after which no worker sleeps keeps the invariant.
LEMMA NobodySleeps == ASSUME Waiting' = {} PROVE NoLostWakeup'
BY DEF NoLostWakeup

\* A step that keeps the queue and loses neither sleepers nor awake workers.
LEMMA SameWakeups ==
    ASSUME NoLostWakeup, UNCHANGED <<count, closed>>, Waiting' \subseteq Waiting, Awake' = Awake
    PROVE  NoLostWakeup'
BY DEF NoLostWakeup

\* A step that makes one more worker awake and queues at most one connection.
LEMMA OneMoreAwake ==
    ASSUME TypeOK, NoLostWakeup, UNCHANGED closed, count' = count \/ count' = count + 1,
           Waiting # {} \/ count' = count,
           NEW w \in Workers, w \notin Awake, Awake' = Awake \cup {w}, Waiting' \subseteq Waiting
    PROVE  NoLostWakeup'
<1>1. Cardinality(Awake') = Cardinality(Awake) + 1
  BY AwakeFinite, FS_AddElement
<1>2. count \in Nat
  BY CapacityAssumption DEF TypeOK
<1>3. QED
  BY <1>1, <1>2, AwakeFinite DEF NoLostWakeup

\* The step: a worker only falls asleep on an empty open queue, a push wakes a
\* sleeper if there is one, and a close wakes them all.
LEMMA WakeupStep ==
    ASSUME TypeOK, NoLostWakeup, [Next]_vars
    PROVE  NoLostWakeup'
<1> USE DEF queueVars, serverVars, envVars
<1>1. ASSUME UNCHANGED <<count, closed, wpc>> PROVE NoLostWakeup'
  BY <1>1, SameWakeups DEF Waiting, Awake
<1>2. ASSUME NEW t, QueueClose(t) PROVE NoLostWakeup'
  BY <1>2, NobodySleeps DEF QueueClose, Waiting, TypeOK
<1>3. ASSUME NEW w \in Workers, Spawn(w) PROVE NoLostWakeup'
  <2>1. w \notin Awake /\ Awake' = Awake \cup {w} /\ Waiting' = Waiting
    BY <1>3 DEF Spawn, Awake, Waiting, TypeOK
  <2>2. QED
    BY <1>3, <2>1, OneMoreAwake DEF Spawn
<1>4. CASE TryPush
  <2>1. CASE closed \/ count = Capacity
    BY <1>1, <1>4, <2>1 DEF TryPush
  <2>2. CASE ~(closed \/ count = Capacity)
    <3>1. Signal /\ count' = count + 1 /\ UNCHANGED closed
      BY <1>4, <2>2 DEF TryPush
    <3>2. CASE Waiting = {} /\ UNCHANGED wpc
      BY <3>2, NobodySleeps DEF Waiting
    <3>3. ASSUME NEW w \in Waiting, wpc' = [wpc EXCEPT ![w] = "lock"] PROVE NoLostWakeup'
      <4>1. w \in Workers /\ w \notin Awake /\ Awake' = Awake \cup {w} /\ Waiting' \subseteq Waiting
        BY <3>3 DEF Awake, Waiting, TypeOK
      <4>2. QED
        BY <3>1, <3>3, <4>1, OneMoreAwake
    <3>4. QED
      BY <3>1, <3>2, <3>3 DEF Signal
  <2>3. QED
    BY <2>1, <2>2
<1>5. ASSUME NEW w \in Workers, Worker(w) \/ SpuriousWakeup(w) PROVE NoLostWakeup'
  <2>1. CASE PopLock(w) \/ Handle(w) \/ Answer(w) \/ CloseHandled(w)
    <3>1. UNCHANGED <<count, closed>> /\ Waiting' = Waiting /\ Awake' = Awake
      BY <2>1 DEF PopLock, Handle, Answer, CloseHandled, AtWorker, WorkerGoto, Waiting, Awake, TypeOK
    <3>2. QED
      BY <3>1, SameWakeups
  <2>2. CASE PopWait(w)
    <3>1. count' = 0 /\ ~closed'
      BY <2>2 DEF PopWait
    <3>2. IsFiniteSet(Awake') /\ Cardinality(Awake') \in Nat
      BY WorkersAssumption, FS_Subset, FS_CardinalityType DEF Awake
    <3>3. QED
      BY <3>1, <3>2 DEF NoLostWakeup
  <2>3. CASE PopExit(w)
    <3>1. Waiting = {}
      BY <2>3 DEF PopExit, NoLostWakeup
    <3>2. Waiting' = {}
      BY <2>3, <3>1 DEF PopExit, WorkerGoto, Waiting, TypeOK
    <3>3. QED
      BY <3>2, NobodySleeps
  <2>4. CASE PopTake(w)
    <3>1. w \in Awake /\ Awake' = Awake \ {w} /\ Waiting' = Waiting
      BY <2>4 DEF PopTake, AtWorker, WorkerGoto, Awake, Waiting, TypeOK
    <3>2. Cardinality(Awake') = Cardinality(Awake) - 1
      BY <3>1, AwakeFinite, FS_RemoveElement
    <3>3. count \in Nat /\ count' = count - 1 /\ UNCHANGED closed
      BY <2>4, CapacityAssumption DEF PopTake, TypeOK
    <3>4. QED
      BY <3>1, <3>2, <3>3, AwakeFinite DEF NoLostWakeup
  <2>5. CASE CountHandled(w) \/ SpuriousWakeup(w)
    <3>1. /\ w \notin Awake /\ Awake' = Awake \cup {w} /\ Waiting' \subseteq Waiting
          /\ UNCHANGED <<count, closed>>
      BY <2>5 DEF CountHandled, SpuriousWakeup, AtWorker, WorkerGoto, Awake, Waiting, TypeOK
    <3>2. QED
      BY <3>1, OneMoreAwake
  <2>6. QED
    BY <1>5, <2>1, <2>2, <2>3, <2>4, <2>5 DEF Worker
<1>6. ASSUME NEW c \in Callers, StopCall(c) \/ Stop(c) PROVE NoLostWakeup'
  BY <1>1, <1>2, <1>6 DEF Stop, StopCall, StopLock, StopClose, StopCheck, StopShutdown
<1>7. CASE DrainClose
  BY <1>2, <1>7 DEF DrainClose
<1>8. CASE (\E fd \in Fds : Accept(fd)) \/ Connect \/ UNCHANGED vars
  BY <1>1, <1>8 DEF Accept, Connect, vars
<1>9. CASE RunStart \/ RunStartFails \/ Spawned \/ SpawnFails \/ LoopTest \/ PollReady
           \/ PollTimeout \/ Interrupted \/ PollFails \/ AcceptShut \/ AcceptFails
           \/ CountAccepted \/ PushLock \/ CountDropped \/ CloseDropped
           \/ DrainLock \/ AbortShutdown \/ Join \/ CloseListener \/ RunReturns
  <2>1. UNCHANGED <<count, closed, wpc>>
    BY <1>9 DEF RunStart, RunStartFails, Spawned, SpawnFails, LoopTest, PollReady, PollTimeout,
       Interrupted, PollFails, AcceptShut, AcceptFails, CountAccepted, PushLock, CountDropped,
       CloseDropped, DrainLock, AbortShutdown, Join, CloseListener, RunReturns
  <2>2. QED
    BY <1>1, <2>1
<1>10. QED
  BY <1>3, <1>4, <1>5, <1>6, <1>7, <1>8, <1>9 DEF Next, Acceptor, Finished

\* No interleaving of queue_try_push, queue_pop and queue_close leaves a worker
\* asleep while a queued connection has nobody to take it, or after a close.
THEOREM NoLostWakeupHolds == Spec => []NoLostWakeup
<1>1. Init => NoLostWakeup
  BY NobodySleeps DEF Init, NoLostWakeup, Waiting
<1>2. TypeOK /\ NoLostWakeup /\ [Next]_vars => NoLostWakeup'
  BY WakeupStep
<1>3. QED
  BY <1>1, <1>2, TypeCorrect, PTL DEF Spec

-----------------------------------------------------------------------------
(***************************************************************************)
(* Conservation: the books balance.  Six actions move a connection between *)
(* the columns; all the others leave every column alone.                   *)
(***************************************************************************)
Balance ==
    stats.accepted + One(apc = "count") + One(apc = "shed") =
        stats.handled + stats.dropped + Cardinality(open) + Cardinality(Finishing)

\* The sets that are counted are finite.
LEMMA BooksFinite ==
    ASSUME TypeOK
    PROVE  /\ IsFiniteSet(open) /\ Cardinality(open) \in Nat
           /\ IsFiniteSet(Finishing) /\ Cardinality(Finishing) \in Nat
           /\ stats.accepted \in Nat /\ stats.handled \in Nat /\ stats.dropped \in Nat
<1>1. IsFiniteSet(open) /\ IsFiniteSet(Finishing)
  BY WorkersAssumption, FdsAssumption, FS_Subset DEF TypeOK, Finishing
<1>2. QED
  BY <1>1, FS_CardinalityType DEF TypeOK, Counters

\* Steps that move no connection.
LEMMA SameBooks ==
    ASSUME Balance, UNCHANGED <<stats, open>>, Finishing' = Finishing,
           (apc = "count")' <=> (apc = "count"), (apc = "shed")' <=> (apc = "shed")
    PROVE  Balance'
BY DEF Balance, One

\* The step of the balance.
LEMMA BalanceStep ==
    ASSUME TypeOK, Ownership, Balance, [Next]_vars
    PROVE  Balance'
<1> USE DEF queueVars, serverVars, envVars
<1> DEFINE Away == apc \notin {"count", "shed"} /\ apc' \notin {"count", "shed"}
<1>1. ASSUME Away, UNCHANGED <<stats.accepted, stats.handled, stats.dropped, open>>,
             Finishing' = Finishing
      PROVE  Balance'
  BY <1>1 DEF Balance, One
<1>2. CASE RunStart \/ RunStartFails \/ Spawned \/ SpawnFails \/ LoopTest \/ PollReady
           \/ PollTimeout \/ Interrupted \/ AcceptShut
           \/ PushLock \/ DrainLock \/ AbortShutdown \/ Join \/ CloseListener \/ RunReturns
  <2>1. Away /\ UNCHANGED <<stats, open, wpc>>
    BY <1>2 DEF AtMain, RunStart, RunStartFails, Spawned, SpawnFails, LoopTest, PollReady,
       PollTimeout, Interrupted, AcceptShut, PushLock, DrainLock, AbortShutdown, Join,
       CloseListener, RunReturns
  <2>2. QED
    BY <1>1, <2>1 DEF Finishing
<1>3. CASE PollFails \/ AcceptFails
  <2>1. Away /\ UNCHANGED <<open, wpc>> /\ (stats' = stats \/ Bump("errors"))
    BY <1>3 DEF PollFails, AcceptFails, AtMain
  <2>2. UNCHANGED <<stats.accepted, stats.handled, stats.dropped>>
    BY <2>1 DEF Bump, TypeOK, Counters
  <2>3. QED
    BY <1>1, <2>1, <2>2 DEF Finishing
<1>4. CASE DrainClose \/ TryPush \/ \E w \in Workers : Spawn(w)
  <2>1. Away /\ UNCHANGED <<stats, open>>
    BY <1>4 DEF DrainClose, TryPush, Spawn, AtMain
  <2>2. Finishing' = Finishing
    BY <1>4 DEF DrainClose, QueueClose, TryPush, Signal, Waiting, Spawn, Finishing, TypeOK
  <2>3. QED
    BY <1>1, <2>1, <2>2
<1>5. ASSUME NEW fd \in Fds, Accept(fd) PROVE Balance'
  <2>1. /\ UNCHANGED <<stats, wpc>> /\ apc = "accept" /\ apc' = "count"
        /\ open' = open \cup {fd} /\ fd \notin open
    BY <1>5 DEF Accept, AtMain
  <2>2. Cardinality(open') = Cardinality(open) + 1
    BY <2>1, BooksFinite, FS_AddElement
  <2>3. QED
    BY <2>1, <2>2, BooksFinite DEF Balance, One, Finishing
<1>6. CASE CountAccepted \/ CountDropped
  <2>1. /\ UNCHANGED <<open, wpc>>
        /\ \/ apc = "count" /\ apc' = "push" /\ Bump("accepted")
           \/ apc = "drop" /\ apc' = "shed" /\ Bump("dropped")
    BY <1>6 DEF CountAccepted, CountDropped, AtMain
  <2>2. UNCHANGED Finishing
    BY <2>1 DEF Finishing
  <2>3. stats'.handled = stats.handled
    BY <2>1 DEF Bump, TypeOK, Counters
  <2>4. CASE apc = "count"
    <3>1. stats'.accepted = stats.accepted + 1 /\ stats'.dropped = stats.dropped /\ apc' = "push"
      BY <2>1, <2>4 DEF Bump, TypeOK, Counters
    <3>2. QED
      BY <2>1, <2>2, <2>3, <2>4, <3>1, BooksFinite DEF Balance, One
  <2>5. CASE apc = "drop"
    <3>1. stats'.accepted = stats.accepted /\ stats'.dropped = stats.dropped + 1 /\ apc' = "shed"
      BY <2>1, <2>5 DEF Bump, TypeOK, Counters
    <3>2. QED
      BY <2>1, <2>2, <2>3, <2>5, <3>1, BooksFinite DEF Balance, One
  <2>6. QED
    BY <2>1, <2>4, <2>5
<1>7. CASE CloseDropped
  <2>1. /\ UNCHANGED <<stats, wpc>> /\ apc = "shed" /\ apc' = "loop"
        /\ open' = open \ {afd}
    BY <1>7 DEF CloseDropped, AtMain
  <2>2. afd \in open
    BY <2>1 DEF Ownership, HeldByMain
  <2>3. Cardinality(open') = Cardinality(open) - 1
    BY <2>1, <2>2, BooksFinite, FS_RemoveElement
  <2>4. Finishing' = Finishing
    BY <2>1 DEF Finishing
  <2>5. UNCHANGED stats /\ One(apc = "shed") = 1 /\ One((apc = "shed")') = 0
        /\ One(apc = "count") = 0 /\ One((apc = "count")') = 0
    BY <2>1 DEF One
  <2>6. QED
    BY <2>3, <2>4, <2>5, BooksFinite DEF Balance
<1>8. ASSUME NEW w \in Workers, Worker(w) \/ SpuriousWakeup(w) PROVE Balance'
  <2> UNCHANGED apc
    BY <1>8 DEF Worker, PopLock, PopWait, PopExit, PopTake, Handle, Answer, CloseHandled,
       CountHandled, SpuriousWakeup
  <2>1. CASE PopLock(w) \/ PopWait(w) \/ PopExit(w) \/ PopTake(w) \/ SpuriousWakeup(w)
    <3>1. UNCHANGED <<stats, open>> /\ Finishing' = Finishing
      BY <2>1 DEF PopLock, PopWait, PopExit, PopTake, SpuriousWakeup, AtWorker, WorkerGoto,
         Finishing, TypeOK
    <3>2. QED
      BY <3>1, SameBooks
  <2>2. CASE Handle(w) \/ Answer(w)
    <3>1. UNCHANGED open /\ Finishing' = Finishing
      BY <2>2 DEF Handle, Answer, AtWorker, WorkerGoto, Finishing, TypeOK
    <3>2. \E c \in {"errors", "http_requests", "http_errors"} : Bump(c) \/ UNCHANGED stats
      BY <2>2 DEF Handle, Answer
    <3>3. UNCHANGED <<stats.accepted, stats.handled, stats.dropped>>
      BY <3>2 DEF Bump, TypeOK, Counters
    <3>4. QED
      BY <3>1, <3>3 DEF Balance, One
  <2>3. CASE CloseHandled(w)
    <3>1. /\ UNCHANGED stats /\ open' = open \ {wfd[w]} /\ wfd[w] \in open
          /\ w \notin Finishing /\ Finishing' = Finishing \cup {w}
      BY <2>3 DEF CloseHandled, AtWorker, WorkerGoto, Finishing, Ownership, HeldBy, TypeOK
    <3>2. /\ Cardinality(open') = Cardinality(open) - 1
          /\ Cardinality(Finishing') = Cardinality(Finishing) + 1
      BY <3>1, BooksFinite, FS_AddElement, FS_RemoveElement
    <3>3. QED
      BY <3>1, <3>2, BooksFinite DEF Balance, One
  <2>4. CASE CountHandled(w)
    <3>1. /\ UNCHANGED open /\ Bump("handled")
          /\ w \in Finishing /\ Finishing' = Finishing \ {w}
      BY <2>4 DEF CountHandled, AtWorker, WorkerGoto, Finishing, TypeOK
    <3>2. Cardinality(Finishing') = Cardinality(Finishing) - 1
      BY <3>1, BooksFinite, FS_RemoveElement
    <3>3. /\ stats'.handled = stats.handled + 1
          /\ stats'.accepted = stats.accepted /\ stats'.dropped = stats.dropped
      BY <3>1 DEF Bump, TypeOK, Counters
    <3>4. QED
      BY <3>1, <3>2, <3>3, BooksFinite DEF Balance, One
  <2>5. QED
    BY <1>8, <2>1, <2>2, <2>3, <2>4 DEF Worker
<1>9. ASSUME NEW c \in Callers, StopCall(c) \/ Stop(c) PROVE Balance'
  <2>1. UNCHANGED <<stats, open, apc>>
    BY <1>9 DEF Stop, StopCall, StopLock, StopClose, StopCheck, StopShutdown
  <2>2. UNCHANGED wpc \/ QueueClose(c)
    BY <1>9 DEF Stop, StopCall, StopLock, StopClose, StopCheck, StopShutdown
  <2>3. Finishing' = Finishing
    BY <2>2 DEF QueueClose, Finishing, TypeOK
  <2>4. QED
    BY <2>1, <2>3, SameBooks
<1>10. CASE Connect \/ UNCHANGED vars
  BY <1>10, SameBooks DEF Connect, vars, Finishing
<1>11. QED
  BY <1>2, <1>3, <1>4, <1>5, <1>6, <1>7, <1>8, <1>9, <1>10 DEF Next, Acceptor, Finished

\* The books balance in every reachable state.
LEMMA BalanceHolds == Spec => []Balance
<1>1. Init => Balance
  <2>1. Init => open = {} /\ Finishing = {} /\ apc = "created"
    BY DEF Init, Finishing
  <2>2. Init => stats.accepted = 0 /\ stats.handled = 0 /\ stats.dropped = 0
    BY DEF Init, Counters
  <2>3. QED
    BY <2>1, <2>2, FS_EmptySet DEF Balance, One
<1>2. TypeOK /\ Ownership /\ Balance /\ [Next]_vars => Balance'
  BY BalanceStep
<1>3. QED
  BY <1>1, <1>2, TypeCorrect, OwnershipHolds, PTL DEF Spec

\* While the acceptor is between a counter and its close or push, it still has
\* the descriptor open, so handled + dropped stays within accepted.
LEMMA BalanceConserves == TypeOK /\ Ownership /\ Balance => Conservation
<1> SUFFICES ASSUME TypeOK, Ownership, Balance PROVE Conservation
  OBVIOUS
<1>1. apc \in {"count", "shed"} => Cardinality(open) >= 1
  <2>1. apc \in {"count", "shed"} => open # {}
    BY DEF Ownership, HeldByMain
  <2>2. Cardinality(open) = 0 <=> open = {}
    BY BooksFinite, FS_EmptySet
  <2>3. QED
    BY <2>1, <2>2, BooksFinite
<1>2. QED
  BY <1>1, BooksFinite DEF Balance, Conservation, One

\* The counters account for every accepted connection, at every moment.
THEOREM ConservationHolds == Spec => []Conservation
BY BalanceHolds, BalanceConserves, TypeCorrect, OwnershipHolds, PTL

-----------------------------------------------------------------------------
(***************************************************************************)
(* Graceful drain.  That a worker ends only on a closed and empty queue is *)
(* what the return of server_run rests on, but a start that failed never   *)
(* had workers to drain anything: Phase says that it also never accepted.  *)
(***************************************************************************)
Phase ==
    /\ apc = "created" => \A w \in Workers : wpc[w] = "none"
    /\ rc = "failed" => apc \in {"drain", "draining", "abort", "join", "close", "forget", "returned"}
    /\ apc \in {"created", "spawn"} \/ rc = "failed" => count = 0 /\ open = {}
    /\ apc \notin {"created", "spawn"} /\ rc # "failed" => \A w \in Workers : wpc[w] # "none"
    /\ apc \in {"close", "forget", "returned"} => \A w \in Workers : wpc[w] \in {"none", "exited"}
    /\ (\E w \in Workers : wpc[w] = "exited") => closed /\ count = 0

\* A wakeup changes no worker that has not started or has ended.
LEMMA WakeKeepsEnds ==
    ASSUME TypeOK, Signal \/ (\E t \in Threads : QueueClose(t))
    PROVE  \A w \in Workers : (wpc'[w] = "none" <=> wpc[w] = "none") /\ (wpc'[w] = "exited" <=> wpc[w] = "exited")
BY DEF Signal, Waiting, QueueClose, TypeOK

\* The step of Phase.
LEMMA PhaseStep ==
    ASSUME TypeOK, Ownership, Phase, [Next]_vars
    PROVE  Phase'
<1> USE DEF queueVars, serverVars, envVars
<1>1. CASE RunStart \/ RunStartFails \/ Spawned \/ SpawnFails
  BY <1>1 DEF RunStart, RunStartFails, Spawned, SpawnFails, AtMain, Phase
<1>2. CASE LoopTest \/ PollReady \/ PollTimeout \/ Interrupted \/ PollFails \/ AcceptShut \/ AcceptFails
           \/ CountAccepted \/ PushLock \/ CountDropped
  BY <1>2 DEF LoopTest, PollReady, PollTimeout, Interrupted, PollFails, AcceptShut, AcceptFails,
     CountAccepted, PushLock, CountDropped, AtMain, Phase
<1>3. CASE DrainLock \/ AbortShutdown \/ Join \/ CloseListener \/ RunReturns
  BY <1>3 DEF DrainLock, AbortShutdown, Join, CloseListener, RunReturns, AtMain, Phase
<1>4. CASE \E w \in Workers : Spawn(w)
  BY <1>4 DEF Spawn, AtMain, Phase, TypeOK
<1>5. CASE (\E fd \in Fds : Accept(fd)) \/ CloseDropped
  BY <1>5 DEF Accept, CloseDropped, AtMain, Phase
<1>6. CASE TryPush
  <2>1. CASE closed \/ count = Capacity
    BY <1>6, <2>1 DEF TryPush, AtMain, Phase
  <2>2. CASE ~(closed \/ count = Capacity)
    <3>1. /\ ~closed /\ apc = "pushing" /\ apc' = "loop" /\ Signal
          /\ UNCHANGED <<closed, rc>>
      BY <1>6, <2>2 DEF TryPush, AtMain
    <3>2. QED
      BY <3>1, WakeKeepsEnds DEF Phase
  <2>3. QED
    BY <2>1, <2>2
<1>7. CASE DrainClose
  <2>1. /\ apc = "draining" /\ apc' \in {"abort", "join"} /\ QueueClose(Main) /\ closed'
        /\ UNCHANGED <<count, rc, open>> /\ Main \in Threads
    BY <1>7 DEF DrainClose, QueueClose, AtMain, Threads
  <2>2. QED
    BY <2>1, WakeKeepsEnds DEF Phase
<1>8. ASSUME NEW w \in Workers, Worker(w) \/ SpuriousWakeup(w) PROVE Phase'
  <2>1. UNCHANGED <<apc, rc, closed>>
    BY <1>8 DEF Worker, PopLock, PopWait, PopExit, PopTake, Handle, Answer, CloseHandled,
       CountHandled, SpuriousWakeup
  <2>2. /\ wpc[w] \notin {"none", "exited"} /\ wpc'[w] # "none"
        /\ \A v \in Workers : v # w => wpc'[v] = wpc[v]
    BY <1>8 DEF Worker, PopLock, PopWait, PopExit, PopTake, Handle, Answer, CloseHandled,
       CountHandled, SpuriousWakeup, AtWorker, WorkerGoto, TypeOK
  <2>3. apc \notin {"close", "forget", "returned", "created"}
    BY <2>2 DEF Phase
  <2>4. wpc'[w] = "exited" => closed /\ count' = 0
    BY <1>8 DEF Worker, PopLock, PopWait, PopExit, PopTake, Handle, Answer, CloseHandled,
       CountHandled, SpuriousWakeup, AtWorker, WorkerGoto, TypeOK
  <2>5. count' = count \/ (PopTake(w) /\ count > 0)
    BY <1>8 DEF Worker, PopLock, PopWait, PopExit, PopTake, Handle, Answer, CloseHandled,
       CountHandled, SpuriousWakeup
  <2>6. count = 0 => count' = 0
    BY <2>5
  <2>7. open' \subseteq open
    BY <1>8 DEF Worker, PopLock, PopWait, PopExit, PopTake, Handle, Answer, CloseHandled,
       CountHandled, SpuriousWakeup
  <2>8. QED
    BY <2>1, <2>2, <2>3, <2>4, <2>6, <2>7 DEF Phase
<1>9. ASSUME NEW c \in Callers, StopCall(c) \/ Stop(c) PROVE Phase'
  <2>1. UNCHANGED <<apc, rc, count, open>> /\ (closed => closed') /\ c \in Threads
    BY <1>9 DEF Stop, StopCall, StopLock, StopClose, StopCheck, StopShutdown, QueueClose, Threads
  <2>2. UNCHANGED wpc \/ QueueClose(c)
    BY <1>9 DEF Stop, StopCall, StopLock, StopClose, StopCheck, StopShutdown
  <2>3. QED
    BY <2>1, <2>2, WakeKeepsEnds DEF Phase
<1>10. CASE Connect \/ UNCHANGED vars
  BY <1>10 DEF Connect, vars, Phase
<1>11. QED
  BY <1>1, <1>2, <1>3, <1>4, <1>5, <1>6, <1>7, <1>8, <1>9, <1>10 DEF Next, Acceptor, Finished

\* At the return nobody holds a descriptor and no slot is queued.
LEMMA PhaseDrains == TypeOK /\ Ownership /\ Balance /\ Phase => Drained
<1> SUFFICES ASSUME TypeOK, Ownership, Balance, Phase, apc = "returned"
             PROVE  /\ count = 0 /\ open = {}
                    /\ \A w \in Workers : wpc[w] \in {"none", "exited"}
                    /\ stats.accepted = stats.handled + stats.dropped
  BY DEF Drained, Phase
<1>1. \A w \in Workers : wpc[w] \in {"none", "exited"}
  BY DEF Phase
<1>2. count = 0
  BY <1>1, WorkersAssumption DEF Phase
<1>3. open = {}
  <2>1. \A j \in Slots : ~InWindow(j)
    BY <1>2, CapacityAssumption DEF InWindow, TypeOK, Slots
  <2>2. ~HeldByMain /\ \A w \in Workers : ~HeldBy(w)
    BY <1>1 DEF HeldByMain, HeldBy
  <2>3. QED
    BY <2>1, <2>2 DEF Ownership
<1>4. Cardinality(open) = 0 /\ Cardinality(Finishing) = 0
  <2>1. Finishing = {}
    BY <1>1 DEF Finishing
  <2>2. QED
    BY <1>3, <2>1, FS_EmptySet
<1>5. QED
  BY <1>1, <1>2, <1>3, <1>4, BooksFinite DEF Balance, One

\* When server_run returns, for whatever reason, every connection it accepted has
\* been handled or dropped, counted and closed.
THEOREM DrainedHolds == Spec => []Drained
<1>1. Init => Phase
  BY DEF Init, Phase
<1>2. TypeOK /\ Ownership /\ Phase /\ [Next]_vars => Phase'
  BY PhaseStep
<1>3. QED
  BY <1>1, <1>2, BalanceHolds, PhaseDrains, TypeCorrect, OwnershipHolds, PTL DEF Spec

-----------------------------------------------------------------------------
(***************************************************************************)
(* The connection queue implements BoundedFifo, and each connection a      *)
(* worker takes is classified once.                                        *)
(***************************************************************************)

\* What one step may do to struct ConnQueue.
Pushes ==
    /\ ~closed /\ count # Capacity /\ afd \in Fds
    /\ fds' = [fds EXCEPT ![tail] = afd] /\ tail' = Inc(tail) /\ count' = count + 1
    /\ UNCHANGED <<head, closed>>
Pops ==
    /\ count > 0
    /\ head' = Inc(head) /\ count' = count - 1
    /\ UNCHANGED <<fds, tail, closed>>
Closes == closed' = TRUE /\ UNCHANGED <<fds, head, tail, count>>

\* Every step of any thread is at most one operation on the queue: queue_try_push
\* of a connection the acceptor holds, queue_pop, or queue_close.
LEMMA OneQueueOperation ==
    ASSUME TypeOK, Ownership, [Next]_vars
    PROVE  Pushes \/ Pops \/ Closes \/ UNCHANGED queueVars
<1> USE DEF queueVars
<1>1. CASE Acceptor
  <2>1. CASE TryPush
    <3>1. afd \in Fds
      BY <2>1 DEF TryPush, AtMain, Ownership, HeldByMain, TypeOK
    <3>2. QED
      BY <2>1, <3>1 DEF TryPush, Pushes
  <2>2. CASE DrainClose
    BY <2>2 DEF DrainClose, QueueClose, Closes
  <2>3. CASE ~TryPush /\ ~DrainClose
    BY <1>1, <2>3 DEF Acceptor, RunStart, RunStartFails, Spawn, Spawned, SpawnFails, LoopTest,
       PollReady, PollTimeout, Interrupted, PollFails, Accept, AcceptShut, AcceptFails,
       CountAccepted, PushLock, CountDropped, CloseDropped, DrainLock, AbortShutdown, Join,
       CloseListener, RunReturns
  <2>4. QED
    BY <2>1, <2>2, <2>3
<1>2. ASSUME NEW w \in Workers, Worker(w) \/ SpuriousWakeup(w)
      PROVE  Pops \/ UNCHANGED queueVars
  BY <1>2 DEF Worker, PopLock, PopWait, PopExit, PopTake, Handle, Answer, CloseHandled,
     CountHandled, SpuriousWakeup, Pops
<1>3. ASSUME NEW c \in Callers, StopCall(c) \/ Stop(c)
      PROVE  Closes \/ UNCHANGED queueVars
  BY <1>3 DEF Stop, StopCall, StopLock, StopClose, StopCheck, StopShutdown, QueueClose, Closes
<1>4. CASE Connect \/ UNCHANGED vars
  BY <1>4 DEF Connect, vars
<1>5. QED
  BY <1>1, <1>2, <1>3, <1>4 DEF Next, Finished

-----------------------------------------------------------------------------
(***************************************************************************)
(* Refinement.  The abstract queue is what the ring holds from head on.    *)
(* The step needs Ring: a push writes the slot that comes after the last   *)
(* one only because tail is where the window ends.                         *)
(***************************************************************************)

\* Walking i slots on from slot h of the ring.
LEMMA WalkWraps ==
    ASSUME NEW h \in Slots, NEW i \in 0 .. Capacity
    PROVE  /\ (h + i) % Capacity \in Slots
           /\ (h + i) % Capacity = IF h + i < Capacity THEN h + i ELSE h + i - Capacity
BY CapacityAssumption, SMT DEF Slots

\* Where the i-th queued connection is.
At(h, i) == IF h + i - 1 < Capacity THEN h + i - 1 ELSE h + i - 1 - Capacity

\* What a ring with slots f holds in the n slots from h on.
Window(f, h, n) == [i \in 1 .. n |-> f[(h + i - 1) % Capacity]]

\* It is a sequence of n connections, the i-th of them at At(h, i).
LEMMA WindowIs ==
    ASSUME NEW f \in [Slots -> Fds \cup {NoFd}], NEW h \in Slots, NEW n \in 0 .. Capacity
    PROVE  /\ Window(f, h, n) \in Seq(Fds \cup {NoFd}) /\ Len(Window(f, h, n)) = n
           /\ \A i \in 1 .. n : At(h, i) \in Slots /\ Window(f, h, n)[i] = f[At(h, i)]
<1>1. \A i \in 1 .. n : At(h, i) \in Slots /\ (h + i - 1) % Capacity = At(h, i)
  <2> TAKE i \in 1 .. n
  <2>1. i - 1 \in 0 .. Capacity
    BY CapacityAssumption
  <2>2. h + i - 1 = h + (i - 1)
    BY CapacityAssumption DEF Slots
  <2>3. QED
    BY <2>1, <2>2, WalkWraps DEF At
<1>2. n \in Nat
  BY CapacityAssumption
<1>3. \A i \in 1 .. n : f[(h + i - 1) % Capacity] \in Fds \cup {NoFd}
  BY <1>1
<1>4. Window(f, h, n) \in Seq(Fds \cup {NoFd}) /\ Len(Window(f, h, n)) = n
  BY <1>2, <1>3 DEF Window
<1>5. QED
  BY <1>1, <1>4 DEF Window

\* Before the first connection the abstract queue is empty and open.
LEMMA FifoInit == Init => Fifo!Init
<1> SUFFICES ASSUME Init PROVE Contents = <<>> /\ closed = FALSE
  BY DEF Fifo!Init
<1>1. Contents = Window(fds, head, 0) /\ closed = FALSE
  BY DEF Init, Contents, Window
<1>2. QED
  BY <1>1 DEF Window

\* Every step is a step of the bounded FIFO or leaves it alone.
LEMMA FifoStep ==
    ASSUME TypeOK, TypeOK', Ring, Ownership, [Next]_vars
    PROVE  [Fifo!Next]_(Fifo!vars)
<1>1. /\ count \in 0 .. Capacity /\ head \in 0 .. Capacity - 1 /\ tail \in 0 .. Capacity - 1
      /\ Capacity \in Nat \ {0}
      /\ fds \in [Slots -> Fds \cup {NoFd}] /\ tail \in Slots /\ head \in Slots
  BY CapacityAssumption DEF TypeOK, Slots
<1>2. /\ Contents \in Seq(Fds \cup {NoFd}) /\ Len(Contents) = count
      /\ \A i \in 1 .. count : At(head, i) \in Slots /\ Contents[i] = fds[At(head, i)]
  <2>1. Contents = Window(fds, head, count)
    BY DEF Contents, Window
  <2>2. QED
    BY <1>1, <2>1, WindowIs
<1>3. /\ Contents' \in Seq(Fds \cup {NoFd}) /\ Len(Contents') = count'
      /\ \A i \in 1 .. count' : At(head', i) \in Slots /\ Contents'[i] = fds'[At(head', i)]
  <2>1. Contents' = Window(fds', head', count')
    BY DEF Contents, Window
  <2>2. fds' \in [Slots -> Fds \cup {NoFd}] /\ head' \in Slots /\ count' \in 0 .. Capacity
    BY DEF TypeOK
  <2>3. QED
    BY <2>1, <2>2, WindowIs
<1>4. CASE Pushes
  <2>1. count' = count + 1 /\ count < Capacity /\ head' = head
    BY <1>1, <1>4 DEF Pushes
  <2>2. ASSUME NEW i \in 1 .. count PROVE Contents'[i] = Contents[i]
    <3>1. At(head, i) # tail /\ i \in 1 .. count'
      BY <1>1, <2>1 DEF Ring, At
    <3>2. fds'[At(head, i)] = fds[At(head, i)]
      BY <1>1, <1>2, <1>4, <3>1 DEF Pushes
    <3>3. QED
      BY <1>2, <1>3, <2>1, <3>1, <3>2
  <2>3. Contents'[count + 1] = afd
    <3>1. At(head, count + 1) = tail /\ count + 1 \in 1 .. count'
      BY <1>1, <2>1 DEF Ring, At
    <3>2. QED
      BY <1>1, <1>3, <1>4, <2>1, <3>1 DEF Pushes
  <2>4. Contents' = Append(Contents, afd)
    <3>1. Append(Contents, afd) \in Seq(Fds \cup {NoFd})
      BY <1>2, <1>4 DEF Pushes
    <3>2. Len(Append(Contents, afd)) = count + 1 /\ Len(Contents') = count + 1
      BY <1>2, <1>3, <2>1
    <3>3. \A i \in 1 .. count + 1 : Contents'[i] = Append(Contents, afd)[i]
      BY <1>1, <1>2, <2>2, <2>3
    <3>4. QED
      BY <1>3, <3>1, <3>2, <3>3, SeqEqual
  <2>5. Fifo!Put(afd) /\ afd \in Fds
    BY <1>1, <1>2, <1>4, <2>1, <2>4 DEF Fifo!Put, Pushes
  <2>6. QED
    BY <2>5 DEF Fifo!Next
<1>5. CASE Pops
  <2>1. count' = count - 1 /\ count > 0 /\ Contents # <<>>
    BY <1>1, <1>2, <1>5 DEF Pops
  <2>2. ASSUME NEW i \in 1 .. count' PROVE Contents'[i] = Contents[i + 1]
    <3>1. head' = IF head + 1 = Capacity THEN 0 ELSE head + 1
      BY <1>1, <1>5, IncWraps DEF Pops
    <3>2. At(head', i) = At(head, i + 1) /\ i + 1 \in 1 .. count
      BY <1>1, <2>1, <3>1 DEF At
    <3>3. QED
      BY <1>2, <1>3, <1>5, <3>2 DEF Pops
  <2>3. Contents' = Tail(Contents)
    <3>1. /\ Tail(Contents) \in Seq(Fds \cup {NoFd}) /\ Len(Tail(Contents)) = count'
          /\ \A i \in 1 .. count' : Tail(Contents)[i] = Contents[i + 1]
      BY <1>1, <1>2, <2>1
    <3>2. QED
      BY <1>3, <2>2, <3>1, SeqEqual
  <2>4. QED
    BY <1>5, <2>1, <2>3 DEF Fifo!Next, Fifo!Get, Pops
<1>6. CASE Closes
  BY <1>6 DEF Closes, Contents, Fifo!Next, Fifo!Close
<1>7. CASE UNCHANGED queueVars
  BY <1>7 DEF queueVars, Contents, Fifo!vars
<1>8. QED
  BY <1>4, <1>5, <1>6, <1>7, OneQueueOperation

\* The ring is intact in every reachable state.
LEMMA RingHolds == Spec => []Ring
<1>1. Init => Ring /\ Ownership
  <2>1. Init => Ring
    BY CapacityAssumption DEF Init, Ring
  <2>2. Init => Ownership
    BY CapacityAssumption DEF Init, Ownership, InWindow, HeldBy, HeldByMain, Slots
  <2>3. QED
    BY <2>1, <2>2
<1>2. TypeOK /\ Ring /\ Ownership /\ [Next]_vars => Ring' /\ Ownership'
  BY OwnershipStep
<1>3. QED
  BY <1>1, <1>2, TypeCorrect, PTL DEF Spec

\* The ring buffer that the acceptor, the workers and the stop calls share is a
\* bounded first-in first-out queue that can be closed.
THEOREM ImplementsFifoHolds == Spec => ImplementsFifo
<1>1. TypeOK /\ TypeOK' /\ Ring /\ Ownership /\ [Next]_vars => [Fifo!Next]_(Fifo!vars)
  BY FifoStep
<1>2. QED
  BY <1>1, FifoInit, RingHolds, TypeCorrect, OwnershipHolds, PTL DEF Spec, ImplementsFifo, Fifo!Spec

-----------------------------------------------------------------------------
(***************************************************************************)
(* Classification.  The property bounds a difference; what is inductive is *)
(* the equation: the connections counted in http_requests or errors are    *)
(* the handled ones, the ones a worker has judged and not yet counted as   *)
(* handled, and beyond of them from failing accept and poll calls.         *)
(***************************************************************************)
Judged == {w \in Workers : wpc[w] \in {"failed", "dispatch", "close", "count"}}

Judgement ==
    \E beyond \in 0 .. faults :
        stats.http_requests + stats.errors = stats.handled + Cardinality(Judged) + beyond

\* The set of judged workers is finite and the counters are numbers.
LEMMA JudgedFinite ==
    ASSUME TypeOK
    PROVE  /\ IsFiniteSet(Judged) /\ Cardinality(Judged) \in Nat /\ faults \in Nat
           /\ stats.http_requests \in Nat /\ stats.errors \in Nat /\ stats.handled \in Nat
<1>1. IsFiniteSet(Judged)
  BY WorkersAssumption, FS_Subset DEF Judged
<1>2. QED
  BY <1>1, FS_CardinalityType, BoundsAssumption DEF TypeOK, Counters

\* Steps that leave the three counters and the judged workers alone.
LEMMA SameJudgement ==
    ASSUME TypeOK, Judgement, faults' \in {faults, faults + 1}, Judged' = Judged,
           UNCHANGED <<stats.http_requests, stats.errors, stats.handled>>
    PROVE  Judgement'
<1>1. PICK b \in 0 .. faults :
          stats.http_requests + stats.errors = stats.handled + Cardinality(Judged) + b
  BY DEF Judgement
<1>2. b \in 0 .. faults'
  BY <1>1, JudgedFinite
<1>3. QED
  BY <1>1, <1>2 DEF Judgement

\* The step of the classification: a worker is judged by Handle, which counts it
\* once, and leaves the judged ones in CountHandled, which counts it as handled.
LEMMA JudgementStep ==
    ASSUME TypeOK, Judgement, [Next]_vars
    PROVE  Judgement'
<1> USE DEF queueVars, serverVars, envVars
<1>1. CASE RunStart \/ RunStartFails \/ Spawned \/ SpawnFails \/ LoopTest \/ PollReady
           \/ PollTimeout \/ Interrupted \/ AcceptShut \/ PushLock \/ CloseDropped
           \/ DrainLock \/ AbortShutdown \/ Join \/ CloseListener \/ RunReturns
           \/ Connect \/ (\E fd \in Fds : Accept(fd)) \/ UNCHANGED vars
  <2>1. UNCHANGED <<stats, wpc>> /\ faults' \in {faults, faults + 1}
    BY <1>1 DEF RunStart, RunStartFails, Spawned, SpawnFails, LoopTest, PollReady, PollTimeout,
       Interrupted, AcceptShut, PushLock, CloseDropped, DrainLock, AbortShutdown, Join,
       CloseListener, RunReturns, Connect, Accept, Fault, vars
  <2>2. QED
    BY <2>1, SameJudgement DEF Judged
<1>2. CASE CountAccepted \/ CountDropped
  <2>1. UNCHANGED <<wpc, faults>> /\ (Bump("accepted") \/ Bump("dropped"))
    BY <1>2 DEF CountAccepted, CountDropped
  <2>2. UNCHANGED <<stats.http_requests, stats.errors, stats.handled>>
    BY <2>1 DEF Bump, TypeOK, Counters
  <2>3. QED
    BY <2>1, <2>2, SameJudgement DEF Judged
<1>3. CASE PollFails \/ AcceptFails
  <2>1. UNCHANGED wpc /\ faults' = faults + 1 /\ (stats' = stats \/ Bump("errors"))
    BY <1>3 DEF PollFails, AcceptFails, Fault
  <2>2. CASE stats' = stats
    BY <2>1, <2>2, SameJudgement DEF Judged
  <2>3. CASE Bump("errors")
    <3>1. PICK b \in 0 .. faults :
              stats.http_requests + stats.errors = stats.handled + Cardinality(Judged) + b
      BY DEF Judgement
    <3>2. /\ stats'.errors = stats.errors + 1 /\ stats'.http_requests = stats.http_requests
          /\ stats'.handled = stats.handled /\ Judged' = Judged
      BY <2>1, <2>3 DEF Bump, TypeOK, Counters, Judged
    <3>3. /\ b + 1 \in 0 .. faults'
          /\ stats'.http_requests + stats'.errors = stats'.handled + Cardinality(Judged') + (b + 1)
      BY <2>1, <3>1, <3>2, JudgedFinite
    <3>4. QED
      BY <3>3 DEF Judgement
  <2>4. QED
    BY <2>1, <2>2, <2>3
<1>4. CASE TryPush \/ DrainClose \/ \E w \in Workers : Spawn(w)
  <2>1. UNCHANGED <<stats, faults>>
    BY <1>4 DEF DrainClose, TryPush, Spawn
  <2>2. Judged' = Judged
    BY <1>4 DEF DrainClose, QueueClose, TryPush, Signal, Waiting, Spawn, Judged, TypeOK
  <2>3. QED
    BY <2>1, <2>2, SameJudgement
<1>5. ASSUME NEW w \in Workers, Worker(w) \/ SpuriousWakeup(w) PROVE Judgement'
  <2>1. CASE PopLock(w) \/ PopWait(w) \/ PopExit(w) \/ PopTake(w) \/ CloseHandled(w)
             \/ SpuriousWakeup(w)
    <3>1. UNCHANGED stats /\ faults' \in {faults, faults + 1}
      BY <2>1 DEF PopLock, PopWait, PopExit, PopTake, CloseHandled, SpuriousWakeup, Fault
    <3>2. Judged' = Judged
      BY <2>1 DEF PopLock, PopWait, PopExit, PopTake, CloseHandled, SpuriousWakeup, AtWorker,
         WorkerGoto, Judged, TypeOK
    <3>3. QED
      BY <3>1, <3>2, SameJudgement
  <2>2. CASE Answer(w)
    <3>1. UNCHANGED faults /\ (Bump("http_errors") \/ UNCHANGED stats)
      BY <2>2 DEF Answer
    <3>2. UNCHANGED <<stats.http_requests, stats.errors, stats.handled>>
      BY <3>1 DEF Bump, TypeOK, Counters
    <3>3. Judged' = Judged
      BY <2>2 DEF Answer, AtWorker, WorkerGoto, Judged, TypeOK
    <3>4. QED
      BY <3>1, <3>2, <3>3, SameJudgement
  <2>3. CASE Handle(w)
    <3>1. PICK b \in 0 .. faults :
              stats.http_requests + stats.errors = stats.handled + Cardinality(Judged) + b
      BY DEF Judgement
    <3>2. UNCHANGED faults /\ w \notin Judged /\ Judged' = Judged \cup {w}
      BY <2>3 DEF Handle, AtWorker, WorkerGoto, Judged, TypeOK
    <3>3. Cardinality(Judged') = Cardinality(Judged) + 1
      BY <3>2, JudgedFinite, FS_AddElement
    <3>4. Bump("errors") \/ Bump("http_requests")
      BY <2>3 DEF Handle
    <3>5. /\ stats'.handled = stats.handled
          /\ \/ stats'.errors = stats.errors + 1 /\ stats'.http_requests = stats.http_requests
             \/ stats'.errors = stats.errors /\ stats'.http_requests = stats.http_requests + 1
      BY <3>4 DEF Bump, TypeOK, Counters
    <3>6. stats'.http_requests + stats'.errors = stats'.handled + Cardinality(Judged') + b
      BY <3>1, <3>3, <3>5, JudgedFinite
    <3>7. QED
      BY <3>2, <3>6 DEF Judgement
  <2>4. CASE CountHandled(w)
    <3>1. PICK b \in 0 .. faults :
              stats.http_requests + stats.errors = stats.handled + Cardinality(Judged) + b
      BY DEF Judgement
    <3>2. UNCHANGED faults /\ w \in Judged /\ Judged' = Judged \ {w}
      BY <2>4 DEF CountHandled, AtWorker, WorkerGoto, Judged, TypeOK
    <3>3. Cardinality(Judged') = Cardinality(Judged) - 1
      BY <3>2, JudgedFinite, FS_RemoveElement
    <3>4. /\ stats'.handled = stats.handled + 1
          /\ stats'.errors = stats.errors /\ stats'.http_requests = stats.http_requests
      BY <2>4 DEF CountHandled, Bump, TypeOK, Counters
    <3>5. stats'.http_requests + stats'.errors = stats'.handled + Cardinality(Judged') + b
      BY <3>1, <3>3, <3>4, JudgedFinite
    <3>6. QED
      BY <3>2, <3>5 DEF Judgement
  <2>5. QED
    BY <1>5, <2>1, <2>2, <2>3, <2>4 DEF Worker
<1>6. ASSUME NEW c \in Callers, StopCall(c) \/ Stop(c) PROVE Judgement'
  <2>1. UNCHANGED <<stats, faults>> /\ (UNCHANGED wpc \/ QueueClose(c))
    BY <1>6 DEF Stop, StopCall, StopLock, StopClose, StopCheck, StopShutdown
  <2>2. Judged' = Judged
    BY <2>1 DEF QueueClose, Judged, TypeOK
  <2>3. QED
    BY <2>1, <2>2, SameJudgement
<1>7. QED
  BY <1>1, <1>2, <1>3, <1>4, <1>5, <1>6 DEF Next, Acceptor, Finished

\* Every connection a worker takes is counted once, as a request or as an error.
THEOREM ClassifiedHolds == Spec => []Classified
<1>1. Init => Judgement
  <2> SUFFICES ASSUME Init PROVE Judgement
    OBVIOUS
  <2>1. Judged = {} /\ faults = 0
    BY DEF Init, Judged
  <2>2. stats.http_requests = 0 /\ stats.errors = 0 /\ stats.handled = 0
    BY DEF Init, Counters
  <2>3. stats.http_requests + stats.errors = stats.handled + Cardinality(Judged) + 0
    BY <2>1, <2>2, FS_EmptySet
  <2>4. QED
    BY <2>1, <2>3 DEF Judgement
<1>2. TypeOK /\ Judgement /\ [Next]_vars => Judgement'
  BY JudgementStep
<1>3. TypeOK /\ Judgement => Classified
  <2> SUFFICES ASSUME TypeOK, Judgement PROVE Classified
    OBVIOUS
  <2>1. PICK b \in 0 .. faults :
            stats.http_requests + stats.errors = stats.handled + Cardinality(Judged) + b
    BY DEF Judgement
  <2>2. stats.http_requests + stats.errors - stats.handled - Cardinality(Judged) = b
    BY <2>1, JudgedFinite
  <2>3. QED
    BY <2>2 DEF Classified, Judged
<1>4. QED
  BY <1>1, <1>2, <1>3, TypeCorrect, PTL DEF Spec
=============================================================================
