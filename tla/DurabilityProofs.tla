-------------------------- MODULE DurabilityProofs ---------------------------
(***************************************************************************)
(* Proofs about Durability, for any set of workers and any number of       *)
(* writes, crashes, power losses and restarts.                             *)
(***************************************************************************)
EXTENDS Durability, SequenceTheorems, TLAPS

-----------------------------------------------------------------------------
(***************************************************************************)
(* The invariant.  That an acknowledged note is found needs that the note  *)
(* a worker is about to acknowledge is in the table under its id; that a   *)
(* power loss spares what a checkpoint covered needs that syncing is never *)
(* turned off; and that an orderly exit leaves nothing to lose needs that  *)
(* all workers are idle from the join on, so that the table stays as the   *)
(* checkpoint found it.                                                    *)
(***************************************************************************)
Stored == \A w \in Workers : wpc[w] = "answer" => wrote[w].id \in 1 .. Len(table) /\ table[wrote[w].id] = wrote[w].tag

Synced == synchronous # "OFF" /\ covered =< synced

Leaving == mpc \notin {"serve", "join"} => \A w \in Workers : wpc[w] = "idle"

Covered ==
    /\ mpc \notin {"close", "exit"} => checkpointed = "no"
    /\ checkpointed = "done" => covered = Len(table)

Inv == TypeOK /\ Stored /\ Synced /\ Leaving /\ Covered /\ AckedIsReadable

\* Initially the table is empty and nobody is at work.
LEMMA InvInit == Init => Inv
<1> SUFFICES ASSUME Init PROVE Inv
  OBVIOUS
<1>1. table = <<>> /\ Len(table) = 0 /\ table \in Seq(Nat)
  BY DEF Init
<1>2. 0 \in 0 .. MaxWrites /\ 0 \in 0 .. MaxCrashes /\ 0 \in 0 .. Len(table) /\ 0 \in 0 .. issued
  BY <1>1, BoundsAssumption DEF Init
<1>3. wrote \in [Workers -> [id : 0 .. Len(table), tag : 0 .. issued]]
  BY <1>2 DEF Init, NoWrite, Write
<1>4. wpc \in [Workers -> {"idle", "step", "answer"}]
  BY DEF Init
<1>5. /\ synced = 0 /\ covered = 0 /\ synchronous = "FULL" /\ mpc = "open" /\ reported = FALSE
      /\ checkpointed = "no" /\ lost = {} /\ acked = {} /\ issued = 0 /\ crashes = 0
  BY DEF Init
<1>6. TypeOK
  BY <1>1, <1>2, <1>3, <1>4, <1>5 DEF TypeOK
<1>7. QED
  BY <1>1, <1>5, <1>6 DEF Init, Inv, Stored, Synced, Leaving, Covered, AckedIsReadable

\* A checkpoint, done or not, leaves what the disk covers inside the table, and
\* covers all of it if it is done.
LEMMA CheckpointStep ==
    ASSUME TypeOK, Synced, Checkpoint, table' \in Seq(Nat), Len(table') >= Len(table)
    PROVE  /\ synced' \in 0 .. Len(table') /\ covered' \in Nat /\ covered' =< synced'
           /\ synced =< synced'
<1>1. Len(table) \in Nat /\ Len(table') \in Nat
  BY DEF TypeOK
<1>2. QED
  BY <1>1 DEF TypeOK, Synced, Checkpoint, CheckpointDone

\* Steps of a worker.  Only Commit changes the table, at its end.
LEMMA WorkerStep ==
    ASSUME Inv, NEW w \in Workers, Begin(w) \/ Worker(w)
    PROVE  Inv'
<1> USE DEF tables, main, workers, Inv
<1>0. Len(table) \in Nat /\ mpc \in {"serve", "join"} /\ Leaving'
  BY DEF TypeOK, Leaving, Begin, Worker, Commit, StepFails, Answer
<1>1. CASE Begin(w)
  <2>1. /\ UNCHANGED <<table, synced, covered, mpc, synchronous, reported, checkpointed, acked, lost, crashes>>
        /\ issued' = issued + 1 /\ issued < MaxWrites
        /\ wrote' = [wrote EXCEPT ![w] = Write(0, issued + 1)]
        /\ wpc' = [wpc EXCEPT ![w] = "step"]
    BY <1>1 DEF Begin, Goto
  <2>2. issued' \in 0 .. MaxWrites
    BY <2>1, BoundsAssumption DEF TypeOK
  <2>3. wrote' \in [Workers -> [id : 0 .. Len(table), tag : 0 .. issued']]
    BY <2>1, <1>0 DEF TypeOK, Write
  <2>4. TypeOK'
    BY <2>1, <2>2, <2>3 DEF TypeOK
  <2>5. Stored'
    BY <2>1 DEF Stored, TypeOK
  <2>6. QED
    BY <1>0, <2>1, <2>4, <2>5 DEF Synced, Covered, AckedIsReadable
<1>2. CASE Commit(w)
  <2>1. /\ UNCHANGED <<mpc, synchronous, reported, checkpointed, issued, acked, lost, crashes>>
        /\ table' = Append(table, wrote[w].tag) /\ Checkpoint
        /\ wrote' = [wrote EXCEPT ![w].id = Len(table) + 1]
        /\ wpc' = [wpc EXCEPT ![w] = "answer"]
    BY <1>2 DEF Commit, Goto
  <2>2. wrote[w] \in [id : 0 .. Len(table), tag : 0 .. issued] /\ wrote[w].tag \in Nat
    BY DEF TypeOK
  <2>3. /\ table' \in Seq(Nat) /\ Len(table') = Len(table) + 1
        /\ table'[Len(table) + 1] = wrote[w].tag
        /\ \A i \in 1 .. Len(table) : table'[i] = table[i]
    BY <2>1, <2>2, AppendProperties DEF TypeOK
  <2>4. /\ synced' \in 0 .. Len(table') /\ covered' \in Nat /\ covered' =< synced'
    BY <1>0, <2>1, <2>3, CheckpointStep
  <2>5. /\ wrote'[w] = [wrote[w] EXCEPT !.id = Len(table) + 1]
        /\ \A v \in Workers : v # w => wrote'[v] = wrote[v]
        /\ DOMAIN wrote' = Workers
    BY <2>1 DEF TypeOK
  <2>6. wrote'[w].id = Len(table) + 1 /\ wrote'[w].tag = wrote[w].tag
    BY <2>2, <2>5
  <2>7. wrote' \in [Workers -> [id : 0 .. Len(table'), tag : 0 .. issued]]
    <3>1. wrote'[w] \in [id : 0 .. Len(table'), tag : 0 .. issued]
      BY <1>0, <2>2, <2>3, <2>5
    <3>2. \A v \in Workers : v # w => wrote'[v] \in [id : 0 .. Len(table'), tag : 0 .. issued]
      BY <1>0, <2>3, <2>5 DEF TypeOK
    <3>3. QED
      BY <2>1, <3>1, <3>2 DEF TypeOK
  <2>8. TypeOK'
    BY <2>1, <2>3, <2>4, <2>7 DEF TypeOK
  <2>9. Stored'
    BY <1>0, <2>1, <2>3, <2>5, <2>6 DEF Stored, TypeOK
  <2>10. AckedIsReadable'
    BY <1>0, <2>1, <2>3 DEF AckedIsReadable
  <2>11. QED
    BY <1>0, <2>1, <2>4, <2>8, <2>9, <2>10 DEF Synced, Covered
<1>3. CASE StepFails(w) \/ Answer(w)
  <2>1. /\ UNCHANGED <<table, synced, covered, mpc, synchronous, reported, checkpointed, issued, lost, crashes>>
        /\ wrote' = [wrote EXCEPT ![w] = NoWrite]
        /\ wpc' = [wpc EXCEPT ![w] = "idle"]
    BY <1>3 DEF StepFails, Answer, Goto
  <2>2. wrote' \in [Workers -> [id : 0 .. Len(table), tag : 0 .. issued]]
    BY <2>1, <1>0 DEF TypeOK, NoWrite, Write
  <2>3. acked' = acked \/ (wpc[w] = "answer" /\ acked' = acked \cup {wrote[w]})
    BY <1>3 DEF StepFails, Answer
  <2>4. wrote[w] \in [id : Nat, tag : Nat]
    BY <1>0 DEF TypeOK
  <2>5. acked' \subseteq [id : Nat, tag : Nat] /\ lost \subseteq acked'
    BY <2>3, <2>4 DEF TypeOK
  <2>6. TypeOK'
    BY <2>1, <2>2, <2>5 DEF TypeOK
  <2>7. Stored'
    BY <2>1 DEF Stored, TypeOK
  <2>8. AckedIsReadable'
    BY <2>1, <2>3 DEF Stored, AckedIsReadable
  <2>9. QED
    BY <1>0, <2>1, <2>6, <2>7, <2>8 DEF Synced, Covered
<1>4. QED
  BY <1>1, <1>2, <1>3 DEF Worker

\* Steps of main.  They leave the table alone.
LEMMA MainStep ==
    ASSUME Inv, Main \/ Stop \/ Restart
    PROVE  Inv'
<1> USE DEF tables, main, workers, Inv
<1>0. UNCHANGED <<table, wpc, wrote, issued, acked, lost>> /\ Len(table) \in Nat
  BY DEF Main, StoreOpen, StoreOpenFails, Join, Report, StoreClose, Stop, Restart, TypeOK
<1>1. AckedIsReadable' /\ Stored'
  BY <1>0 DEF AckedIsReadable, Stored
<1>2. CASE StoreOpen \/ StoreOpenFails \/ Join \/ Report \/ Stop
  <2>1. UNCHANGED <<synced, covered, checkpointed, crashes>>
    BY <1>2 DEF StoreOpen, StoreOpenFails, Join, Report, Stop
  <2>2. /\ mpc' \in {"serve", "join", "report", "checkpoint", "close", "exit"} /\ mpc' # "close"
        /\ synchronous' \in {synchronous, "NORMAL"} /\ reported' \in BOOLEAN
    BY <1>2 DEF StoreOpen, StoreOpenFails, Join, Report, Stop, TypeOK
  <2>3. TypeOK'
    BY <1>0, <2>1, <2>2 DEF TypeOK
  <2>4. Leaving' /\ Synced'
    BY <1>0, <1>2, <2>1, <2>2 DEF StoreOpen, StoreOpenFails, Join, Report, Stop, Leaving, Synced
  <2>5. Covered'
    BY <1>0, <1>2, <2>1 DEF StoreOpen, StoreOpenFails, Join, Report, Stop, Covered
  <2>6. QED
    BY <1>1, <2>3, <2>4, <2>5
<1>3. CASE StoreClose
  <2>1. /\ mpc \in {"checkpoint", "close"} /\ mpc' \in {"close", "exit"} /\ Checkpoint
        /\ checkpointed' = IF covered' = Len(table) THEN "done" ELSE "failed"
        /\ UNCHANGED <<synchronous, reported, crashes>>
    BY <1>3 DEF StoreClose
  <2>2. synced' \in 0 .. Len(table) /\ covered' \in Nat /\ covered' =< synced'
    BY <1>0, <2>1, CheckpointStep DEF TypeOK
  <2>3. TypeOK'
    BY <1>0, <2>1, <2>2 DEF TypeOK
  <2>4. Synced' /\ Leaving' /\ Covered'
    BY <1>0, <2>1, <2>2 DEF Synced, Leaving, Covered
  <2>5. QED
    BY <1>1, <2>3, <2>4
<1>4. CASE Restart
  <2>1. /\ mpc \in {"down", "exit"} /\ mpc' = "open" /\ reported' = FALSE /\ checkpointed' = "no"
        /\ UNCHANGED <<synced, covered, synchronous>> /\ crashes < MaxCrashes /\ crashes' = crashes + 1
    BY <1>4 DEF Restart
  <2>2. crashes' \in 0 .. MaxCrashes
    BY <2>1, BoundsAssumption DEF TypeOK
  <2>3. TypeOK'
    BY <1>0, <2>1, <2>2 DEF TypeOK
  <2>4. QED
    BY <1>0, <1>1, <2>1, <2>3 DEF Synced, Leaving, Covered
<1>5. QED
  BY <1>2, <1>3, <1>4 DEF Main

\* A crash leaves the table, a power loss keeps a prefix of it that has
\* everything on the disk.
LEMMA FailureStep ==
    ASSUME Inv, ProcessCrash \/ \E kept \in 0 .. Len(table) : PowerLoss(kept)
    PROVE  Inv'
<1> USE DEF tables, main, workers, Inv
<1>0. PICK kept \in 0 .. Len(table) :
        /\ synced =< kept /\ crashes < MaxCrashes /\ Halt /\ covered' = covered
        /\ table' = SubSeq(table, 1, kept) /\ synced' \in {kept, synced}
        /\ lost' = lost \cup {a \in acked : a.id > kept}
  <2>1. CASE ProcessCrash
    <3>1. table = SubSeq(table, 1, Len(table)) /\ Len(table) \in 0 .. Len(table)
      BY SubSeqFull DEF TypeOK
    <3>2. {a \in acked : a.id > Len(table)} \subseteq lost
      BY DEF AckedIsReadable, TypeOK
    <3>3. lost' = lost \cup {a \in acked : a.id > Len(table)}
      BY <2>1, <3>2 DEF ProcessCrash
    <3>4. /\ crashes < MaxCrashes /\ Halt /\ covered' = covered /\ table' = table /\ synced' = synced
          /\ synced =< Len(table)
      BY <2>1 DEF ProcessCrash, TypeOK
    <3>5. QED
      BY <3>1, <3>3, <3>4
  <2>2. CASE \E k \in 0 .. Len(table) : PowerLoss(k)
    BY <2>2 DEF PowerLoss
  <2>3. QED
    BY <2>1, <2>2
<1>1. /\ UNCHANGED <<synchronous, issued, acked>> /\ mpc' = "down" /\ reported' = FALSE /\ checkpointed' = "no"
      /\ wpc' = [w \in Workers |-> "idle"] /\ wrote' = [w \in Workers |-> NoWrite]
      /\ crashes' = crashes + 1
  BY <1>0 DEF Halt
<1>2. Len(table) \in Nat /\ kept \in Nat /\ \A i \in 1 .. kept : table[i] \in Nat
  BY <1>0 DEF TypeOK
<1>3. /\ table' \in Seq(Nat) /\ Len(table') = kept
      /\ \A i \in 1 .. kept : table'[i] = table[i]
  BY <1>0, <1>2, SubSeqProperties
<1>4. synced' \in 0 .. Len(table') /\ covered' =< synced'
  BY <1>0, <1>2, <1>3 DEF TypeOK, Synced
<1>5. wrote' \in [Workers -> [id : 0 .. Len(table'), tag : 0 .. issued']]
  BY <1>1, <1>2, <1>3 DEF NoWrite, Write, TypeOK
<1>6. crashes' \in 0 .. MaxCrashes
  BY <1>0, <1>1, BoundsAssumption DEF TypeOK
<1>7. lost' \subseteq acked'
  BY <1>0, <1>1 DEF TypeOK
<1>8. TypeOK'
  BY <1>0, <1>1, <1>3, <1>4, <1>5, <1>6, <1>7 DEF TypeOK
<1>9. AckedIsReadable'
  BY <1>0, <1>1, <1>2, <1>3 DEF AckedIsReadable, TypeOK
<1>10. QED
  BY <1>1, <1>4, <1>8, <1>9 DEF Stored, Synced, Leaving, Covered

\* The step of the invariant.
LEMMA InvStep == Inv /\ [Next]_vars => Inv'
<1> SUFFICES ASSUME Inv, [Next]_vars PROVE Inv'
  OBVIOUS
<1>1. CASE UNCHANGED vars
  BY <1>1 DEF vars, tables, main, workers, Inv, TypeOK, Stored, Synced, Leaving, Covered, AckedIsReadable
<1>2. QED
  BY <1>1, WorkerStep, MainStep, FailureStep DEF Next, Ended

\* The invariant holds along every behaviour.
LEMMA InvHolds == Spec => []Inv
BY InvInit, InvStep, PTL DEF Spec

-----------------------------------------------------------------------------

\* The disk is never ahead of the table, and no counter leaves its range.
THEOREM TypeCorrect == Spec => []TypeOK
BY InvHolds, PTL DEF Inv

\* Whatever crashes, fails, stops and starts again, a client that was told 201
\* finds its note under its id, unless a power loss took it.
THEOREM AckedIsReadableHolds == Spec => []AckedIsReadable
BY InvHolds, PTL DEF Inv

\* After an orderly exit with one checkpoint done, a power loss has nothing to
\* take from any client.
THEOREM CleanExitIsDurableHolds == Spec => []CleanExitIsDurable
<1>1. Inv => CleanExitIsDurable
  BY DEF Inv, TypeOK, Covered, Synced, AckedIsReadable, CleanExitIsDurable
<1>2. QED
  BY <1>1, InvHolds, PTL

\* No step changes or loses a write that a checkpoint has covered: the statements
\* of the workers append, and a power loss keeps what is synced.
THEOREM CheckpointedIsFinalHolds == Spec => CheckpointedIsFinal
<1> DEFINE Kept == \A i \in 1 .. covered : i =< Len(table') /\ table'[i] = table[i]
<1>1. Inv /\ [Next]_vars => [Kept]_vars
  <2> SUFFICES ASSUME Inv, Next PROVE Kept
    OBVIOUS
  <2> USE DEF Inv, tables, main, workers
  <2>0. covered \in Nat /\ synced \in Nat /\ Len(table) \in Nat /\ covered =< synced /\ synced =< Len(table)
    BY DEF TypeOK, Synced
  <2>1. CASE table' = table
    BY <2>0, <2>1
  <2>2. ASSUME NEW w \in Workers, Commit(w) PROVE Kept
    <3>1. wrote[w].tag \in Nat
      BY DEF TypeOK
    <3>2. QED
      BY <2>0, <2>2, <3>1, AppendProperties DEF Commit, TypeOK
  <2>3. ASSUME NEW kept \in 0 .. Len(table), PowerLoss(kept) PROVE Kept
    <3>1. \A i \in 1 .. kept : table[i] \in Nat
      BY <2>0 DEF TypeOK
    <3>2. Len(table') = kept /\ \A i \in 1 .. kept : table'[i] = table[i]
      BY <2>0, <2>3, <3>1, SubSeqProperties DEF PowerLoss
    <3>3. QED
      BY <2>0, <2>3, <3>2 DEF PowerLoss
  <2>4. QED
    BY <2>1, <2>2, <2>3 DEF Next, Begin, Worker, StepFails, Answer, Main, StoreOpen, StoreOpenFails, Stop, Join,
       Report, StoreClose, ProcessCrash, Restart, Ended, vars
<1>2. QED
  BY <1>1, InvHolds, PTL DEF Spec, CheckpointedIsFinal
=============================================================================
