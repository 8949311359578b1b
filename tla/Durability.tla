----------------------------- MODULE Durability -----------------------------
(***************************************************************************)
(* What becomes of acknowledged writes when the process crashes, the       *)
(* machine loses power, or the server is stopped: store_open's pragmas,    *)
(* the writes of the workers, main's way out with its report, and          *)
(* store_close's checkpoint.                                               *)
(*                                                                         *)
(* A write is a new note with a tag of its own; its id is its place in the *)
(* table (AUTOINCREMENT), so `table` is the sequence of tags.  sqlite is   *)
(* modelled by the contract of WAL mode: a commit is in the file cache of  *)
(* the machine, which survives the process; a power loss keeps a prefix of *)
(* the commits, at least what the last synced checkpoint had covered.      *)
(***************************************************************************)
EXTENDS Naturals, Sequences

CONSTANTS
    Workers,
    MaxWrites,      \* bound: writes
    MaxCrashes      \* bound: crashes, power losses and restarts

ASSUME BoundsAssumption == MaxWrites \in Nat /\ MaxCrashes \in Nat

VARIABLES
    table,          \* the committed writes, as every reader of the files sees them
    synced,         \* the first so many of them are on the disk itself
    synchronous,    \* the pragma in force
    covered,        \* how many writes the last completed checkpoint covered
    mpc,            \* main(), or "down" when there is no process
    reported,       \* "database checkpointed" was printed by this process
    checkpointed,   \* the checkpoints at the shutdown of this process: "no", "done" or "failed"
    wpc, wrote,     \* each worker, and the write it is about
    acked,          \* writes that a client was told are done: records of id and tag
    lost,           \* those of them that a power loss took
    issued, crashes

tables == <<table, synced, covered>>
main == <<mpc, synchronous, reported, checkpointed>>
workers == <<wpc, wrote, issued>>
vars == <<tables, main, workers, acked, lost, crashes>>

Write(i, t) == [id |-> i, tag |-> t]
NoWrite == Write(0, 0)

Init ==
    /\ table = <<>> /\ synced = 0 /\ covered = 0
    /\ mpc = "open" /\ synchronous = "FULL" /\ reported = FALSE /\ checkpointed = "no"
    /\ wpc = [w \in Workers |-> "idle"] /\ wrote = [w \in Workers |-> NoWrite] /\ issued = 0
    /\ acked = {} /\ lost = {} /\ crashes = 0

-----------------------------------------------------------------------------
(* sqlite *)

\* A checkpoint syncs the log, copies it and syncs the database, unless the
\* pragma turned syncing off.
CheckpointDone ==
    /\ covered' = Len(table')
    /\ synced' = IF synchronous = "OFF" THEN synced ELSE Len(table')

\* It may also fail or not get through; nobody looks at the result.
Checkpoint == CheckpointDone \/ UNCHANGED <<synced, covered>>

-----------------------------------------------------------------------------
(* The workers *)

Goto(w, c) == wpc' = [wpc EXCEPT ![w] = c]

\* Mutant of Begin: the client is told before the statement is stepped.
BeginAcks(w) ==
    /\ mpc = "serve" /\ wpc[w] = "idle" /\ issued < MaxWrites
    /\ issued' = issued + 1 /\ wrote' = [wrote EXCEPT ![w] = Write(0, issued + 1)] /\ Goto(w, "step")
    /\ acked' = acked \cup {Write(Len(table) + 1, issued + 1)}
    /\ UNCHANGED <<tables, main, lost, crashes>>

\* A request for a new note reaches the store.
Begin(w) ==
    /\ mpc = "serve" /\ wpc[w] = "idle" /\ issued < MaxWrites
    /\ issued' = issued + 1 /\ wrote' = [wrote EXCEPT ![w] = Write(0, issued + 1)]
    /\ Goto(w, "step")
    /\ UNCHANGED <<tables, main, acked, lost, crashes>>

\* Mutant of Commit: a failed step is taken for a done one.
CommitUnchecked(w) ==
    /\ wpc[w] = "step" /\ table' \in {table, Append(table, wrote[w].tag)} /\ Checkpoint
    /\ wrote' = [wrote EXCEPT ![w].id = Len(table) + 1] /\ Goto(w, "answer")
    /\ UNCHANGED <<main, issued, acked, lost, crashes>>

\* store_note_create: the step commits, and may run into sqlite's automatic
\* checkpoint before it returns SQLITE_DONE; the id is read under the same lock.
Commit(w) ==
    /\ wpc[w] = "step"
    /\ table' = Append(table, wrote[w].tag)
    /\ Checkpoint
    /\ wrote' = [wrote EXCEPT ![w].id = Len(table) + 1]
    /\ Goto(w, "answer")
    /\ UNCHANGED <<main, issued, acked, lost, crashes>>

\* The step fails, without effect, and the client is told so.
StepFails(w) ==
    /\ wpc[w] = "step"
    /\ Goto(w, "idle") /\ wrote' = [wrote EXCEPT ![w] = NoWrite]
    /\ UNCHANGED <<tables, main, issued, acked, lost, crashes>>

\* The answer is sent, or is lost on its way.
Answer(w) ==
    /\ wpc[w] = "answer"
    /\ acked' \in {acked, acked \cup {wrote[w]}}
    /\ Goto(w, "idle") /\ wrote' = [wrote EXCEPT ![w] = NoWrite]
    /\ UNCHANGED <<tables, main, issued, lost, crashes>>

Worker(w) == Commit(w) \/ StepFails(w) \/ Answer(w)

-----------------------------------------------------------------------------
(* main *)

\* Mutant of StoreOpen: PRAGMA synchronous=OFF.
StoreOpenUnsynced ==
    /\ mpc = "open" /\ mpc' = "serve" /\ synchronous' = "OFF"
    /\ UNCHANGED <<tables, workers, reported, checkpointed, acked, lost, crashes>>

\* store_open: the log of an earlier process is recovered; all pragmas must succeed.
StoreOpen ==
    /\ mpc = "open" /\ mpc' = "serve" /\ synchronous' = "NORMAL"
    /\ UNCHANGED <<tables, workers, reported, checkpointed, acked, lost, crashes>>

StoreOpenFails ==
    /\ mpc = "open" /\ mpc' = "exit"
    /\ UNCHANGED <<tables, workers, synchronous, reported, checkpointed, acked, lost, crashes>>

\* A signal, or a fatal error of poll: server_run leaves its loop.
Stop ==
    /\ mpc = "serve" /\ mpc' = "join"
    /\ UNCHANGED <<tables, workers, synchronous, reported, checkpointed, acked, lost, crashes>>

\* Mutant of Join: server_run returns while workers are still busy.
JoinNobody ==
    /\ mpc = "join" /\ mpc' = "report"
    /\ UNCHANGED <<tables, workers, synchronous, reported, checkpointed, acked, lost, crashes>>

\* server_run returns when every worker has ended.
Join ==
    /\ mpc = "join" /\ \A w \in Workers : wpc[w] = "idle"
    /\ mpc' = "report"
    /\ UNCHANGED <<tables, workers, synchronous, reported, checkpointed, acked, lost, crashes>>

\* Mutant of Report: main returns after the report, without server_destroy.
ReportAndLeave ==
    /\ mpc = "report" /\ mpc' = "exit" /\ reported' \in BOOLEAN
    /\ UNCHANGED <<tables, workers, synchronous, checkpointed, acked, lost, crashes>>

\* After a signal, and on a terminal, console_print_shutdown says that the
\* database is checkpointed.  server_destroy comes afterwards.
Report ==
    /\ mpc = "report" /\ mpc' = "checkpoint"
    /\ reported' \in BOOLEAN
    /\ UNCHANGED <<tables, workers, synchronous, checkpointed, acked, lost, crashes>>

\* store_close: PRAGMA wal_checkpoint(TRUNCATE), then sqlite3_close, which
\* checkpoints once more.
StoreClose ==
    /\ mpc \in {"checkpoint", "close"}
    /\ mpc' = IF mpc = "checkpoint" THEN "close" ELSE "exit"
    /\ UNCHANGED table /\ Checkpoint
    /\ checkpointed' = IF covered' = Len(table) THEN "done" ELSE "failed"
    /\ UNCHANGED <<workers, synchronous, reported, acked, lost, crashes>>

Main == StoreOpen \/ StoreOpenFails \/ Join \/ Report \/ StoreClose

-----------------------------------------------------------------------------
(* Failures *)

Halt ==
    /\ mpc' = "down" /\ reported' = FALSE /\ checkpointed' = "no"
    /\ wpc' = [w \in Workers |-> "idle"] /\ wrote' = [w \in Workers |-> NoWrite]
    /\ crashes' = crashes + 1
    /\ UNCHANGED <<synchronous, issued, acked>>

\* The process is killed at any moment; the machine goes on.
ProcessCrash ==
    /\ mpc \notin {"down", "exit"} /\ crashes < MaxCrashes
    /\ Halt /\ UNCHANGED <<tables, lost>>

\* Power is lost, with or without a process running.
PowerLoss(kept) ==
    /\ crashes < MaxCrashes /\ kept \in synced .. Len(table)
    /\ table' = SubSeq(table, 1, kept) /\ synced' = kept /\ UNCHANGED covered
    /\ lost' = lost \cup {a \in acked : a.id > kept}
    /\ Halt

\* The operator starts the server again, after a crash or an orderly end.
Restart ==
    /\ mpc \in {"down", "exit"} /\ crashes < MaxCrashes
    /\ crashes' = crashes + 1
    /\ mpc' = "open" /\ reported' = FALSE /\ checkpointed' = "no"
    /\ UNCHANGED <<tables, workers, synchronous, acked, lost>>

Ended == mpc \in {"down", "exit"} /\ crashes = MaxCrashes /\ UNCHANGED vars

Next ==
    \/ \E w \in Workers : Begin(w) \/ Worker(w)
    \/ Main \/ Stop
    \/ ProcessCrash \/ (\E kept \in 0 .. Len(table) : PowerLoss(kept)) \/ Restart
    \/ Ended

Spec == Init /\ [][Next]_vars

\* The threads of a live process run; nothing is assumed of clients, of signals
\* or of failures.
FairSpec == Spec /\ WF_vars(Main) /\ \A w \in Workers : WF_vars(Worker(w))

-----------------------------------------------------------------------------
(* Properties *)

\* Control and counters; the disk is never ahead of the file cache, and an id
\* that a worker has in hand is the id of a row.
TypeOK ==
    /\ table \in Seq(Nat) /\ synced \in 0 .. Len(table) /\ covered \in Nat
    /\ synchronous \in {"FULL", "NORMAL", "OFF"}
    /\ mpc \in {"open", "serve", "join", "report", "checkpoint", "close", "exit", "down"}
    /\ reported \in BOOLEAN /\ checkpointed \in {"no", "done", "failed"}
    /\ wpc \in [Workers -> {"idle", "step", "answer"}]
    /\ wrote \in [Workers -> [id : 0 .. Len(table), tag : 0 .. issued]]
    /\ lost \subseteq acked /\ acked \subseteq [id : Nat, tag : Nat]
    /\ issued \in 0 .. MaxWrites /\ crashes \in 0 .. MaxCrashes

\* A client that was told 201 finds its note under its id ever after: through
\* crashes of the process, restarts, failed statements and failed checkpoints,
\* and beside ids that are given out again after a power loss.  The only
\* exceptions are the notes that a power loss took.
AckedIsReadable ==
    \A a \in acked \ lost : a.id \in 1 .. Len(table) /\ table[a.id] = a.tag

\* What a completed checkpoint has covered is neither lost nor changed by
\* anything, a power loss included.
CheckpointedIsFinal ==
    [][\A i \in 1 .. covered : i =< Len(table') /\ table'[i] = table[i]]_vars

\* When the process has ended in order and one of its two checkpoints got
\* through, no acknowledged write is left to a power loss: the checkpoint came
\* after the last worker's last write.
CleanExitIsDurable ==
    mpc = "exit" /\ checkpointed = "done" => \A a \in acked \ lost : a.id =< synced

\* README: at shutdown the WAL is checkpointed.  The report is printed first,
\* and comes true unless the process dies or both checkpoints fail.
ReportComesTrue ==
    reported ~> \/ mpc = "exit" /\ (synced = Len(table) \/ checkpointed = "failed")
                \/ mpc = "down"
=============================================================================
