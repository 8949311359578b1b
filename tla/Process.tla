------------------------------ MODULE Process -------------------------------
(***************************************************************************)
(* The life of the process: main.c around server_run, with the handler of  *)
(* SIGINT and SIGTERM running server_stop on whichever thread the kernel   *)
(* chooses.  The threads in Callers are the threads a signal may interrupt *)
(* (the main thread and workers); each is interrupted at most once.        *)
(***************************************************************************)
EXTENDS ThreadPool

\* The process has no other threads for the kernel to choose from.
ASSUME CallersAssumption == Callers \subseteq Workers \cup {Main}

VARIABLES
    mpc,            \* control of main()
    g_server,       \* the handler's pointer is not NULL
    g_signalled,
    handlers,       \* sigaction was called
    memory,         \* the Server object: "none", "live" or "freed"
    store           \* the database: "none", "open" or "closed" (after its checkpoint)

processVars == <<mpc, g_server, g_signalled, handlers, memory, store>>
allVars == <<vars, processVars>>

ProcessInit ==
    /\ Init
    /\ mpc = "create" /\ g_server = FALSE /\ g_signalled = FALSE /\ handlers = FALSE
    /\ memory = "none" /\ store = "none"

MainAt(c) == mpc = c /\ Free(Main)

\* server_create: queue_init and store_open; on any failure nothing is left.
CreateServer ==
    /\ MainAt("create")
    /\ memory' = "live" /\ store' = "open" /\ mpc' = "publish"
    /\ UNCHANGED <<vars, g_server, g_signalled, handlers>>

CreateFails ==
    /\ MainAt("create") /\ mpc' = "exit"
    /\ UNCHANGED <<vars, g_server, g_signalled, handlers, memory, store>>

Publish ==
    /\ MainAt("publish") /\ g_server' = TRUE /\ mpc' = "install"
    /\ UNCHANGED <<vars, g_signalled, handlers, memory, store>>

InstallHandlers ==
    /\ MainAt("install") /\ handlers' = TRUE /\ mpc' = "serve"
    /\ UNCHANGED <<vars, g_server, g_signalled, memory, store>>

\* server_run has returned: after a signal the shutdown lines are printed.
Report ==
    /\ MainAt("serve") /\ apc = "returned"
    /\ mpc' = "close"
    /\ UNCHANGED <<vars, g_server, g_signalled, handlers, memory, store>>

\* server_destroy: store_close checkpoints the WAL, then the queue and the
\* server are freed.
CloseStore ==
    /\ MainAt("close") /\ store' = "closed" /\ mpc' = "free"
    /\ UNCHANGED <<vars, g_server, g_signalled, handlers, memory>>

FreeServer ==
    /\ MainAt("free") /\ memory' = "freed" /\ mpc' = "forget"
    /\ UNCHANGED <<vars, g_server, g_signalled, handlers, store>>

Forget ==
    /\ MainAt("forget") /\ g_server' = FALSE /\ mpc' = "exit"
    /\ UNCHANGED <<vars, g_signalled, handlers, memory, store>>

\* on_signal on thread c.
OnSignal(c) ==
    /\ handlers /\ mpc # "exit" /\ spc[c] = "idle"
    /\ g_signalled' = TRUE
    /\ IF g_server THEN StopCall(c) ELSE UNCHANGED vars
    /\ UNCHANGED <<mpc, g_server, handlers, memory, store>>

\* server_run, the workers, the clients, and the rest of a handler's server_stop.
Serve ==
    /\ mpc = "serve" /\ (Acceptor \/ Connect)
    /\ UNCHANGED processVars

Others ==
    /\ \/ \E w \in Workers : Worker(w) \/ SpuriousWakeup(w)
       \/ \E c \in Callers : Stop(c)
    /\ UNCHANGED processVars

Exited == mpc = "exit" /\ UNCHANGED allVars

ProcessNext ==
    \/ CreateServer \/ CreateFails \/ Publish \/ InstallHandlers \/ Serve \/ Others
    \/ Report \/ CloseStore \/ FreeServer \/ Forget
    \/ \E c \in Callers : OnSignal(c)
    \/ Exited

ProcessSpec == ProcessInit /\ [][ProcessNext]_allVars

-----------------------------------------------------------------------------

\* The database is closed only when no worker can use it any more and no client
\* connection is open: server_destroy relies on server_run having joined every
\* worker on every path, also when a thread could not be created and when
\* signals arrive at any time.
StoreOutlivesWorkers ==
    store = "closed" => /\ \A w \in Workers : wpc[w] \in {"none", "exited"}
                        /\ open = {} /\ listener = "none"

\* server.h on server_destroy: "Caller must not use after".  The handler keeps to
\* it but for one window: only a signal that interrupts main itself between
\* server_destroy and g_server = NULL finds a freed server.  A handler on a
\* worker, or one that began earlier, has returned by then.
UsedAfterDestroyOnlyByMain ==
    \A c \in Callers : spc[c] \notin {"idle", "returned"} /\ memory # "live" => c = Main /\ mpc = "forget"
=============================================================================
