# A formal model of the C server

TLA+ modules, TLC runs and TLAPS proofs for the HTTP server in `src/`: a
thread-pool server (`server.c`) that serves a small key-value and notes API
(`api.c`) from an SQLite store (`store_sqlite.c`). `PROJECT.json` lists the
components, runs, mutants, hazards, findings and theorems, and maps each
definition to the lines it models.

## 1. The system

| Part | State | Operations | Talks to |
|---|---|---|---|
| Queue and worker pool, `server.c` | ring of descriptors (`fds`, `head`, `tail`, `count`), `closed`, mutex, `listen_fd`, `stop_requested`, counters | `server_run` (accept loop), `worker_main`, `queue_try_push`, `queue_pop`, `queue_close`, `server_stop` | kernel sockets; one acceptor, 1..64 workers, stop calls from any thread or signal handler |
| Process, `main.c` | the configuration, `g_server`, `g_signalled` | `main`, `on_signal` | reads environment and arguments; creates, runs and destroys the server; the handler calls `server_stop` |
| Handlers, `api.c` | four `static` buffers | one handler per route, `api_dispatch` | run by workers; call the store; answer with `http_respond` |
| Store, `store_sqlite.c` | tables `kv`, `notes`, one connection in WAL mode, one mutex | open, close with a checkpoint, put, get, delete, list, counts | called by handlers of several workers at once |
| HTTP, `http.c` | per-thread buffers | `http_read_request`, `http_parse_request`, `http_respond` | sockets |
| JSON, `json.c` | none | `json_escape`, `json_get_string` | handlers, store |
| Console, `console.c` | eight buffers that go round | boot, banner and shutdown screens | called by `main` |
| Logging, web page | presentation | | |

What is hard here: a condition variable with several sleepers; descriptor
numbers that the kernel gives out again at once; a stop at every moment (before
the start, during a failed start, between `accept` and push, twice, from a
signal handler); memory that outlives or does not outlive its users; buffers
shared by all workers; an operation that takes two critical sections; failing
statements and lost answers; a crash or a power loss between an answer and a
checkpoint; texts that one function accepts and another refuses; pages of a
table that changes; rotating buffers in the arguments of one `printf`.

What makes each part correct:

* pool: every accepted connection has one owner and is closed once; no worker
  sleeps beside a queued connection; a stop ends everything and drains; counters
  account for every connection; the ring is a bounded FIFO;
* process: the server gets the configuration that was asked for, bad input
  changes nothing, and the store is closed after its last user, on every path;
* handlers and store: a request takes effect at one moment and its answer says
  what happened; failures are reported; no path keeps the mutex; ids are not
  mixed up;
* store over time: what was acknowledged stays, but for what WAL leaves to a
  power loss; pages neither repeat rows nor miss more than was deleted;
* HTTP, JSON: limits hold at the boundary, what is stored can be read back;
* console: no text is overwritten before it is printed, the box is whole.

## 2. Modules

| Module | Models |
|---|---|
| `ThreadPool` | `server.c`: acceptor, workers, queue, `server_stop` |
| `BoundedFifo` | what the queue promises (abstract) |
| `ThreadPoolProofs` | theorems about `ThreadPool`, its queue and its counters |
| `Process` | `main.c` around `ThreadPool`: creation, signals, destruction |
| `ProcessProofs` | theorems about `Process`, from those about the pool |
| `Api` | handlers of `api.c` on `store_sqlite.c`, several workers |
| `AtomicApi` | what a client may expect of the API (abstract) |
| `ApiProofs` | theorems about `Api`, and where it implements `AtomicApi` |
| `Router` | decisions of `api_dispatch`, `server_auth_check`, `api_require_json` and the handlers' checks, as operators |
| `Request` | `http.c` reading and parsing, then `Router`, for successive connections on one worker |
| `RequestProofs` | theorems about `Request` and `Router` |
| `Durability` | `store_open`, a write, `main`'s way out and `store_close`, with crashes, power losses and restarts |
| `DurabilityProofs` | theorems about `Durability` |
| `Codec` | `json.c`: a body through `json_get_string`, the store and `json_escape` |
| `CodecProofs` | theorems about `Codec` |
| `Listing` | the queries and results of the two lists (`api.c`, `store_sqlite.c`, `http_query_get`) |
| `ListingProofs` | theorems about `Listing` |
| `Console` | `console.c`: capabilities, widths, screens and their buffers |
| `Startup` | `main.c` from environment and arguments to the exit code; extends `Console` |
| `StartupProofs` | theorems about `Startup` and `Console` |
| `MCThreadPool`, `MCProcess`, `MCApi`, `MCRequest`, `MCDurability`, `MCText`, `MCStartup` | symmetry sets, streams, bodies, queries and command lines for TLC |

### ThreadPool

Variables have the names of the C fields. `apc`, `wpc[w]` and `spc[c]` are the
control points of `server_run`, of each worker, and of each call of
`server_stop`. An action is what happens between two points at which another
thread could notice. A critical section is two actions (`PushLock`/`TryPush`,
`PopLock`/`PopWait`, `PopExit` or `PopTake`, `StopLock`/`StopClose`,
`DrainLock`/`DrainClose`), so the state says who holds the mutex. Counters are
bumped by steps of their own, because other threads see the moment between
`close` and its counter.

`Callers` are the threads on which `server_stop` may run. A member that is also
`Main` or a worker stands for a signal handler that interrupted this thread:
`Free(t)` keeps the thread's own code from running until the handler returns.
A member that is neither is a thread of its own, like the tests use.

The kernel is external: `Connect` (a connection in the accept queue),
`ShutdownListener`, `Signal`, `SpuriousWakeup`, and a set `Fds` of descriptor
numbers from which `Accept` takes any that is not open. Failing calls (`listen`,
`pthread_create`, `poll`, `accept`, `EINTR`) are actions with the guard `Fault`.
When all descriptors are taken and the fault bound is used up, the acceptor
waits at `accept` for a close, where the code would loop and count `EMFILE`;
the counters' properties allow for either.

`handle_client` is abstracted to its effect on the counters: `Handle` (the
request was read, or it was not) and `Answer` (what the dispatcher returned).
`not_full` is left out: nobody waits on it. Not kept: the number of threads per
`pthread_create` order, `echo_bytes`, which no code changes.

### Process

`main()` as the control variable `mpc` around the actions of `ThreadPool`, with
the server's memory and the store's state. `OnSignal(c)` runs the handler on any
thread in `Callers` from `sigaction` to the exit. Each thread is interrupted at
most once. `FreeServer` takes `queue_destroy` and `free` (`server.c:395`, `401`) in
one step: both end the server for a handler that still comes.

### Api

A worker's request starts at its first store call. `kv`, `notes` and `lastId`
are the tables and the AUTOINCREMENT sequence; `mutex` is the store's; `buf` are
the static buffers. A store call is `StoreLock` and one action for the statement
and release, except for calls that render into a static buffer: they mark it
`Torn` while they write, complete it in `FillDone`, and release. The handler
then measures the buffer (`Measure`: `strlen`, or `snprintf` for the key list)
and later sends it (`Send`), with no lock, so another worker can write it at any
point in between; what is sent is what the buffer holds then, or `Torn` if that
differs from what was measured. POST and PUT of a note take a second lock to
read the note back (`relock`, `reread`).

Texts are model values. `Unprintable` ones hold a control character: the JSON
parser accepts it raw and `json_escape` refuses it, so the text is stored and
cannot be sent (`Encode`, `NoteRead`, `FillDone`). `BufferRows` is the number of
rows that fit a list's buffer. Failures are a statement without effect
(`StatementFails`), the unchecked step of `SELECT COUNT(*)` (`CountFails`), an
unchecked bind (`BindFails`), an error in the middle of a list (`FillFails`) and a
failed send (`SendFails`). `Fallible` names those that an instance allows. A bind
that fails leaves its parameter NULL: nothing is equal to it or like it, columns
that are NOT NULL refuse it, and only the key of `kv`, a TEXT PRIMARY KEY, takes
it. `keyless` counts the rows that got there so; no statement finds them again but
COUNT. (The columns of integers are bound without memory, so these binds do not
fail.)

`AtomicApi` has one atomic effect per request; afterwards the answer is that
effect's result, a 500, or lost, and a list may be answered 413.

### Router and Request

`Router` names a path by the class that the code tells apart (`kv_key`,
`note_badid`, ...). `Routes` is the table of methods and handlers, `Refused` the
paths that have an error of their own, `Dispatch` the order: authentication for
anything but GET under `/api/`, then the route. `Validate` is what a handler
checks before it calls the store, `Calls` the calls that it makes then, in their
order, each with the errors it can return and whether it writes. `Outcomes`
follows from that: a handler returns at its first call that fails, and what the
calls before it wrote stays. Which call fails is a choice here, and `Api`'s subject.

`Request` follows one worker through several connections. A stream is what a
client means to send: a header of `hlen` bytes, `size` bytes behind it, and the
fields. Bytes arrive one by one, and the client may shut down or break off at
any moment; `RecvHeader` and `RecvBody` take any part of what has arrived, and
`RecvFails` is the receive timeout or the broken connection. The search for the
blank line succeeds once `hlen` bytes are there, because the code searches the
whole buffer after every `recv`. `ParseRequestLine` and `ParseHeaderLine` are
turns of the parser's loop. Bytes are tagged with their connection and place, so
that `OwnBody` can tell a byte of this body from one that an earlier request
left in the thread-local buffer. Left out: a failing `malloc` of the parser (500)
and a failing `setsockopt` (closed without an answer; counted in `ThreadPool`);
a failing send (in `Api`). The `text` of a stream is what its announced body
says to the JSON parser.

`HeaderCap` and `BodyCap` are the buffer sizes. `CapsAssumption` keeps the order
they have in the code, by which the limits that `http_read_request` checks a
second time (`http.c:341-349`) can never refuse anything.

### Durability

`table` is the sequence of committed notes (an id is a place in it, as
AUTOINCREMENT gives it), `synced` how many of them are on the disk itself.
sqlite is external, and its part is the contract of WAL mode: a commit survives
the process (`ProcessCrash` leaves `table` alone); `PowerLoss` keeps any prefix
of at least `synced` commits; a completed checkpoint moves `synced` to the end
unless `synchronous` is OFF. The code's part is which pragma `StoreOpen` sets,
that a worker answers only after its step returned (`Commit`, then `Answer`),
that main joins before it closes (`Join`), that it reports before it closes
(`Report`), and that `StoreClose` checkpoints twice (the pragma, then
`sqlite3_close`) and looks at neither result. Key-value writes and deletions are
the same statement to this contract; notes are taken because an id can be given
out again after a loss. `crashes` counts crashes, losses and restarts together.

### Codec and Listing

A body of `Codec` is written by the client as pieces (braces, colons, commas,
spaces, strings of units that know what they mean), and may be cut anywhere
(`Arrives`). That is no restriction: a string is whatever follows a quote, up to
the next one that no backslash hides or to the end, so every text is a body.
`OpenObject`, `Pair` and `CloseObject` are the turns of `json_get_string`'s
loop over its characters, which are names of classes: a letter, the letter of
an escape, quote, backslash, newline, any other control character, the zero
byte. `Store` is the handler's check and the C string that the store sees,
`Encode` the two renderings, in a GET and in a list, with the sizes of their
buffers. A field record carries the limits of one caller: `cap` of its buffer,
`max` that the handler allows, and the buffers of its two answers.

In `Listing`, `KvList` is a whole GET of keys: `HttpQueryGet`, `ParseLimit`, the
checks, the pattern cut at its buffer, `LIKE` with `_` and without case, the
order and the limit, and the status that row sizes lead to (`RowSize` 0: a value
that cannot be escaped). `Ordered` says of `ORDER BY` that in place *k* + 1
stands the row that has *k* others before it. A walk is a client that asks for the notes page by page
(`WalkPage`) between the creations and deletions of others. Bodies and lists
share no state; `MCText` puts them side by side so that one run covers them.

### Console and Startup

A screen is a sequence of outputs, each a `printf` or an `snprintf` with its
arguments; an argument is a chain of calls that take a buffer each.
`Call(a)` is the next call of argument `a`, and C does not say which argument
comes first, so any may; `Put` prints when all are done. Widths, buffer sizes
and the number of buffers are those of the code. `Startup` is `main` step by
step: `ReadEnv`, one `Argument` at a time, `CheckInput`, `EnsureDbDir`,
`Create`, the screens, `Run` (what happens inside is `Process`'s subject) and
`Destroy`. Texts are model strings; `Number`, `Ips`, `Denied` and `LongKeys` say
what `strtol`, `inet_pton`, `mkdir` and the length check make of them; `NoText`
is the empty text, and also a variable that is not set: `main` treats both alike.

## 3. Runs

Passing:

| Run | Instance | Checks |
|---|---|---|
| `threadpool_safety` | 2 workers, 1 stop caller, 3 descriptors, queue of 2, 4 connections, 1 fault; symmetry of workers and descriptors; 925,366 states | `TypeOK`, `Ownership`, `NoLostWakeup`, `Conservation`, `Classified`, `Drained`, `ImplementsFifo` |
| `threadpool_liveness` | 2 workers, 2 descriptors, queue of 1, 2 connections, 1 fault, no symmetry; 132,290 states | `StopReturns`, `EveryConnectionServed` |
| `process_life` | 2 workers, signals on main and on one worker, 2 connections, 1 fault; 307,535 states | `StoreOutlivesWorkers`, `UsedAfterDestroyOnlyByMain` |
| `api_kv` | 2 workers, GET/PUT/DELETE of a key and GET /metrics, 4 requests, 1 failing prepare, step or send; 87,005 states | `Linearizable`, `EveryRequestAnswered` |
| `api_all` | 2 workers, all operations, 3 requests, 1 failing prepare, step, COUNT, bind or send; 1,022,911 states | `TypeOK`, `CreatedIdsDistinct`, `SilentOnlyWhereUnchecked`, `MissingIsDeleted` |
| `request` | 1 worker, with and without a key, 2 connections of 413 streams, header buffer 5, body buffer 5; 517,236 states | `TypeOK`, `OwnBody`, `SplitIndependent`, `WriteNeedsKey`, `NothingLeftUnread`, `EveryReadEnds` |
| `durability` | 2 workers, 4 writes, 4 crashes, losses and restarts; 341,351 states | `TypeOK`, `AckedIsReadable`, `CleanExitIsDurable`, `CheckpointedIsFinal`, `ReportComesTrue` |
| `text` | every text of up to 3 units and every shape of up to 6 pieces; 7 keys, 42 prefixes, all limits; up to 5 notes; 463,761 states | `ParsesAsSpecified`, `ReadsBack`, `ListsWhatItServes`, `PrefixListing`, `WalkAddsUp` |
| `startup` | any two arguments under six environments, any two options, a choice of three; every width of terminal up to 90; 322,015 states | `TextsIntact`, `BoxIsWhole`, `ConfigAsAsked`, `BadInputTouchesNothing` |

`SplitIndependent` compares the result of the loop with `ReadResult`, a
definition over the whole stream: the first refused line wins, the last length
counts, and BAD_REQUEST comes instead only if the request did not arrive whole.
It also fixes what an oversized header gets: 400, never the 413 of `http.c:328`.
In the same way `ParsesAsSpecified` compares the parser's turns over characters
with a definition over the pieces the client meant.

Why these bounds are enough for the interesting cases: four connections through
a ring of two make it full, make it wrap, and make a descriptor be used again;
with three descriptors the process limit is reached. Two workers allow one awake
and one asleep, which is where a wakeup is lost. One fault reaches every error
path; since a fault changes no later guard, two do not combine into more than
both paths. Two requests at once with up to four in sequence make a reader, a
writer and a stale buffer meet. `request` has headers of two bytes, of all that
the buffer takes and of one more, bodies shorter and longer than announced, and
every method on every path; two connections are what it takes to meet stale
bytes. `durability` lets a loss take writes, the ids be given out again, and the
new writes be lost or kept too: that takes two losses, two restarts and a write
for each round. The buffers of `text` take four characters: its texts end below,
at and above them, plain and escaped to twice the length; its keys have every
length up to the bound, and differ in case or by an underscore; pages of one or
two out of five notes leave room for a deletion before, on and behind a page.
`startup` has the real widths, buffers and thread limit (ports end at 99, so
that 70 is a port but no number of threads); what is bounded are the arguments: the third option is what it
takes to repeat one and still have another.
Deadlock is checked everywhere but in two runs: in `process_life`, because the
handler's self-deadlock (below) is reachable there, and in `text`, where a body
is done when it is encoded.

Runs that find a violation of what the repository says of itself:

| Run | Property | What happens |
|---|---|---|
| `threadpool_signal` | `StopNeverWaitsForItself` | the handler's `server_stop` locks the mutex its interrupted thread holds; `main.c:36` calls it async-signal-safe |
| `api_crosstalk` | `OwnNote` | two concurrent GETs share a static buffer and one client gets the other's note; `api.h:14` says per-connection state only |
| `api_silent` | `NeverSilentSuccess` | a bind fails unnoticed, and a PUT whose row has no key is answered with 200; `store_sqlite.c:3` says that every rc is checked, `store.h:31` "never silent success" |

This is also why `Linearizable` is checked with the operations that use no static
buffer, and with no failing bind or COUNT: lists and notes on two workers are not
linearizable, by `api_crosstalk` and by the read-back that `MissingIsDeleted` is
about, and an unnoticed failure is an answer about something that did not happen.
That one worker is atomic with all operations is left to the theorem
`AloneLinearizable`.

Other places where the code and its words differ are stated by a property in the
form that the code keeps, or can be read off the code:

* A signal that interrupts `main` between `server_destroy` and `g_server = NULL`
  uses a freed server (`server.h:81`, "Caller must not use after").
  `UsedAfterDestroyOnlyByMain` says that this is the only window.
* POST of a note can be answered 404, when a DELETE comes between INSERT and
  read-back; the API table (`README.md:191`) has no 404 there. `MissingIsDeleted`
  says that this is the only way.
* What else an unnoticed failure of sqlite can do (`api_silent`): a COUNT that
  failed is answered as 0 by GET /metrics and in the total of notes, a bind that
  failed lets a key or a note seem missing and a list of keys empty.
  `SilentOnlyWhereUnchecked` says that this is all, and that a failed prepare or
  step is always answered with 500.
* "database checkpointed" is printed before `server_destroy` checkpoints.
  `ReportComesTrue` says that it comes true unless the process dies first or
  both checkpoints fail.
* The parser that `json.h:9` calls strict accepts a comma before the closing
  brace, and cuts names and values at a zero byte; and it decodes into a buffer
  of its own of 8192 bytes, so that longer values get 400, though
  `docs/ADR-002` speaks of 60 KB. The definition behind `ParsesAsSpecified` has
  all three.
* In a prefix, `_` matches any character, and case is ignored: `PrefixListing`
  says where the list is exact nevertheless.
* `console.c:251` says that the calls that take a buffer "are never nested inside
  one printf"; they are, twice in one argument and in several arguments.
  `TextsIntact` says that eight buffers are enough for what is done.
  `console.h:63` promises a text for four more calls only; no `printf` needs more.
* `console_is_utf8` asks for UTF-8 in any of three variables, where the C library
  takes the first that is set; `console.h` says that the boot screen is left out
  with `NO_COLOR`, which the code does not look at there.
* A bad `PORT` or `THREADS` in the environment ends the program with 2 even when
  an option replaces it, and so does a bad `--port` before a good one; a bad
  `BIND_IP` or `--bind`, or a key that is too long, is never looked at when
  another replaces it (`main.c:158-169`): `--bind 7 --bind 10.0.0.1` starts a
  server, against `main.c:3`, "Validates all external input at the boundary".
  `Accepted` in `Startup` has the line that the code draws, and
  `BadInputTouchesNothing` is about what lies beyond it. An empty `--api-key`
  replaces a key of the environment by none (`ConfigAsAsked`).
* A fatal `poll` error ends in result 0 (`server.c:504`, `540`), which
  `server.h:67` reserves for a clean stop; and `server_stats` loads its "snapshot"
  counter by counter.

### Fairness

`FairSpec` of `ThreadPool`: weak fairness of the acceptor, of each worker and of
each stop call that has begun. The scheduler runs every runnable thread; `poll`
returns after 100 ms, `recv` and `send` after 5 s, and a request is bounded, so
no step of a thread lasts for ever. Nothing is assumed of clients, faults,
spurious wakeups, or of anybody calling `server_stop`. Mutexes are not assumed
fair: activity is bounded by the connections, so weak fairness is enough.
`Api`: weak fairness of each worker's own steps, not of failures. `Request`: weak
fairness of the worker, to which the receive timeout belongs: a `recv` with
nothing to read returns after 5 s. Nothing is assumed of the client.
`Durability`: weak fairness of main's and of each worker's next step. Nothing is
assumed of new requests, stops, crashes, losses or restarts, and a checkpoint
may fail every time.

The liveness run has stop calls on threads of their own; from signal handlers
`StopReturns` is false (`threadpool_signal`).

## 4. Proofs

Every theorem is about a specification of section 2 as the runs check it, and
holds for every value of the constants. A property `P` that a run checks is
`THEOREM PHolds` (`TypeCorrect` for `TypeOK`, two theorems for `Linearizable`).
The assumptions are the named `ASSUME`s of the modules, which TLC evaluates in
the runs; what a theorem needs beyond them is in its statement.

| Assumption | Says | Because |
|---|---|---|
| those of `ThreadPool` | finitely many workers and descriptors, a capacity of at least one | `server_config_validate` |
| `CallersAssumption` (`Process`) | `server_stop` runs in handlers on main or on workers | `main.c` has no other thread |
| `WorkersAssumption`, `KeysAssumption` (`Api`) | finitely many workers and keys | `MAX_THREADS`, `STORE_MAX_KEY_LEN` |
| `FallibleAssumption` (`Api`) | failures are of prepares and steps, COUNTs, binds and sends | the calls whose failure `store_sqlite.c` and `server.c` can meet |
| `CapsAssumption` (`Request`) | two bytes of header at least, no more header than body | 16384 and 65536 |
| `StreamsAssumption` (`Request`) | a header is not empty, its lines are fields that the parser tells apart | it ends with a blank line |
| `SizesAssumption` (`Codec`) | buffers for answers hold twice the longest text that the parser and the caller take | 8192, 128 and the buffers of `store_sqlite.c` |
| `BodiesAssumption` (`Codec`) | what arrives is written as pieces, of which the last may be cut short | every buffer of bytes can be read so |
| `ListAssumption` (`Listing`) | a row fits the buffer by itself, the default limit is a limit | 8191 bytes of text at most in 65536, 50 of 100 |
| `KeysAssumption`, `QueriesAssumption` (`Listing`) | keys are sequences of the characters that `store_validate_key` allows, queries of parameters | only valid keys are stored |
| `InputsAssumption` (`Startup`) | arguments are texts, widths are naturals | `argv`, `console_width` |
| `WidthAssumption` (`Console`) | a buffer at least, 16 cells at least | 8 and 48 |

### The pool: `ThreadPoolProofs`

For any set of callers, signal handlers included.

* `TypeCorrect`: `TypeOK`, one step per action.
* `OwnershipHolds`: not inductive alone. A push stays inside the free part of
  the ring only if the ring's shape is known: `Ring` says that `tail` is `head +
  count` modulo the capacity. `PushWindow` and `PopWindow` say which slots a push
  and a pop add to and remove from the window of queued slots; `SameOwners`
  handles the many actions that move no descriptor.
* `NoLostWakeupHolds`: by counting. A push adds a connection and wakes a sleeper
  if there is one (`OneMoreAwake`); a worker leaves the set of awake workers only
  by taking a connection, or by sleeping when there is none. That nobody sleeps
  on a closed queue comes from the broadcast under the mutex.
* `ConservationHolds`: `Balance` is the exact equation, with `Cardinality` of the
  open descriptors and of the workers between close and counter; each action
  changes both sides alike. It needs `Ownership`, since closing a descriptor
  lowers the cardinality only if it was open.
* `DrainedHolds`: `Phase` ties the acceptor's late control points to the closed
  queue and to the workers that have ended; with `Balance` and `Ownership` it
  gives that nothing is left open or uncounted when `server_run` returns.
* `ImplementsFifoHolds` (the refinement of `BoundedFifo`, which has no step that
  opens a closed queue and no push into one): `OneQueueOperation` says that any step of any
  thread is one push, one pop, one close or nothing to the ring; `FifoStep` maps
  each to the abstract operation. The mapping reads the ring from `head` on
  modulo the capacity, and `Ring` is what makes a push append and a pop drop the
  first.
* `ClassifiedHolds`: `Judgement` is the equation with the workers between
  judging and counting in it, as `Balance` is for `Conservation`.

### The process: `ProcessProofs`

`ProcessRunsPool`: a process step is a step of the pool or leaves the pool alone,
so the theorems above hold of the process. Neither property of `Process` is
inductive. `Life` adds where `main` is in relation to the pool's control, to the
store and to the memory, that a handler on a worker keeps that worker from
ending, and that no handler is active before it is installed; `Drained` adds
that a returned `server_run` has no workers left. `StoreOutlivesWorkersHolds`
and `UsedAfterDestroyOnlyByMainHolds` follow.

### Handlers and store: `ApiProofs`

* `TypeCorrect` needs `Room`: the ids given out and the creations whose
  statement is still to come are no more than the requests.
* `CreatedIdsDistinctHolds` and `MissingIsDeletedHolds` share an invariant: an
  id in hand has been given out (`Given`), creations have different ones
  (`MadeDistinct`), and an id is never given out again.
* `SilentOnlyWhereUncheckedHolds`: a request one of whose calls failed is on its
  way to a 500, or the call was a COUNT or a bind and the answer is one of those the
  property names (`Marked`, and `Unbound` for the binds).
* `Linearizable` is false in general (`api_crosstalk`, `api_silent`).
  `UnbufferedLinearizable` has it for the operations that use no static buffer
  (PUT, GET and DELETE of keys, DELETE of notes, GET /metrics), with any number of
  workers; `AloneLinearizable` for all operations with one worker. Both allow
  prepares, steps and sends to fail, and neither a COUNT nor a bind (`Heeded`). Both use `RefinesStep`: a step is a
  step of `AtomicApi` or a stutter as long as the answers that come out of buffers
  are honest (`HonestReply`). Without buffers nothing is to be shown there; for one
  worker `Promised` follows the result from the statement through buffer and
  measurement to the answer.

### Durability: `DurabilityProofs`

`Inv` adds to `TypeOK` and `AckedIsReadable`: a note that is about to be
acknowledged is in the table under its id (`Stored`); syncing is never off and
what was checkpointed is on the disk (`Synced`); from the join on all workers are
idle (`Leaving`), so that the table is still what the last checkpoint covered
(`Covered`). `CheckpointedIsFinalHolds` is an action property: a power loss keeps
at least what is synced.

### Requests: `RequestProofs`

`Inv` has four parts beside `TypeOK`. `Parsing`: each field of the request is
what the last line of its name among those parsed says. `Reads`: an account of
the bytes, how many of the header and of the body were taken and that the body
buffer holds just those of this connection. `Handling`: which handlers can run
for which key, and that only a writer's calls write (`OnlyWritersWrite`, from
`Calls`). `Refusals`: a refusal is the one that the stream as a whole calls
for (`ReadResult`), or bytes did not arrive. `SplitIndependentHolds` compares the
parser's account, which grows line by line, with `ReadResult`, which asks for
the first bad and the last matching line of all: that such lines exist is the
least element of a set of naturals (`LeastExists`, `GreatestExists`), which the
library's well-founded induction gives.

### Texts: `CodecProofs`

About `CodecSpec`, the part of `MCText`'s specification that is about bodies.

What a recursion over a text computes is shown without induction theorems: the
places where a claim fails are a set of naturals, and one that is not empty has
a least element (`LeastExists`; `Upward`, `Downward`). So the functions that
`FlattenSeq` and `ParseQuoted` choose exist (`FlattenIs`, `ScanExists`), and
have the properties below.

* `ListsWhatItServesHolds`: `CodecInv` says that the text in hand is shorter than
  the caller's buffer and than the parser's. Each character is escaped to two at
  most, so the whole to twice its length at most (`FlattenBound`), for which
  `SizesAssumption` leaves room in both buffers (`EscapesFit`).
* `ReadsBackHolds`: `Parts` says where the escape of each character stands in
  the escaped text; from the closing quote backwards, parsing from there gives
  the rest of the original text (`ReadsEscaped`).
* `ParsesAsSpecifiedHolds` compares two readings of a body: the parser's, which
  goes over characters, and that of `WellFormed`, which knows the pieces and no
  characters. They meet in a `Layout`: for each piece that is no space, where it
  begins and ends among the characters that arrived. One exists for every body
  (`LayoutExists`), and in it `skip_spaces` goes from a piece to the next
  (`SkipTo`), a mark is where a piece begins (`MarkAt`), and `parse_quoted` reads
  a string as it is meant, or nothing if it is cut, holds an escape that there is
  not, or is too long (`StringIs`, `StringAt`). `ParseInv` then says that between
  two turns `ptr` stands behind a piece, that the pieces before it are the first
  ones of an object (`Begun`), and that `found` and `out` tell whether the
  field's name is among them and its value (`Collected`). The property alone is
  not inductive, since it says nothing before there is an answer. `PairReads`
  and `PairTakes` show that a turn goes on by a name, a colon, a value and
  perhaps a comma, or refuses what no well-formed object has there (`GoesOn`);
  `Opens` and `Closes` are the ends. The empty body, the body of spaces and the
  object without pairs are cases like others.

### Lists: `ListingProofs`

`ListingSpec` is the part of `MCText`'s specification that is about lists.

* Order first. `Place` counts the elements before one in a finite ordered set;
  no two have the same count (`PlaceGrows`), so every count up to the size is
  taken (`PlaceTaken`), and `Ordered` is a list of the whole set, each element
  at its place (`OrderedById`, `OrderedByKey`). That `Before` orders the keys
  (`KeysOrder`) is shown at the first character in which two keys differ, with
  the end of a key as a character of rank 0.
* `WalkAddsUpHolds`: `WalkInv` says where notes stand. One that was shown and
  still exists stands before the offset, so no later page has it (injectivity);
  those that stayed and stand before the offset without having been shown
  (`Passed`) are no more than the deletions, since a deletion moves at most one
  note across the offset, a creation moves none because ids only grow, and a
  page shows all that it passes. On a page that is not full nothing stands
  behind the offset, which ends the argument.
* `PrefixListingHolds`: `KvInv` says that the answer that is looked at is the one
  the present keys give. `LikeIs` has what the pattern matches, which needs that
  its buffer has room for the longest prefix and the `%`; `RowsAre` that what a
  page leaves out stands behind what it has; `StatusIs` that one readable row
  fits.

### Start and screens: `StartupProofs`

* `ConfigAsAskedHolds`, `BadInputTouchesNothingHolds`: `StartupInv` says of the
  arguments behind `arg` that they are pairs of an option and a value that it
  takes, and that each field of `conf` is what the last pair for it gives, else
  the environment or the default (`ArgsRead`); that nothing is made before all
  arguments are read (`Untouched`); and that server and banner are of this
  configuration (`Served`, `Told`). `Meant` and `Accepted`, by which the
  properties judge, do not know how far `main` has read.
* `TextsIntactHolds`: no output of any screen makes more than four texts
  (`GoodArgs`, for every width of terminal: the screens are built from the
  lines of the box). The buffers that the current output has filled are the last
  ones before `index` (`Drawing`), so with four buffers the next call takes
  another. The code has eight.
* `BoxIsWholeHolds`: each line of each screen is in `Good`, which has the
  widths and sizes; 48 cells, the code's `CONSOLE_MIN_WIDTH`, is the
  least at which the brand line is not cut.

### Only model-checked

* Liveness: `StopReturns`, `EveryConnectionServed`, `EveryRequestAnswered`,
  `EveryReadEnds`, `ReportComesTrue`. Fairness is beyond this prover.
* The three properties that a run violates.

## 5. Not modelled, and why

* The characters of a request line or of a header field, and the text forms of
  numbers and addresses: their verdicts are inputs of `Request` and `Startup`.
* What the kernel does with an answer when the connection is closed with unread
  bytes (`server.c:266`): it may be lost with the reset. `NothingLeftUnread` says
  when there are none; a refused request is answered with its body unread.
* Timestamps: the store writes them and nothing depends on them.
* `console_visible_width`, the padding characters and `console_clear`: layout
  without an effect on the buffers. Logging: lines on stderr.
* The web page: presentation in the browser; the server sends it as one constant
  and keeps no state for it. Build and embedding scripts: no behaviour of the
  running server.
* A failing `malloc` or `setsockopt`: an early return each, without state.
* `server_stats`: it only reads. Counters are exact at every moment
  (`Conservation`); a reader that takes several steps is not.
* Reuse of the listener's descriptor number after `server_run` closed it while
  `server_stop` still has it in hand (`server.c:383`): the model has `shutdown`
  do nothing then. Only sqlite opens descriptors at that time, and `shutdown` of
  what is no socket changes nothing.

## 6. Plan

Modelled in this order: the pool, since everything runs on it; the process
around it; handlers and store; reading and routing; durability; texts and lists;
start and screens. Every safety property that a passing run checks, invariant or
action property, is proved for every size (`Linearizable` where it is true).
What is left is liveness, which stays with TLC.
