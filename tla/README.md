# A TLA+ model of lo

lo is a small JavaScript runtime: V8, a core of C++ (`lo.cc`), a bootstrap
script (`main.js`) and a library of JavaScript modules over system calls
(`lib/`), with a few programs built on them (`runtime/`). Almost all of it is
synchronous and single-threaded. What is hard is in the places where something
outside the thread decides what happens next: the epoll loop, whose batches of
events are collected before the callbacks that change what the events mean; the
programs that live in its callbacks; and the asynchronous module loader, which
shares its caches with a synchronous one.

## Inventory

Each part with its state, its operations, what it interacts with, what is hard
about it and what makes it correct. `PROJECT.json` lists them again with their
status, and under `hazards` the places where they can go wrong.

**UnixLoop** (`lib/loop.js:209-295`). State: `callbacks` and `errors`, keyed by
descriptor number, `#size`, `immediates`, and the epoll descriptor. Operations:
`add`, `modify`, `remove`, `setImmediate`, `poll`. Callers run
`while (loop.poll() > 0) {}`. It calls the program's callbacks and is called by
them, in the middle of `poll()`. Hard: the batch outlives the registrations it
was built from; the kernel reuses numbers; an error handler is followed by a
`remove` of the number, whoever has it by then. Correct when the tables, the
count and the kernel's interest list agree, events reach the handle they were
reported for, the loop ends only when there is nothing left, and immediates run
once, in order, and not at the expense of I/O.

**MacLoop** (`lib/loop.js:73-190`). The same on kqueue, with another `modify`.

**Timers** (`lib/timer.js`; `setTimeout` and its relatives at `main.js:709-719`).
State: a timerfd, its registration, and a descriptor property that `close` leaves
set. Hard: a second `close`, a timer closed by another's callback, 0 ms. Correct
when a timer fires as often as it should and never after its close, and when
closing one never touches another.

**Main loop** (`main.js:694-728`). `handleCommand` starts the program, then two
nested uses of the while loop. Hard: which microtasks can run between polls.
Correct when a program that awaits something goes on once it is there.

**TLS relay** (`runtime/proxy.js`). State: `connections`, which maps both
descriptors of a pair to one object with the SSL object, two backlogs and a
flag; two interest masks per pair. Operations: accept and connect, the callbacks
of the two descriptors, the error handler, `close_conn`. Hard: one callback per
descriptor that must infer why it was called, short writes, retries of
`SSL_write`, end of file with a backlog, closes from either side within a batch.
Correct when streams are intact and complete, no backlog is stuck, and the
registrations of a pair come and go together.

**ES module loader** (`main.js:195-296`, `lo.cc:388-426`, `lo.cc:785-848`).
State: `moduleCache`, `moduleLoads`, the `evaluated` flag, V8's module records.
Operations: `import()`, the coroutine of a load, the synchronous resolution of
requests during instantiation, evaluation. Hard: awaits between a look into the
cache and its use, imports during an evaluation, failures half-way through a
graph, top-level await. Correct when each module has one instance and runs once,
importers agree and see finished modules, every import settles and a failed
fetch can be retried.

**require, lo.load, lo.library** (`main.js`). Caches over synchronous loading.

**PostgreSQL client** (`lib/pg.js`). A FIFO of pending commands in a ring, a
send buffer with short writes, a parser that calls back per message. It calls
methods that nothing under `src/` defines (see Not modelled).

**HTTP client** (`lib/fetch2.js`). A pool of kept connections, one response in
progress on each. Correct when an answer reaches the request that asked for it
and a request ends.

**DNS and UDP** (`lib/dns.js`, `lib/udp.js`). A cache and a socket per lookup; no
timeout and no retry. Correct when a lookup is answered once, whatever the network
loses or duplicates.

**Promise sockets and WebSocket client** (`lib/socket.js`, `lib/websocket.js`).
A mode, a state and a promise per direction, on `add` and `modify`.

**Workers** (`lib/worker.js`, `lib/thread.js`, `lo.cc:1690-1765`). An isolate in
a thread: `create`, `start`, `waitfor`, `poll`, `free`, `stop`. Correct when a
context is freed once, after its thread ended, and a thread is joined once.

**Asynchronous FFI callbacks** (`lo.cc:1767-1818`). A ring filled from other
threads without synchronization.

**Processes, files** (`lib/proc.js`, `lib/fs.js`). Sequences of system calls.

**Generators, codecs, bindings of other libraries, repl, statistics**. Text and
bytes in, text and bytes out; no state that outlives a call, or not this
repository's.

## Modules

| module | models | builds on |
|---|---|---|
| `HandleLoop` | what the loop promises, in terms of handles: the abstract specification | |
| `EventLoop` | `UnixLoop`, the while loop, the kernel's descriptor table and interest list, an arbitrary program in the callbacks | `H == INSTANCE HandleLoop` |
| `EventLoopProofs` | theorems about `EventLoop` | `EventLoop`, TLAPS |
| `HandleLoopProofs` | `EventLoop` implements `HandleLoop` | `EventLoopProofs` |
| `Pipes` | what the relay promises the two ends of a connection: the abstract specification | |
| `TlsProxy` | `runtime/proxy.js`, its peers and TCP | `Loop == INSTANCE EventLoop`, `P == INSTANCE Pipes` |
| `TlsStreamsProofs` | what one callback of `TlsProxy` does to a connection's streams | `TlsProxy`, TLAPS |
| `TlsProxyProofs` | theorems about `TlsProxy`, which implements `Pipes` | `TlsStreamsProofs` |
| `Timers` | `lib/timer.js`, `setTimeout` and its relatives, `global_main` | `Loop == INSTANCE EventLoop` |
| `TimersProofs` | theorems about `Timers` | `Timers`, TLAPS |
| `ModuleLoader` | the module loader with V8's evaluation | |
| `ModuleLoaderProofs` | theorems about `ModuleLoader` | `ModuleLoader`, TLAPS |
| `Workers` | `lib/worker.js` and the thread of an isolate | |
| `WorkersProofs` | theorems about `Workers` | `Workers`, TLAPS |
| `Dns` | a lookup of `lib/dns.js` over `lib/udp.js` and a network | |
| `Fetch` | `lib/fetch2.js`, its servers | `Dns == INSTANCE Dns`, a lookup for each fetch |
| `FetchProofs` | theorems about `Fetch`, and the lookups in it | `Fetch`, TLAPS |
| `MCEventLoop`, `MCTlsProxy`, `MCTimers`, `MCModuleLoader`, `MCWorkers`, `MCFetch` | the instances TLC checks | |

Definitions that begin with "Slip:", or stand in a section of slips, are the
definition they stand before with one mistake. No specification uses them; they
are how each property is known to depend on the code (`mutants` in
`PROJECT.json`).

### EventLoop

A *handle* is what a program holds, an object that has opened a descriptor; the
loop sees numbers only. `files` (number to handle), `interest` (number to mask)
and `ready` are the kernel's; `callbacks`, `errors`, `size` and `immediates` are
the fields of the loop object; `immLeft`, `batch`, `completions` and `event` are
`poll()`'s locals. A closure is represented by the handle it belongs to. `pc`
says whether the thread is in the main program, waiting, dispatching, in an
immediate, in a callback or in an error handler.

A callback is a sequence of the program's actions (`Open`, `Add`, `Modify`,
`Close`, `SetImmediate`, `Consume`) that ends with `Return` or `Throw`. JavaScript
runs to completion, so only the kernel (`BecomeReady`) interleaves with it.
`PollWait` chooses the batch: any order of what is deliverable, as many as fit.
`DispatchEvent` looks the number up as it is then; an undefined entry is a
TypeError and the end of the process (`crashed`).

What a program may do is fixed at the start by a set of *liberties*: callbacks
that close other handles (`clearTimeout`, the relay), closes that are repeated
(`clearTimeout` after the timeout), and error handlers that open something new.
Properties that need a well-behaved program say which liberty it must not take;
the others hold for all eight kinds.

### HandleLoop

The same loop as a program would like to think of it: handles are open, watched,
and due in this round of `poll()`; there are no numbers, tables, counts or
kernel. `ImplementsHandleLoop` in `EventLoop` is its specification under the
refinement mapping `OpenHandles` (the handles whose number is theirs in the
descriptor table), `Watched` (the values of `callbacks`) and `Due` (the batch,
each event with the handle it was reported for). Its actions say what each
liberty costs. Without `closes_others`, `Deliver` reaches the handle an event was
collected for, which is still watched, and there is no `Crash`; with it, another
handle may be called, or none. Without `closes_twice` a `Close` ends the handle it
names; with it, `CloseAgain` may end any. Without `opens_on_error` (and
`closes_others`) an error ends the watch of the handle it happened to; with it,
possibly of another. Nothing else is lost: that `poll()` counts registrations by a
counter, batches by number and looks numbers up late is invisible.

### TlsProxy

The loop's state and its actions `PollWait`, `DispatchEvent`, `PollReturn` and
`PollInterrupted` are `EventLoop`'s, instantiated with readiness computed from
the sockets (`Ready`). A callback of the relay never returns to the loop half-way,
so it is one action: `OnPairEvent`, `OnError`, `OnClientConnect`, `AcceptFails`
or `ConnectThrows`. The functions it is made of are operators from a connection,
its sockets and the present masks to a set of outcomes, with the names of the
code in capitals: `ReadFromClient`, `WriteToBackend`, `FlushToBackend`,
`ReadFromBackend`, `TryWriteToClient`, `CloseConn`.

Data are numbered units. A client sends TLS records of `RecordUnits` units, one
`SSL_read` returns one record, and SSL fills its own buffer with everything the
socket has (`SSL_CTX_set_read_ahead`). `SSL_write` takes a chunk as a whole but
may push part of it before asking for a retry (`pushed`). A peer reads, sends,
closes or resets whenever it likes. A send to a connection that was reset fails
with ECONNRESET or raises SIGPIPE (`Killed`). What a close with unread data does
to the peer is in `AfterClose`.

### Pipes

The relay as its two ends would like to think of it: two pipes per client, one
towards each end, and no relay between them. A pipe has units `sent`, units
`inFlight`, units `got`, and may be `cut`. `Write` puts a run of units in, all or, if
the pipe is cut, none; `Deliver` takes the first one out; `Reset` empties a pipe and
cuts it; `Close` cuts both pipes of a client and may drop the ends of what is in them.
`ImplementsPipes` in `TlsProxy` is its specification under the mapping `Sent`,
`InFlight`, `Got` and `Cut`: in flight is everything between the two ends, the
peer's socket, the backlog, SSL's buffer and the socket the other side wrote to, in
this order. So only the peers' steps, resets and closes are visible, and whatever the
relay does with records, chunks, short writes, masks and descriptors is a stutter.
Readiness to write is not part of the promise: that a unit in flight arrives is
`BackendReachesClient`, and is false of the other direction (`proxy_read_ahead`).

### Timers

A `UnixTimer` is a handle of the loop whose descriptor is a timerfd. Readiness is
the timerfd's counter (`unread`), time is `left`, how far the next expiration is,
and `Tick` brings all of them nearer whatever the thread does. `NewTimer` is the
constructor with `timer()`, which passes its two times in the other order than it
takes them, so that the first expiration is after `repeat`; an `it_value` of 0
never expires. `EnterCallback` is the registered closure: it reads the counter,
and for `setTimeout` closes the timer before it calls the function. `Clear` is
`clearTimeout`, `clearInterval` and `close`, which acts on the number the object
remembers. The liberties are `EventLoop`'s `closes_others` and `closes_twice`, and
`tolerates`: the program has replaced `onUnhandledRejection`, which ends the process.

`stage` is how far `global_main` is: the program up to its first await and then
the loop of `handleCommand` (`outer`), the microtasks after it (`micro`), the loop of its `then`
(`inner`), and the microtasks after that, behind which no loop comes (`late`). The
program's asynchronous functions are two `Tasks`, one that `handleCommand` awaits
and one that nobody does; each awaits what a timer's callback resolves. While a
loop runs no microtask does, because the loop itself runs in one.

A task that ends returns (`Finish`) or is rejected (`Reject`). When it matters is
V8's rule: it reports a rejection at the moment it happens if the promise has no
handler by then (`PromiseRejectCallback`). So a `main` that fails before it has
awaited anything ends the process at once, with timers left and no loop run,
whereas one that fails later, or a script's that is not async and throws into
`handleCommand`, does so in the microtask of the `catch` of `global_main`. `UnhandledRejection` is the same for promises of anything else.
`ModuleLoader` models the mechanism for the promises of modules.

### Workers

A `Worker` owns the memory of an isolate's context (`context`, `rc`), the flag
`initialized` and the number pthread gave its thread (`tid`). `Create`, `Start`,
`WaitFor` with `JoinReturns`, `Poll`, `Free` and `Stop` are its methods; `Begin`,
`End` and `Cancelled` are the thread's uses of the context. Nothing in the code
counts or locks, so which orders of calls are safe is the question; as in
`EventLoop` a program takes liberties (`frees_early`, `restarts`, `joins_twice`,
`stops`, `reuses_freed`), and the properties say which of them they forbid. The
last is `create()` or `free()` of what was freed, which no guard prevents: the
first writes to the freed memory and lets `start()` run a thread on it, the second
frees it again (`wild`). A `create()` of what was created and a `free()` of what was
not are in every program, and harmless. A number that was
joined may be handed to the next thread. Joining a number no thread has is
undefined in POSIX; the model takes glibc's error.

### Dns and Fetch

`Dns` is a lookup: the hosts file, or one datagram and a callback for each
datagram that comes back while the socket is open. The network loses and
duplicates. `Fetch` puts the client of `fetch2.js` on top: `OnRecord` is the
callback of the lookup, which takes a kept connection (`Reuse`) or opens one
(`Connect`); `OnConnected`, `OnHandshake`, `OnReadable` and `OnError` are the
callbacks of the connection. A response is a sequence of tokens that a read cuts
anywhere, and what is too short to be told from a status line is held until more
comes (`LineEnds`); `OnHeaders` and `OnBody` follow `handle_response`, with
`decode_chunked` as `OnChunks` and a body with a length as `OnLength`.

What the code does, and the model with it: a plain socket is stored in the pool
under the key `http:undefined:port`, so only TLS connections are kept for use; a
kept connection keeps the callback of its first fetch, so that a second fetch on
it never settles; the chunk decoder is not reset between responses; a handshake
that SSL_read ends leaves the state at INSECURE; a first handshake that fails at
once closes the socket and then fails the assertion on `loop.modify`
(`OnConnectedFails`); a connection that fails settles no promise. `calm` behaviours are those where nothing of that kind happens, and
completion is stated for them.

The callbacks close only their own descriptor, so by `EventsReachTheirHandle`,
which is proved, the loop delivers each event to its connection, and `Fetch` does
not model the loop again: a callback is an action.

### ModuleLoader

`status` is a module record as V8 sees it, `evaluated` the loader's flag, `load`
where the coroutine of each entry of `moduleLoads` is suspended, `imports` the
program's `import()` calls. `Import` is `on_module_load`; `FetchSucceeds`,
`FetchFails`, `ResumeCached` and `Resume` are the stretches of
`load_and_evaluate` between awaits; `ForgetLoad` is its `catch`. From
`evaluateModule`'s call to its return `evaluating` is set and nothing else runs
but `Instantiate` (one synchronous load of `on_module_instantiate`),
`EvaluateNext` (one body, in an order depth-first evaluation allows) and
`EvaluateFails` or `EvaluateReturns`. `AwaitEnds`, `RunsAfterImports` and
`FailsWithImport` are V8's asynchronous evaluation.

`Hooked` specifiers are served by `core.loader`, which may also reject; `Local`
ones exist as builtins or files. Whether unhandled rejections end the process
(`on_unhandled_rejection`, the default) is chosen at the start (`tolerant`). Two
things reject with no handler: a load of a missing file where there is no hook to be
awaited first (`Fatal`), and an evaluation that fails for which V8 makes a promise,
rather than returning the one it made before (`promised`).

## Runs

| run | instance | what it shows |
|---|---|---|
| `loop` | 2 numbers, 3 handles, 2 masks, hang-ups, 1 immediate, batches of 2 | types, the count, the tables, exit, dispatch and registrations; the refinement of `HandleLoop` |
| `loop_immediates` | 1 number, 2 handles, 3 immediates | order, deferral and completion of immediates |
| `loop_interrupted` | as `loop` | finding: a signal ends the while loop with handles registered |
| `proxy` | 1 client, 3 numbers, chunks of 2 over a capacity of 1, 2 records, 3 units back, closes and resets | streams, interest, end of file, progress towards the client; the refinement of `Pipes` |
| `proxy_pairs` | 2 clients, 5 numbers, closes | consistency of pairs when numbers are reused |
| `proxy_teardown` | as `proxy_pairs` | finding: a pair closed with its other event in the batch |
| `proxy_read_ahead` | 1 client, 2 records, no failures | finding: a record left in SSL's buffer |
| `modules` | 3 modules, 2 imports | instances, reentrancy, agreement, settling |
| `modules_retry` | as `modules` | finding: no retry of a request's fetch |
| `timers` | 2 numbers, 2 timers of 4 kinds, eval and script, 2 tasks | timers live as long as they should, callbacks answer expirations, what an exit abandons, what goes on once timers run out |
| `workers` | 2 workers, 2 thread numbers, 3 runs | contexts outlive threads, joins tell the truth, no thread is lost, waitfor returns |
| `fetch` | 2 fetches, 2 copies of an answer, 2 units of body, http and https | lookups speak once, answers reach their fetch, the pool, completion when nothing fails |

The bounds are the smallest at which the hazards happen. Two numbers and three
handles are needed for a number to pass to another handle while a batch that
names it, and another event, are pending; masks `{}` and `{"in"}` and conditions
`in` and `hup` give registered-but-quiet, readable and failed descriptors. Three
immediates allow one that queues another while a third waits. A capacity of 1
under records of 2 units makes every transfer to the backend a short write, and 3
units from the backend fill its socket, a chunk and the rest. Two clients and five
numbers let a second pair take the numbers of a first whose events are in the
batch. The three modules of `modules` are a diamond (`a` imports `b` and `d`, `b`
imports `d`) whose bottom imports itself and the top dynamically, so that
concurrent loads of one request, imports during an evaluation and the synchronous
path all occur. `modules` was also checked with three imports (418,535 states).
Two timers on two numbers let one be closed while the other's event waits in the
batch and its number pass on, and the four kinds are `setTimeout` with a delay and
with 0, an interval, and a timer whose two times differ. Two workers with two
numbers and three runs let the number of a joined thread pass to the other worker
while the first still remembers it. Two fetches let the second find the first's
connection in the pool, two copies of an answer are a duplicate, and with two units
a body can be cut inside and at both its ends.
Symmetry is used in `loop` and `proxy_pairs`; neither checks liveness. `loop`
checks a refinement, whose specification is a safety property, and no definition
singles out a handle or a client.

Deadlock is checked in every run. A stopped process stutters (`Terminated`), a
loader with nothing to do likewise (`Quiet`).

### Fairness

- `EventLoop`: weak fairness of `poll()`'s steps, a thread that runs, and of
  `Return`, callbacks that end. Nothing is assumed of the kernel, of signals or of
  what else the program does. `PollInterrupted` is outside the fair part.
- `TlsProxy`: weak fairness of the relay; of reads by peers that are up, without
  which no relay makes progress; of the client's half of the handshake; and of the
  reset by which TCP answers data for a closed socket. Peers need not send, close
  or reset.
- `Timers`: weak fairness of time; of the loop, of closures and of the steps of
  `global_main`, a thread that runs; and of functions and callbacks that return.
  The program need not create, clear or await anything.
- `Workers`: weak fairness of the threads, whose scripts end, and of the return of
  `pthread_join`. The program need not call anything.
- `Fetch`: weak fairness of the client's callbacks, and of the servers only in
  `calm` behaviours.
- `ModuleLoader`: weak fairness of each load's steps and of V8's. A fetch ends, in
  success or failure, and what a module awaits comes.

## Findings

1. `loop_interrupted`: `poll()` returns -1 when `epoll_wait` is interrupted
   (`lib/loop.js:263`), and `while (loop.poll() > 0) {}` ends with handles
   registered. `test/timer.js:13-15` asserts `loop.size === 0` after that loop.
2. `proxy_teardown`: `close_conn` removes the other descriptor of a pair while its
   event is in the batch, and `callbacks[fd](fd)` (`lib/loop.js:286`) calls
   undefined, which ends the process. The comment at `runtime/proxy.js:58` says the
   pair is torn down together whichever side triggers it.
3. `proxy_read_ahead`: with read-ahead on (`runtime/proxy.js:362`) and one
   `SSL_read` per event (`:101`), the second of two records that arrive together
   waits for an event that may never come. The file promises to relay the bytes
   unchanged (`:4-5`).
4. `modules_retry`: a module is cached before its requests are fetched
   (`main.js:261`), so that after one of those fetches failed a later import
   evaluates the module instead of fetching again, and the synchronous path aborts
   the process (`lo.cc:406`). The comment at `main.js:235-236` promises a retry.

Also found on the way, and now part of a property rather than a finding: the branch
that puts a close off until a backlog is flushed (`runtime/proxy.js:173-176`) is never
taken (the last conjunct of `InterestFollowsBacklog`), because the backend is not read
while there is a backlog.

## Proofs

`EventLoopProofs` proves, for every finite set of descriptor numbers, every set of
handles, masks and conditions, and every capacity of the event buffer, that
`EventLoop`'s specification implies `TypeOK`, `SizeCountsRegistrations`,
`TablesAgree`, `ExitsOnlyWhenIdle`, `EventsReachTheirHandle`, `RegistrationsKept`,
`ImmediatesInOrder` and the action property `ImmediatesDeferred`. The only
assumption is `LoopAssumption`, which TLC evaluates in the runs.

None of these is inductive alone. The count is one less after `remove` only if the
number was registered and one more after `add` only if it was not, which `add`
learns from the kernel: so the count needs the interest list to agree with the
callback table. That needs closes to remove what they close, so it needs the
descriptor table to agree with both. The dispatch property needs to know, of every
event still in the batch, that its number is still the reported handle's and
registered: a callback that closes only its own handle disturbs only the number
whose event has just been taken out, because a batch names each number once. The
registration property needs the same of the event whose error handler runs, so
that the loop's `remove` afterwards hits the handle the error was reported for.
The inductive invariant `IInv` is the conjunction of these facts: the tables
(`TypeOK`, `TablesAgree`, `SizeCountsRegistrations`), what each value of `pc` says
about `poll()`'s locals (`ControlInv`), the queue (`QueueInv`), the descriptor table
against the handles (`NumbersInv`), the batch (`BatchInv`) and the running error
handler (`ErrorInv`). It is proved initial and preserved by every action, one lemma
per action, on top of lemmas on `LoopAdd`, `LoopModify` and `LoopRemove`, which keep
the tables whatever the rest does, and on `Batches`, which name each number once.
`ImmediatesDeferred` follows from `QueueInv`: the queue is a run of consecutive
tickets, of which `poll()` owes those up to `cutoff`.

`HandleLoopProofs` proves that `EventLoop` implements `HandleLoop`
(`LoopImplementsHandleLoop`), for all the same constants and every program. The
initial states map to the initial one; each action maps to the action of the same
name or leaves the mapped state alone. The step from numbers to handles rests on
`IInv`: at any time an open handle has one number and a number one handle
(`NumbersInv`), and the callback at a number is its owner's (`TablesAgree`). So
clearing an entry of the table forgets exactly one handle. That the batch maps to
a round, each handle at most once, is the same fact about `Batches`; that a
delivered event is its handle's is `BatchInv`, and that the `remove` after an error
hits its handle is `ErrorInv`.

`WorkersProofs` proves `TypeOK`, `NoUseAfterFree`, `TellsTheTruth` and
`ThreadsAccounted` for any workers, numbers and runs. The strengthening relates
the thread under a number, the number its worker remembers and what the program
was told: without restarts a thread that uses its context is the one its worker
remembers, and is not believed over, so that a program that also frees only what is
over and leaves alone what it freed (`Careful`) has no thread on a context that is not
created (`AliveInv`); without second joins either,
threads and workers correspond one to one (`MatchInv`); and only a stopped thread
ends without its result (`ResultInv`). A second join takes another
worker's thread only when that has ended, which is why `AliveInv` speaks only of
threads that still use their context and so holds for programs that join twice.

`ModuleLoaderProofs` proves all five invariants of the run `modules`, for any
modules and static requests, any hook, and any number of imports: `TypeOK`,
`OneInstance`, `NoReentrantEvaluation`, `ImportsSeeFinishedModules` and
`ImportersAgree`. A record moves one way: it is compiled by an action that has just
seen there is none, its body is started from a status it never comes back to
(`CountInv`), and once it is done or errored it stays so. `GraphInv` says that a
body that started has its requests behind it, and `OutcomeInv` that what a load or
an import settled with is what became of the module. Agreement follows, because no
record is both done and errored. Whole graphs follow because `Reach` is the least
set closed under requests, and the finished modules are such a set.

`TimersProofs` proves all four invariants of the run `timers`, `TypeOK`,
`LiveTimersHeld`, `ExitLosesOnlyLateTimers` and `CallbacksEarned`, for any numbers,
timers and kinds of timer. Here the loop's tables are the descriptor table, because
a constructor opens and adds, and a `close` removes and closes, in one operation
(`TablesOK`); so the theorems need nothing of `EventLoopProofs`. `NumbersInv` relates
the number a timer remembers to the descriptor table, `BatchInv` says of each number
in the batch that, without `closes_others`, it still belongs to the timer it was
collected for, which has expired since its callback was called last, and that the
number of the running callback is not in the batch. `StageInv` says that a loop that ended
left no timer, so that what is open afterwards was created in the stage after it;
`ControlInv` ties `pc` to the stages.

`FetchProofs` proves all four invariants of the run `fetch`, `TypeOK`,
`LookupsSpeakOnce`, `AnswersReachTheirFetch` and `PooledIsIdle`, for any number of
fetches, copies of datagrams and units of a body. It is an account of every byte
(`StreamInv`). A request that was sent is on its way (`AskedInv`), or its headers are
not all read (`HeadersInv`), or its body is (`BodyInv`); what the client holds
followed by what is on the wire is in the second case the rest of an earlier
response and the whole response, in the third the body. What is in front of a
response holds nothing that could be taken for headers, so headers that are found
are those of the current request, wherever reads cut the stream. `OnLength` then
completes exactly at the end of the body (`LengthKeeps`), and `OnChunks` with the
first read that sees the "0 CRLF" (`ChunksKeep`), when only the end of a line may
follow. That is what the pool relies on (`Poolable`) and gives back: the response
that follows a `Reuse` starts from an idle stream. A second chunked response on a
connection keeps only the absence of headers, on the wire and in what is held, which is
enough for the next request.

`TlsProxyProofs` proves every safety property of the runs `proxy` and `proxy_pairs`,
the invariants `TypeOK`, `PairsRegisteredTogether`, `InterestFollowsBacklog`,
`ClientStreamIntact` and `BackendStreamIntact`, the action property
`EndOfBackendDelivered` and the refinement `ImplementsPipes`, for any clients and
descriptor numbers and any sizes of records, chunks, buffers and writes. It has two
layers, and the refinement on top of them.

`TlsStreamsProofs` is about one connection object and its sockets. `Fits` is what
holds of them between two callbacks: what has left for a peer is the beginning of
what the other side sent (`WireOK`), the rest is staged or unread (`ToClientOK`,
`ToBackendOK`), the backlog is in one direction, nothing is read ahead before the
handshake (`Greeting`). Each function of the relay that a callback is made of gives
outcomes that fit again, with the masks their backlog asks for (`OutcomeOK`): but
only if it is called when its own direction has no backlog waiting on the *other*
descriptor, and that no single callback can know. `TryWriteToClient` and the flushes
also close, and then the sockets are as before the callback, which is why a clean
end truncates nothing.

`TlsProxyProofs` supplies what was missing. `Pair` ties an open connection to its two
numbers in all tables, `Owner` each number back to its pair, and `Unblocked` says of
every event still in the batch, unless it is a hang-up, that the direction its
descriptor would read has no backlog. That holds when the batch is collected, because a blocked side
has the empty mask (`MasksOf`), and no other callback of the batch spoils it: an event
for the client's side can stage data for the backend, which blocks the client's
side only, whose event has just been taken out; a batch names each number once.
Closes only take pairs away, and a number that is used again comes with a new pair,
which has no backlog. So events of a closed pair that reach the next owner of its
number do no harm to its streams, whereas one that reaches no owner ends the process
(`proxy_teardown`).

`RelayImplementsPipes` follows with little more about the steps themselves. By
`ToClientOK` and `ToBackendOK` what a peer got, followed by what is in flight to it,
is the run of everything sent, as long as the pipe is not cut (`Pipeline` in
`TlsStreamsProofs`). So what is in flight is determined by what was sent and what was
delivered, and a step of the relay that touches neither (`Untouched`) leaves it as it
is: of the functions of the relay it only has to be known that they leave the peers'
own counts alone, add nothing to the socket of a peer that is gone, and nothing to
either socket in a callback that ends in a close (`Quiet`, `CallbacksQuiet`). A close loses
what is not yet in a peer's socket, which is the end of what was in flight
(`CloseCuts`).

Every theorem's assumptions are the named ones of its module, which TLC evaluates
in the runs.

Only model-checked: the liveness properties. Liveness under fairness and `ENABLED`
are beyond the prover here, as is induction over data, so what recursive definitions
compute is left to TLC.

## Not modelled

- UnixLoop: edge-triggered mode, a `poll` with a timeout, `close()`; `add` with its
  default callback, which no caller uses; system call failures other than the ones
  named in the actions. `modify` is of a descriptor that was added and is open, as
  with every caller: on another it would change the tables and then fail.
- TLS below records: alerts, the server's half of the handshake, a `close_notify`
  that does not fit the socket. The relay's stats timer and counters.
- Modules: cyclic static imports, compile errors (they act like failed fetches),
  the order of unrelated bodies, imports made by `import()` that a body awaits.
- Timers: signals (in `loop_interrupted`), a `timerfd_create` that fails (it throws
  like any other error of the program), `MacTimer`, the order of microtasks.
  Commands of `lo` that build and generate run as a script does.
- Workers: `kill`, which changes nothing here; what runs in the isolate. `exit_code`
  is not modelled: `worker.js:73` reads the first four bytes of the context, which
  are part of a pointer, not the field `rc`.
- DNS: `lookup_async`, the cache of a shared `Resolver`, which no caller uses.
  Fetch: failed assertions other than the one after a failed handshake, several hosts, `lib/fetch.js` (libcurl).
- `lib/pg.js` cannot run in this repository: it calls `writeString`, `copyFrom` and
  `readString` of `ArrayBuffer.prototype`, a global `html`, and `pause`, `resume`
  and `onWritable` of a socket, none of which `src/` defines. A model of it would
  have to invent them.
- `require()`: synchronous. After it, an `import()` of the same name finds a record
  without an identity in `moduleCache` and casts undefined to an integer in
  `lo.cc`, which is undefined behaviour.
- The other parts with status `not_modelled` in `PROJECT.json`, with the reasons
  there: sequences of system calls, text generators, bindings, and code of others.

## Plan

Done, in this order: `EventLoop` and its theorems; `TlsProxy`; `ModuleLoader` and
its theorems; `HandleLoop` and the refinement; `Timers` with the main
loop and its theorems; `Workers` and its theorems; `Dns` and `Fetch` and their
theorems; the theorems about `TlsProxy`; `Pipes` and its refinement. Dropped: `PgClient`, for the reason
above. Left, in this order:

1. A `MacLoop` variant of `EventLoop`.
2. Promise sockets on `EventLoop`, with one promise per direction.
3. The ring of asynchronous callbacks that other threads fill.
4. Cyclic static imports.
