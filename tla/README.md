# Formal models of the fiber runtime

These TLA+ modules model the runtime in `src/`: a C++ program that runs
JavaScript on V8 in stackful fibers over one libuv event loop. TLC checks the
modules on small instances. For every module, TLAPS proves the safety properties
that the runs check, for any number of fibers, sockets, files and calls, and that
the scheduler implements what `Technical Specification.md` promises of fibers.

## 1. The system

### Parts, state and operations

| Part | Source | State | Operations |
|---|---|---|---|
| Fiber scheduler | `fiber.h`, `fiber.cpp` | `current_fiber_`, `main_fiber_`; per fiber `state_`, saved context, `resume_value` | `Fiber.run`, `Fiber.sleep`, `yield`, `resume`, end of a fiber |
| Resumption queue | `main.cpp`, `AsyncContext` in `primitives.h` | `resumable_fibers`, `resume_handle`, the local queue of a drain | `QueueFiberToResume`, `OnFibersToResume` |
| Event loop | libuv as used in `main.cpp` | timers, ready sockets, finished requests, closing handles | the phases of `uv_run` |
| HandleStore | `handles.h`, `handles.cpp` | map from id to handle, `next_id` | `Add`, `Get`, `Remove`, `handles.free`, `Dispose` |
| Files | `primitives_fs.cpp`, `FileHandle` in `stdlib.js` | descriptors, requests in the thread pool | open, read, write, status, sync, close |
| Directories | `primitives_fs.cpp` | entries and their names, `index` | dirOpen, dirRead, dirClose |
| TCP listener | `primitives_tcp.cpp`, `TCPServer` | `accept_queue` | listen, accept, close, `OnUvConnection` |
| TCP sockets | `primitives_tcp.cpp`, `TCPSocket` | `pending_read`, libuv's write queue | connect, read, write, close, poll |
| UDP sockets | `primitives_udp.cpp`, `UDPSocket` | `pending_read`, libuv's send queue | create, listen, read, write, close |
| DNS | `primitives_dns.cpp`, `dns` | one request per call | resolve |
| TLS | `primitives_tls.cpp`, `TLSServer`, `TLSSocket` | `SSL`, `SSL_CTX`, resolver function | accept, connect, read, write, close, SNI callback |
| Module loader | `module_loader.inc` | module cache | resolve, load, evaluate |
| Encoding, console, V8 set-up | `primitives_encoding.cpp`, `main.cpp` | none | conversions, output, initialisation |

### How they interact

There is one thread of JavaScript. A primitive creates an `AsyncContext` for the
current fiber, hands it to libuv and calls `Fiber::yield()`, which switches to
the main stack. libuv's callback for the operation runs on the main stack, in
some phase of `uv_run`; it never resumes a fiber but calls `QueueFiberToResume`,
which pushes the context and signals `resume_handle`. When the loop serves that
signal, `OnFibersToResume` swaps the queue with an empty one and, for each context,
makes the V8 value, stores it in the fiber's `resume_value`, resumes the fiber and
deletes the context. Ids of the HandleStore are all that JavaScript holds of native
objects; a primitive looks the handle up before it yields and keeps a
`shared_ptr` to it on the fiber's stack.

### What is hard

* Which stack executes and which fiber the code believes to run are two things;
  Windows and POSIX save contexts by different rules.
* Any callback may run between a completion and the moment its fiber runs again,
  and in one drain the fibers resumed first act before the others.
* libuv works on a handle until the closing phase after `uv_close`, while contexts
  and wrappers are deleted by the runtime's own rules.
* libuv accepts connections on its own terms, the runtime only if a fiber waits.
* libuv may refuse an operation at once; most results are ignored, and no callback comes.
* OpenSSL decides when a TLS operation waits and for what; it calls back into
  JavaScript in the middle of a handshake, and the peer may end the connection at any time.
* V8 asks for imports in an order of its own, modules import each other in cycles, and
  the importing file is found by a search of the cache.
* Thread-pool requests of different fibers execute in any order, descriptors are reused.

### What makes each part correct

* Scheduler: a primitive returns in its own fiber, after its completion, with its own
  result; `Fiber.run` returns; ended fibers are freed.
* Queue and loop: each completion is queued once, signalled, delivered, in order;
  nothing libuv still uses is deleted; the loop ends when nothing is left to do.
* Listener: an accepting fiber waits in one place; a promised connection exists;
  every connection is accepted; closing ends `accept()`.
* Sockets: `OnAlloc` always finds a buffer; libuv's requests have an allocated handle;
  chunks are returned in order; closing ends what waits on the socket.
* Files, directories and store: a request acts on the file its handle was opened for;
  an open descriptor is known; an id never leads to another object's handle; every
  name of a directory has one owner, who frees it.
* TLS: the resolver's context lives as long as a handshake may call it; a suspended operation
  is waited for in one place; an operation that can go on does; the end of the connection,
  and nothing else, ends every operation.
* Loader: a file is one module, whoever imports it and however it is named; linking ends.

`PROJECT.json` lists the hazards line by line, with the properties that cover them.

## 2. The modules

```
Coroutines   <--implements--  FiberScheduler  <--proofs--  FiberSchedulerProofs
                              EventLoop       <--proofs--  EventLoopProofs
                              TcpListener     <--proofs--  TcpListenerProofs
                              Sockets         <--proofs--  SocketsProofs
                              Tls             <--proofs--  TlsProofs
HandleStore  <--extends--     FileHandles     <--proofs--  FileHandlesProofs
                                              <--TLC--     FileHandlesMC
                              ModuleLoader    <--proofs--  ModuleLoaderProofs
                                              <--TLC--     ModuleLoaderMC
QueueLemmas: about sequences as queues, used by all proofs but the loader's
```

The modules of the primitives (`TcpListener`, `Sockets`, `Tls`, `FileHandles`) all stand on
what `FiberScheduler` and `EventLoop` establish: one fiber executes at a time, a callback
queues a context once, and the queue is served in order. They keep only `running` and
`queue` of it. `TcpListener` keeps both queues, because `uv_accept` is called between them.

Definitions that begin a sentence with "Mutant", and the other operators that no
specification uses, are erroneous variants of the definition after them. Each is
substituted for that definition to show that a property really depends on the code.

### Coroutines

The promise of section 2.2 of `Technical Specification.md`: a chain of callers, fibers
that leave it when they block, completions answered in order, each to its own caller.
It knows nothing of stacks, contexts or signals.

### FiberScheduler

The core. A `Fiber` object and the C stack its function runs on have one name but are
kept apart: `current_fiber_` is the code's belief, `stack` is what the processor
executes, `slot[f]` is the stack saved in `f`'s context. `SwitchContext` is the only
place where the platforms differ in saving: `SwitchToFiber` saves the executing stack in
the system fiber that executes, `swapcontext` saves it in the context the code names.
`yield`, `resume`, `Finish`, `Fiber_Run`, `Call`/`ReturnFromYield` (any primitive, before
and after its yield), `QueueFiberToResume`, `OnFibersToResume`/`ResumeNext`/
`ReturnFromResume`/`EndDrain` translate the functions of those names. `stack = NoFiber`
stands for undefined behaviour. `Fiber.sleep` differs from other primitives in one
point: it never looks at its result, so an empty one does no harm.

### EventLoop

The same queue, with the phases of `uv_run` in place of "a callback runs": timers
(ordered by deadline, then by start), poll (the sockets that are ready and the async
descriptor, in any order), closing. Fibers are abstracted to the operation they wait
for. `op[o]` is the life of an operation and its `AsyncContext`; `closing_handles` are
those whose embedded `uv_timer_t` or `uv_poll_t` libuv has yet to close. The clock and
`uv_now()` are separate, because `uv_timer_start` counts from the latter. A sleep's
`int64_t` becomes a `uint64_t` (`Timeout`) and libuv clamps the deadline (`Expiry`), with
`Width` bits in place of 64: a negative sleep has a deadline no clock reaches.
`DNS_ResolveThrows` is the request that libuv refuses at once.

### TcpListener

One listening socket. `backlog` is the kernel's, `held` what libuv has taken and not
yet handed over (`accepted_fd` on POSIX, hence `hold_limit` = 1; completed `AcceptEx`
requests on Windows, hence `hold_limit` > 1, the newest first). libuv takes no
further connection while it holds `hold_limit`. `OnUvConnection` and
`CreateResultValue` (which calls `uv_accept`) are the two halves of an accept; between
them other callbacks and fibers run. `hold_limit` is chosen in `Init` and never changes,
so that one run covers both platforms. The
wrapper of a closed listener that no blocked fiber holds, and the wrapper that
`CreateResultValue` closes and frees when `uv_accept` fails, are freed before the closing phase
(`Freed`); where libuv touches one of them `misused` becomes true and the model stops.

### Sockets

TCP and UDP sockets: `pending_read`, `uv_read_start`/`uv_read_stop`, libuv's queue of
writes, connect or bind, close. `OnRecv` and `OnSend` have the shape of `OnRead` and `OnWrite`,
without an end of file. `broken` are the connections libuv has found an error on: it
refuses to read or write them, the code ignores that, and the fiber waits for a
callback that never comes (`Read` without `reading`, `WriteRejected`, `ConnectRejected`).
`stored` and `Holders` say whether the `NetHandle` is allocated. `Clients` are the sockets
that `TCP_Connect` makes with a bitwise copy of the connected `uv_tcp_t`. libuv's use of a
copy, and the closing phase of a `NetHandle` that `TCP_Close` has freed, are undefined
behaviour: they set `misused` and the model stops there. `TCP_Connect` also deletes the original
`uv_tcp_t` without `uv_close` (`deleted`); that memory, and that of a freed wrapper, is still
linked in the loop's list of handles, so that the next handle libuv links or unlinks may or may
not be the end (`LinkHandle`). Closing a socket leaves
`pending_read` alone: a fiber inside `read()` stays there.

### Tls

One connection per fiber: of `TLSServer` (`TLS_Accept`) or of `TLSSocket.connect`. What
OpenSSL does is external and modelled by what the code sees of it: `Wants` is
`SSL_get_error`, `inbox` what has arrived (handshake flights, data, `close_notify`, FIN, reset),
`writable` whether the send buffer has room. `PerformSSLOperation` starts a poll and
yields; the actions guarded by `Proceeds` are what the operation does when it need not
wait. `ClientHello`, `ResolverBlocks`, `ResolverReady` and `OnCertCallback` are the SNI callback, whose
JavaScript may block in a primitive or close the server. `ctx_owners` counts the
references to the `TLSContextHandle`: the store's, and the one on the stack of `TLS_Accept`.
`errors` is the error queue that OpenSSL keeps per thread, and so for all fibers together:
`SSL_get_error` looks at it first, `SSL_accept` and `SSL_connect` clear it, the other operations
do not. An operation that only has to wait but finds an error of another connection there
(`Misled`) fails (`ErrorOfAnother`, `HandshakeFails`). What a write that failed like this would
leave in its `SSL` is not kept. What `SSL_read` makes of a FIN without `close_notify` (`ReadEnd`)
is that of OpenSSL 3.
`stopped` is the end of the process or of what is known: `ToLocalChecked` aborts when a poll reports
an error, SIGPIPE kills, and a failed handshake frees its `SSL` twice.

### HandleStore, FileHandles, FileHandlesMC

`HandleStore` is the global map. `FileHandles` adds the process's descriptors (the lowest
free one is handed out), the thread pool and the JavaScript objects. Open files and
directories are numbered, so that a descriptor that was reused can be told from its former
self. A directory has no descriptor (`fd` is 0): its names are copied in the callback, and
`names` counts those still allocated. `HANDLES_Free` is the finalizer of an object nobody
can reach, which may be so at any time at which no call in progress uses it; V8 promises no
time for it, so it is an action without fairness. `FileHandlesMC` adds the symmetry of the
fibers, which is sound because its runs check invariants only and no fiber is named.

### ModuleLoader, ModuleLoaderMC

`LoadEntry` is `load_module`; V8's `InstantiateModule` is external and modelled as the
recursion it is: ask `ResolveModuleCallback` for all imports of a module, then visit each
import that was not met before (`stack`). The callback's three outcomes are `ResolveCached`,
`ResolveNew` and `ResolveFails`. A module is a file and the number of its compilation, so that
two modules of one file can be told apart. What `std::filesystem::canonical` makes of a
directory and a name is the constant `Lookup`; what the files contain is chosen in `Init`.
`ModuleLoaderMC` gives both a value in which a file of one directory is reached through a link in
the other, by two specifiers of one name.

## 3. The runs

Passing runs:

| Run | Instance | Shows |
|---|---|---|
| Posix | 3 fibers, 2 calls each | all safety and liveness of the scheduler on ucontext; it implements Coroutines |
| WindowsNested | the same on Windows, nested runs | own results with Windows fibers also when fibers start fibers; completed calls return |
| EventLoop | 2 sleeps (also negative), 1 poll, 1 request, time up to 3 | queued once, delivered, sleeps wake in order |
| Listener | 2 fibers, 3 connections, holds 1 or 2, everything may happen | accepting fibers are waited for in one place, promises are kept; all connections are accepted under the conditions named below |
| Sockets | 2 fibers; an accepted, a connected and a UDP socket; 2 chunks | order, buffers, allocated handles, one place, closing ends writes |
| Tls | a server and a client connection, 2 records of each peer, 1 call before close | resolver's context, one place, no readiness lost, a peer that is gone ends operations |
| Files | 3 fibers, 3 opens, 2 descriptors, 2 names, finalizers | own file, ids stay valid, open files can be closed, names are owned, if no object is shared |
| ModuleLoader | 3 files in 2 directories, up to 2 imports each, all contents | one module per file, linking ends |

Runs that end in a violation, each of a sentence in the repository (see `findings`):

| Run | What happens |
|---|---|
| PosixNestedRun | `Fiber.run` inside a fiber overwrites the main context; the caller continues before its operation has completed, with the empty result of `main_fiber_` |
| SleepContext | a context is deleted while libuv still has to close the timer inside it |
| BusyAcceptor | a connection that comes while nobody is inside `accept()` wedges the listener, although fibers call `accept()` again and again |
| TlsEof | after the peer's `close_notify` a read never returns, and nothing else runs any more |

Six more configurations, beside the runs, each check one property that states what the
repository says and that TLC finds violated in the same way:

| Configuration | What happens |
|---|---|
| CloseEndsAccept (TcpListener) | a fiber inside `accept()` stays there when the listener is closed; `test/main.js:136` says the loop blocks "forever (or until server.close() or error)" |
| CloseEndsRead (Sockets) | a fiber inside `read()` of a UDP socket stays there when it is closed; `stdlib.js:333` says "if (result === null) break; // Socket closed", and `UDP_Read` never returns that null |
| ClosingSockets (Sockets) | `TCP_Close` frees a `NetHandle` before the closing phase has finished its `uv_tcp_t`; `Technical Specification.md:58` speaks of "safe destruction" |
| ConnectedSocket (Sockets) | what `TCP_Connect` returns is a bitwise copy of a `uv_tcp_t` that is deleted without `uv_close`, and using it is undefined; `primitives_tcp.cpp:23` says "The handle is already connected, just need to init our wrapper" |
| SharedFiles (FileHandlesMC) | one fiber's close leaves another's request, still in the pool, with a descriptor that is no longer its file's; `Technical Specification.md:57` says that the lookup ensures "the object is valid" |
| TlsErrorQueue (Tls) | a failed handshake leaves an error in the thread's queue, and a read of another connection that only has to wait returns -1; `stdlib.js:373` says "-1n on EOF/Error" |

What else the models contain and neither asks:

* On Windows the caller of a nested `Fiber.run` is never continued when the new fiber blocks
  (`RunReturns` fails with `NestedRun` on Windows); a primitive called by the main script
  returns at once (`OwnResult` fails with `BlockInScript`).
* A `PollContext` is deleted like a `SleepContext` when the async descriptor is served in the
  same poll phase. `uv_run` never returns, because `resume_handle` stays active.
* With several accept requests (`hold_limit` > 1, Windows) a burst strands a connection
  although the fiber only accepts.
* A finalized file object leaks its descriptor, a finalized directory its remaining names.
* A reset that arrives while a TLS operation polls aborts the process.

### Bounds

`MaxCalls` = 2 lets a fiber be resumed with a second result while the first is still in
its `resume_value`; three fibers let one complete while another is being resumed and a
third waits. `MaxTime` = 3 with durations 0, 2 and -2 lets a sleep start late and be due
together with another; with `Width` = 3 the clock ends at 7, far enough for a clamped
deadline to differ from every reachable one. `hold_limit` = 2 is the least number at which
Windows differs from POSIX. Two chunks are the least that can be reordered. Two
descriptors and three opens force reuse; two names let one be read and one be left. In `Tls`
two records are the two flights a server waits for, or a client's one flight and data; one
call lets a read or a write come between handshake and close, two (TlsErrorQueue) a read that
returns data and one that has to wait. Three files are the least
for a cycle that does not contain the entry; `MaxCompiles` = 2 is enough for a second module
of one file to appear and is never reached. Each bound is a conjunct of the action it
stops. `CHECK_DEADLOCK FALSE` is set throughout: a program whose fibers have ended, or
wait for a peer that never answers, waits in `uv_run` for ever, and the bounded counters
also run out.

### Fairness

The runtime's own code and libuv's loop always continue (`WF` of `Runtime`, `Loop`), and
the JavaScript between two primitives terminates (`WF` of `JavaScript`, `Fiber(f)`). Time passes
(`WF` of `Tick`). Nothing is assumed of the network or the thread pool, so a property says
"once the operation has completed", never "the operation completes"; `TcpListener` and `Tls`
assume that what a fiber or a resolver waits for elsewhere does complete, and `Tls` that a
poll whose descriptor stays ready is reported, as epoll does. Strong fairness is used twice,
for phases of the loop: between two turns a fiber runs, during which no action of the loop is
enabled, but each turn of `uv_run` ends with the closing phase and finishes every handle that
is closing (`SF` of `FinishClose` in `Sockets`), and each poll reports a listening socket whose
backlog is not empty (`SF` of `TakeConnection` and `TakeFails` together in `TcpListener`).

### Conditions under which things hold

* Scheduler: the script starts the fibers and calls no blocking primitive itself.
  Calling `Fiber.run` in a fiber keeps safety on Windows only, and the caller's progress nowhere.
* Listener: every connection is accepted only on POSIX, if accepting fibers do nothing
  else, `accept()` never fails (a failure takes a fiber out of the queue, and the next
  connection may find it empty), and nobody closes the server. `ConnectionsAreAccepted` says
  so as an implication whose left side is about the whole behaviour. `BusyServerAccepts`, which is
  violated, asks only that nobody closes the server, nothing fails and fibers call `accept()`
  again and again (`[]<>`); a `TCP_Accept` that took a connection libuv already holds would
  satisfy it.
* Sockets, and the closed listener: the liveness properties allow for `misused`; the other
  properties hold up to that state.
* Files: a fiber uses an object only if no other fiber may be closing it.
* TLS: each fiber has a connection of its own (`TlsAssumption`, `Init`), so two polls of one
  descriptor cannot happen in the model, though nothing in the code prevents them; the properties hold until the process is `stopped`, and a
  `close_notify` of the peer only ends a close (`PeerEndsOperation` is checked with peers that
  end by FIN or reset, or answer the `close_notify` they got).

## 4. The proofs

Each theorem holds for all values of the constants that satisfy the module's assumption.
Those assumptions say that names differ and that parameters have their types; where there is
more to them, it is said below. No safety invariant of the runs is inductive by itself. Every
proof module defines a stronger one as a conjunction of named parts, shows that `Init` gives it
and that every action keeps it (one lemma or step per action, or one per part), and takes
the checked properties from it. TLC checks the strengthened invariants too, with the proof
module in place of the module in its run: `SchedulerInv` (Posix), `LoopInv` (EventLoop),
`ListenerInv` (Listener), `SocketsInv` (Sockets), `IInv` (Tls) and `FilesInv` (Files, also with
shared objects).

`QueueLemmas` states once what `Append`, `Tail`, `\o` and the removal of an element do to
the set of elements of a queue and to its being free of duplicates.

### FiberSchedulerProofs

* `TypeCorrect`: `Spec => []TypeOK`, on both platforms, with nested runs and blocking
  scripts.
* Under `Disciplined` (the script does not block; nested runs on Windows only):
  `NeverUndefined`, `RunsAsCurrent`, `ReturnsOwnResult`, `NoLostWakeup` (also `QueuedOnce`),
  `QueueIsSignalled`; and on POSIX `EndedFibersAreFreed`.
* `SchedulerImplementsCoroutines`: if the script does not block and fibers are started from
  the script only, every behaviour of `FiberScheduler` is one of `Coroutines`.

`SchedulerInv` is inductive under `Disciplined`:

* `StackInv`: the executing stack exists; every other stack is saved in the slot of its own
  fiber, so that a switch to a fiber continues that fiber's stack. This is what a nested
  `resume` on POSIX breaks.
* `CurrentInv`: `current_fiber_` is the executing stack, except between the switch back to
  main and the end of `resume`.
* `AnswerInv`: `resume_value` holds the answer of the last call, from the moment it is set
  until the fiber has returned from its `yield`.
* `QueueInv`: the contexts in libuv, the shared queue and the local queue are pairwise
  different and exactly those of the fibers suspended in a primitive; a non-empty queue is
  signalled.
* `FreedInv`: an ended fiber is freed or is the child whose `resume` is returning.

`SwitchType`, `YieldStep` and `ResumeStep` are stated once; each part of the invariant has a
lemma (`StackStep`, `CurrentStep`, `AnswerStep`, `QueueStep`, `FreedStep`) with one step per
action.

The refinement maps `Call` to `Block`, `Finish` to `Finish`, `Fiber_Run` to `Start`,
`QueueFiberToResume` to `Complete` and `ResumeNext` to `Wake`; all other steps change
nothing in `Coroutines` (`AbstractStep`). It uses of the invariant that contexts are
pairwise different (so that completing one call removes one call), that the first of the
local queue belongs to a fiber that waits, and that the local queue is empty when a drain
begins. `CallSequenceAppend` and the lemmas around it carry the two queues over to the
abstract sequence of completed calls. A caller that is itself a fiber is outside this
theorem, because it is not continued (section 3).

### EventLoopProofs

* `LoopTypeCorrect`, `CompletedIsQueuedOnce` and the action property `SleepersWakeInOrder`.

`EventLoopAssumption` also keeps durations and `MaxTime` below half of the clock's range, as
an `int64_t` of milliseconds is below half of a `uint64_t`. `LoopInv` has beside the type
and `QueuedExactlyOnce`: `HeapInv` (a timer is in the heap once, and exactly while its sleep
is active), `BatchInv` (a reported socket still waits for its callback), `PhaseInv` (only
one of the two queues is in use), `TimeInv` (libuv's time is never ahead of the clock, and a
queued sleep was due) and `OrderInv` (both queues are sorted by deadline, and no timer in
the heap is due before a queued one). `OrderInv` is why sleeps wake in order, and it
survives a new sleep only because `TimeInv` puts the new deadline behind those of the queued
ones; `ExpiryRange` shows that the clamp at the end of the clock keeps that true for a
negative sleep.

### TcpListenerProofs

* `ListenerTypeCorrect`, `AcceptersInOnePlace`, `PromisesAreKept`: both platforms, any
  fibers and connections, with failing accepts and `close` at any time. `AcceptersInOnePlace`
  says that a fiber inside `accept()` is waited for in exactly one place, so that nothing resumes
  it twice or for another call; not that it is resumed, since the `accept_queue` of a closed
  listener is never served (CloseEndsAccept, section 3).

`ListenerInv`: `QueuesInv` (`accept_queue`, the shared and the local queue have no fiber in
common and none twice), `BlockedInv` (a fiber inside `accept()` is in one of them, and the
fibers in them are blocked in what the queue says), `RunningInv`, `PromiseInv` (a stored
handle is open, and each queued result "connection" has a connection that libuv holds).
`PromisedConnectionIsThere` compares the number of such results with the number of
connections held (`Cardinality`); `PromisedNext` says how a step changes the first,
`TakeStep` and `AcceptStep` the second.

### SocketsProofs

* `SocketsTypeCorrect`, `OnAllocHasBuffer`, `HandlesOutliveRequests`, `WaitedForOnce`, and
  the action property `ChunksInOrder`.

`SocketsInv`: `RequestInv` (whom libuv works for is blocked in that operation on that
socket), `QueueInv` (a fiber has one context in the queue, and none while libuv works for
it), `BlockedInv` (a blocked fiber is in one of these places), `ChunkInv` (the chunks not
yet returned are exactly those queued, in order of arrival), `StoredInv` (a socket that
JavaScript may use is not one that `TCP_Connect` still works on). `ChunkInv` is what makes
`ChunksInOrder` true: without it a step that resumes a reader says nothing of the chunks
before. The theorems speak of behaviours up to `misused`, where the model stops.

### TlsProofs

* `TlsTypeCorrect`, `ResolverHasContext`, `SuspendedFiberIsAwaited`: any number of connections
  and fibers, peers that close, end or reset at any time, a resolver that blocks, errors of
  other connections in the queue. All three rest on the premise that each fiber has a connection
  of its own.

`IInv`: `OwnConnections` (one fiber uses a connection; the assumption says there are enough
of them), `HandshakeHolds` (a fiber whose handshake may still call the resolver owns the
context, so that closing the server does not free it), `OperationHasSsl`, `QueuedInv` (a
queued fiber is suspended, and queued once), `PollsInv` (a poll is the only one of its fiber,
which is suspended in an operation on that connection and is not queued), `AwaitedInv` (a fiber
suspended in an operation has a poll or is queued), `RunningInv`.

### FileHandlesProofs

* For any fibers and descriptors, also when objects are shared: `FilesTypeCorrect`,
  `UnclosedAreStored`, `OpenFilesCanBeClosed`, `NamesAreKept`.
* If a fiber uses its own objects only (`~SharedHandles`): `RequestsActOnOwnFile`. Without
  that hypothesis it is false (section 3).

`FilesInv`: `StoreInv` (each object has an id of its own, exactly the live objects are
stored, and ids count the objects), `QueueInv`, `CallInv` (what a request in progress knows
of the file it is meant for), `OsInv` (an open file has one descriptor, which those who
opened it or may use it know, and none once its object is closed), `NamesInv`, and, when
objects are not shared, `OwnInv`: a descriptor stands for the file of its handle until the
owner's close has executed. `OwnInv` needs all the others: between the close in the thread
pool and the removal of the handle the descriptor may already be another file's, and only
the owner, who is suspended in that close, could have used the old handle. `LowestIsFree`
shows that the descriptor the system hands out is a free one.

### ModuleLoaderProofs

* `LoaderTypeCorrect`: `Spec => []TypeOK`.
* `SharedModules`: `Spec => []ImportsAreShared`.

That the importing file is found needs to know that the cache has only modules of its keys,
and that every module V8 works on was begun. `IInv` adds `CacheInv` (a path's module is of
that file), `VisitInv` (the modules on the stack have begun) and `StartInv` (nothing is
cached before the entry). `ReferrerFound` shows that the search finds the importing file and
no other; `GiveStep`, `BeginStep` and `SharedUnchanged` are the three ways in which a step
can touch the imports; then each action has a lemma.

### Only model-checked

Liveness, because neither fairness under `ENABLED` nor `~>` over a measure is in the
prover's reach: `RunReturns`, `CompletedCallReturns`, `SleepEnds`, `CompletedIsDelivered`,
`ConnectionsAreAccepted`, `CloseEndsWrite`, `ReadyOperationContinues`, `PeerEndsOperation`,
`LoadingEnds`.

The results under `Disciplined` do not extend to nested runs on POSIX or to a script that
blocks: in both, `OwnResult` is false (section 3).

## 5. Not modelled, and what is left

Not modelled: encoding, console and V8 set-up (no state), build files. Left out of
modelled parts, and why:

* Formatting of errors and the contents of buffers; `fs.remove`, `dirMake` and `dirRemove`, which
  have no state of their own beyond a request in the pool, as `EventLoop` has it.
* `HandleStore::Dispose` and the rest of `main()` after `uv_run`, which does not return.
* A failing `TCP_Listen`: it frees a handle that libuv has already linked, and nothing is defined
  after that.
* Finalizers of sockets and TLS objects: V8 posts finalization as a task of its platform and
  nothing in the program runs those tasks. For files and directories they are modelled all
  the same, since the classes rely on them.
* TLS: two fibers on one connection, handshake flights that wait for room in the send
  buffer, writes after the peer's FIN, and the parsing of keys and certificates (pure).
* The width of ids and counters (64 bits, never exhausted), except that of a sleep.

What remains to do, in this order:

1. Two fibers on one TLS connection, with the shared descriptor of their polls.
2. A scheduler in which `Fiber.run` saves its caller, as the specification that a repair of
   the nested runs would have to implement.
3. Proofs that the queue of `EventLoop` implements the one of `FiberScheduler`, so that the
   modules of the primitives need not restate it.
