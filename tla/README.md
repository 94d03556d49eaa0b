# xlib in TLA+

A TLA+ development kept beside the source of xlib (`src/`): models of the parts
of the library in which threads, processes, the kernel, callbacks and failing
calls interleave, the properties they must have, TLC runs that check those
properties on small instances, and TLAPS proofs for every value of the
constants. `PROJECT.json` lists components, runs, the source lines behind every
definition, hazards, findings and theorems.

xlib is a portable C library. Where the builds differ in a way that matters, the
models have a variable for the build: `EventBackend` (epoll, kqueue, select),
`Constructors` and `Wrappers` (Linux, macOS, Windows), `Process`, `OpenFile`,
`Directory` and `Paths` (POSIX, Windows). `CommandLine` is Windows code.
`EventLoop`, `Semaphore`, `Pipeline`, `SharedMemory` and `NamedSemaphore` follow
the POSIX code, `EventLoop` as built on Linux. Paths are relative to `src/`.

## The system

| Part | Code | Hard behaviour | Model |
|---|---|---|---|
| Event loop | `src/x_event.c` | callbacks that change what is being traversed; stop and wake from other threads; due times; descriptors that are closed and used again | `EventTime`, `EventLoop`, `EventBackend` |
| Counting semaphore | `src/x_thread.c` | lost wakeups, newcomers, destroy after the last permit | `CountingSemaphore`, `Semaphore` |
| Threads, mutexes, conditions | `src/x_thread.c` | join and destroy against a running thread; a condition under a mutex | in `AsyncRead`, `TcpCheck`, `Wrappers` |
| Asynchronous read | `src/x_filesystem.c` | wait and destroy against the worker; a file that changes; error paths | `AsyncRead` |
| File watcher | `src/x_filesystem.c` | changes between polls, coarse time stamps | `FileWatcher` |
| Files, directories, paths | `src/x_filesystem.c`, `src/x_memory.c` | handles and a mapping of one file; entries that come and go during a listing; buffer limits | `OpenFile`, `Directory`, `Paths` |
| Processes and pipelines | `src/x_process.c` | inherited descriptors, partial failure, pids used again, waiting in the right order, quoting | `Pipeline`, `Process`, `CommandLine` |
| Shared memory, named semaphores | `src/x_ipc.c` | other processes between two system calls, names reused, crashes | `IpcName`, `SharedMemory`, `NamedSemaphore`, `Ipc` |
| Hooks | `src/x_diagnostics.c`, `xlib.hpp` | installation against emission, without a lock; guards | `Hooks` |
| Constructors and destructors | all of `src/` | what each error path releases | `Constructors` |
| C++ objects | `include/xlib/xlib.hpp` | moves, reopening, throwing constructors | `Wrappers` |
| Network | `src/x_network.c`, `examples/network_example.c` | two threads, partial transfers, failing calls | `TcpCheck` |

The event loop uses processes (`x_process_poll`), file watchers
(`x_file_watcher_poll`), UDP sockets (for waking) and the monotonic clock. The
asynchronous read uses threads. A pipeline uses pipes and processes. The network
example uses threads, mutexes, conditions and sockets. `Ipc` composes two parts
that the same processes use and lose together. `Files`, `Processes` and
`Clients` put parts that share no state beside each other: a behaviour is of one
part, and one run checks them all. What is not modelled is listed at the end.

## How the modules correspond to the code

An action is named after the function it models. Where a function takes several
steps between which others can run, the first action has the function's name and
the later ones are named for what they do. Definitions marked *Variant* are
plausible mistakes. No specification uses them; `PROJECT.json` pairs each with
a property, and putting it in the place of the correct definition violates that
property.

**EventTime** holds the arithmetic: saturating conversion of milliseconds,
addition modulo 2^64 (`UINT64_MAX` is a constant), and the timeout passed to the
kernel with its rounding and its cut at `INT_MAX`.

**EventLoop.** A source is named by the number of its allocation, so that a
stale pointer differs from every live one. `loop->sources` keeps allocation
order, so it is a set, and an index is the last source visited. One owner thread
adds and removes sources, runs the loop and executes callbacks; a callback is a
state in which every client operation is possible. Other threads wake, cancel
and stop. A cancel is two steps, flag and datagram. Sockets become ready at any
time, `epoll_wait` may be interrupted or fail, and a datagram is dropped when the
receiver is full.

**EventBackend** is the code of the three backends that registers, removes and
waits, with the dispatch of what a wait reports. A source keeps its place and its
state (active, removed, freed), so that a pointer that outlives it can be told. A
descriptor may be closed when its sources are removed and be used again by the
next one. With kqueue a source may have two filters, each known by descriptor and
kind only: a second source takes over those it shares with the first, an add may
fail with only the first of its two registered, and a removal stops at a READ
filter that is missing and leaves WRITE. `mixed` is the set of descriptors to
which one of the first two has happened. With select the sets are read after
callbacks have run.

**Semaphore** has one action per pthread call, with spurious wakeups and calls
that fail; `signalFailed` records that a `pthread_cond_signal` has failed.
**CountingSemaphore** is its contract: each wait takes one permit and each post
adds one, at one instant between call and return. The refinement mapping is
`permits <- count` and `call <- Call(t)`, which forgets where a thread is inside a
call.

**AsyncRead** has a client thread, the worker (open, size, allocate, read in
rounds, close, callback, thread exit), and others who change the file's size. A
read may be short. `live` is the memory allocated and `changed` records that the
file is no longer the one that was measured.

**OpenFile** has two handles and one mapping of the same file. A mode decides the
system call's flags, a write may be short, and a create or an open in
`X_FILE_TRUNCATE` empties the file under the others. **Directory** lists while
others create and delete; on Windows one entry has been fetched ahead, and an
error of that is kept for the next call, which returns it on entry. **Paths** joins every pair of short paths into a
buffer of every size and compares base names and absoluteness.

**Pipeline** models tables of descriptors with their close-on-exec flags, fork
(copies), exec (thins), `dup2` (which does nothing for equal descriptors), a
pipe of bounded capacity, and exit statuses that wait to be reaped. The two
programs write, read and end, perhaps too early. Another thread of the parent
may fork at any time.

**Process** is a child from `x_process_start` to `x_process_destroy`, with the
pipe of its output, which it keeps open as long as it runs. The client polls, waits, reads and terminates in any order. A
POSIX pid is free once the child is reaped and may become another process's.

**CommandLine** is the text `x_process_build_command_line` writes, character by
character because the property is about the characters, against a reference
definition of how the child's runtime splits it; and the lengths computed
beforehand against what is written. The steps of the loops are operators of their
own (`CountChar`, `PutChar`, `TakeChar`, ...), which `Loop` repeats. A path is any
that names a program: no file name of Windows has a quote, and none of a file ends
with a backslash.

**SharedMemory** has one action per system call. An object exists while a name,
a descriptor or a mapping refers to it; `replaced` records the objects that a
create has emptied while they were in use, and `bereft` the processes inside a
create whose name has been removed since they opened it. **NamedSemaphore** is similar with one
action per call. **IpcName** is the mapping of names: with or without the leading
slash is the same object. **Ipc** composes the two: the processes are the same,
the name spaces are separate, and a crash loses a process's handles of both
kinds in one step.

**FileWatcher** compares snapshots of a path that others create, write and
delete, at a clock of whole seconds.

**Hooks** splits an installation into its two plain stores, visible to another
thread in either order, and an emission into reading the hook and calling it. In
some behaviours (`guarded`) hooks are installed by the guards of `xlib.hpp` only,
which are constructed and destroyed in any order.

**Constructors** writes each constructor as the sequence of its fallible calls,
each with what it acquires and what the error path behind it releases, and each
destructor as the set it releases. **Wrappers** runs them: any step may fail, and
a few objects of one class are constructed, moved, assigned, reopened, closed
and destroyed. Releasing something twice, or losing the last reference to it, is
recorded.

**TcpCheck** is `run_tcp_check` of the network example with its server thread:
mutex, condition, sockets and the shared structure, a local variable of the main
thread. Every call may fail and every transfer may be partial.

## Runs

| Run | Shows |
|---|---|
| `loop_sockets` | no use after free, every source freed exactly once, epoll set equal to the active sockets, no sleep on a stop request, no callback for a removed source |
| `loop_timers` | when the loop sleeps nothing is due, the timeout matches the next due time, one-shots complete once |
| `loop_liveness` | a stop request ends the run, due sources are served, exits of children are reported |
| `semaphore` | no lost wakeup, safe destruction, refinement of `CountingSemaphore`, no stranded waiter |
| `files` | asynchronous reads: memory (`AsyncReadMemory`), result (`AsyncReadResult`) and an end to every wait; watchers report what happened (`ChangesReported`); listings are complete and without repetition (`ListingSound`); appends go to the end and mappings are covered (`OpenFilesSafe`); joined paths stay in their buffer and below the left path (`JoinedInside`) |
| `processes` | pipelines: stages hold exactly the descriptors they should, nothing is left on any path and exit code 0 means success (`PipelineSound`), they end; one process: `OneTrueExitCode`, `EofMeansAll`, `SignalsOwnChild`; command lines arrive as given (`CommandLineSound`) |
| `ipc` | mapped bytes stay accessible and an open gets the whole region or an error (`RegionsWhole`), a name keeps its object and is removed only by an unlink or a failing create of it (`NameKept`), permits are conserved through crashes and reuse of names |
| `clients` | every constructor on every build, and every order of moves: nothing leaked, released twice (`ReleasedOnce`) or inherited by children (`Sealed`); hooks: `CallsCurrent`, `GuardsRemoveTheirHooks`; backends: `PointersLive`, `DispatchedAsAsked`; network example: `TcpCheckSound`, `RunEnds` |

Four runs expect a violation. Each shows a place where code and documentation
disagree:

| Run | Disagreement |
|---|---|
| `loop_cancel` | a cancel during the entry of `x_event_loop_run` is forgotten (`x_event.c:711`) |
| `loop_overflow` | a saturated interval moves a repeating timer backwards (`x_event.c:393`) |
| `pipeline_closed_std` | with standard input closed in the parent, `dup2(0, 0)` keeps close-on-exec and the second stage has no input (`x_process.c:367`) |
| `iterator_leak` | the constructor of `directory_iterator` throws with its directory open when the first `x_directory_next` fails (`xlib.hpp:843`) |

Other places where the models had to follow the code rather than its
documentation, without a run of their own. The properties are stated so that they
hold in spite of them:

- Creating a shared memory name that exists opens it with `O_TRUNC`
  (`x_ipc.c:164`) and so empties what others have mapped; `ipc.h` speaks of
  replacing the region. `RegionsWhole` excepts such objects (`replaced`).
- Creating a named semaphore that exists is refused (`O_EXCL`, `x_ipc.c:382`);
  `ipc.h` says "Creates or opens".
- A change of a watched file that keeps its size within one second of time stamp
  is not reported (`x_filesystem.c:267`). `ChangesReported` is about later
  seconds.
- A hook can be called with the data of another installation that overlaps the
  emission (`x_diagnostics.c:41`). `CallsCurrent` bounds how old either may be.
- A create that fails removes the name it was given (`x_ipc.c:173`), also when
  that name has meanwhile been unlinked and created by another process. `NameKept`
  lets only such a create (`bereft`) remove a name that is not its own.
- When the `kevent` of an `x_event_loop_add_socket` fails after the first of its
  two changes, that filter stays registered with a pointer to the freed source.
  A second source of the same descriptor takes over the filters of the first, and
  the removals of the two can leave a WRITE filter behind. `PointersLive` and
  `DispatchedAsAsked` except such descriptors until they are closed (`mixed`).
- On Windows a call of `x_directory_next` that passes over a dot entry after which
  `FindNextFileW` fails returns 0 without an entry (`x_filesystem.c:837`), which
  is also what it does at the end of the directory. The error is kept, but only a
  client that calls again gets it; `docs/API.md:3` says that failures are returned
  as error codes. `ListingSound` excepts exactly this state.
- A program that another thread starts between `pipe` and `fcntl` inherits the
  ends of a pipe and can keep a pipeline from ending. `PipelineReturns` excepts
  it.

### Bounds, and why they are enough

- Event loop: up to four sources, one of which is the internal wake source, two
  sockets and one other thread. Two sources reported in one batch, of which the
  first callback removes the second and adds a third, is the smallest case in
  which a pointer could go stale. `MIN_CAPACITY = 1` makes the array grow at
  every size. `MAX_EVENTS = 2` is less than the sockets that can be ready, so that
  a batch can be partial. With `NS_PER_MS = 2` and `INT_MAX` of 1 or 2 rounding
  and cutting both happen. `MaxQueue = 1` lets the wake buffer be full. In
  `loop_overflow` the interval exceeds a 4-bit `UINT64_MAX` the way 2^54 ms
  exceeds 64 bits.
- Semaphore: three threads of two calls give two sleepers and two posts, and a
  poster that comes back as a newcomer; `UINT_MAX = 2` reaches overflow.
- Files: files of up to three bytes and `SIZE_MAX = 3`, so that the largest does
  not leave room for the final zero; three file sizes and four seconds for a
  watcher; three names, of which one is too long for an entry; two handles and a
  mapping, so that one handle truncates or appends under another; paths of up to
  three characters, enough for a drive, its colon and a separator.
- Processes: a pipe of capacity one and two items to write, so that the first
  stage must block; six descriptors. One child with up to three bytes of output
  and the codes 0, 1 and 143, the last being also what a SIGTERM gives.
  Arguments of up to three characters, of which the two that matter, quote and
  backslash, can repeat and end an argument; up to two arguments, or two
  variables of the environment; paths of up to two characters.
- IPC: two processes, both of which create regions and semaphores and which may
  be exchanged (symmetry; no liveness is checked there);
  two regions and two semaphores at a time, their names being reused without
  limit; two sizes, so that a region can be created again smaller.
- Clients: three C++ objects, so that a handle can be moved on from the object it
  was moved to; five installations of hooks over the three kinds together, which
  allows two guards of a kind to be destroyed in either order, and one emitting
  thread; two descriptors and three sources, so that a descriptor is used again
  while an event of its former source is still to be dispatched; messages of two
  bytes, so that a transfer can be partial.

Deadlock is checked except in `clients`, where hooks stop at their bound while
nothing need be emitted.

### Fairness

- `EventLoop`: weak fairness of the owner inside `x_event_loop_run` (its thread
  is scheduled, and callbacks return), of the clock, and of the second half of a
  cancel. None for sockets, children, interruptions or failures.
- `Semaphore`: weak fairness of every thread inside a call. Each makes finitely
  many calls, so none is needed of the mutex.
- `AsyncRead`: weak fairness of the worker and of the client inside a call.
- `Pipeline`: weak fairness of the parent, of the two stages, and of the set-up
  between fork and exec of the program that another thread starts. That program
  itself may run for ever.
- `TcpCheck`: weak fairness of both threads, and strong fairness of the server's
  lock, which a main thread woken spuriously again and again takes and releases
  in between: a mutex is not denied to one thread for ever. None for failures.

## Proofs

| Module | Theorems |
|---|---|
| `EventLoopProofs` | `TimeoutBounds`, `TypeCorrect`, `ArrayFitsCapacity`, `NoDanglingPointer`, `SourcesFreedOnce`, `KernelAgrees`, `NoSleepAfterStop`, `OnlyActiveDispatched`, `OneShotsCompleteOnce` |
| `EventTimingProofs` | `NothingDueIsLeft`, `WaitIsExact`, `TimersAdvance` |
| `SemaphoreProofs` | `TypeCorrect`, `NoWakeupIsLost`, `DestroyIsSafe`, `SemaphoreRefines` |
| `FilesProofs` | `MemoryIsSafe`, `ResultIsTrue`, `WatcherReportsChanges`, `OpenFilesAreSafe`, `ListingIsSound`, `JoinStaysInside` |
| `ProcessesProofs` | `ExitCodeIsTrue`, `NothingAfterEof`, `SignalReachesChild`, `PipelineIsSound`, `StagesAreConnected`, `CommandLineArrives` |
| `IpcProofs` | `PartsImplemented`, `RegionsStayWhole`, `NoPermitLost`, `NamesAreKept` |
| `ClientsProofs` | `NoStaleHook`, `NoHookOfDeadGuard`, `NoPointerDangles`, `DispatchIsAsked`, `CheckIsSound` |
| `WrappersProofs` | `HandlesReleasedOnce`, `DescriptorsSealed` |

The theorems speak of the specifications that the runs check, `Files`,
`Processes` and `Clients` included: a lemma for each of their parts says that a
step of the whole is a step or a stutter of that part, and carries an invariant of
the part over. Every safety property of a passing run is proved.

The assumptions are the named `ASSUME`s of the modules, which are ranges of the
constants (`PathChars` has no quote), and two hypotheses in theorems:

- `NothingDueIsLeft`, `WaitIsExact`, `TimersAdvance`: `NoWrap`, no delay or interval
  takes a due time past `UINT64_MAX`. The run `loop_overflow` shows what happens
  otherwise; a polled source whose interval saturates would also still be due when
  the loop goes to sleep. The constants of `loop_timers` satisfy it.
- `StagesAreConnected`: the parent has its three standard descriptors open. The run
  `pipeline_closed_std` shows what happens otherwise.

**Event loop.** `TypeOK` is inductive together with `SizeInv` (the capacity is
positive and not exceeded). The capacity must be positive because reserving
doubles it; since the array was not overfull, one doubling makes room for one
more source. The memory properties come from
`LifeInv == TypeOK /\ TableInv /\ BatchInv`. `TableInv` says that the array and
the freed sources partition all sources allocated, active sources are in the
array, and the kernel knows exactly the active sockets. `BatchInv` is the
strengthening: reported events are still in the array, and there are some only
while the loop handles a batch or a socket's callback runs. Without it the proof
fails at `x_event_loop_compact`, which frees sources that a batch might still
name. `StopNeverSleeps` is inductive given the types. `CompletesOnce` needs in
addition that completed sources have been allocated.

The timing properties need to know where a pass over the sources is, because
callbacks add, remove and reschedule in the middle of it. `PassInv`: sources up to
the cursor are no longer due, except the one whose callback runs, and whatever is
added comes behind the cursor. The catching up of a repeating timer ends because
each addition moves its due time forward, which is where `NoWrap` enters.

**Semaphore.** `NoLostWakeup` is inductive given the types: whoever falls asleep
saw a count of 0, and each increment is made by a thread that is then about to
signal. It says nothing once a signal has failed: the permit then stays, and the
sleeper too, until the next post. `DestroyIsSafe` needs that a thread between lock
and unlock owns the mutex, and that while a post is between its increment and its
unlock the permit it added has not been taken. The refinement maps each step to a
step of the contract or to a stutter.

**Files.** *Asynchronous read:* `LifeInv` ties the client to the worker: the
operation is freed only by a client that has joined, and `joined` is set only when
the worker has exited. `BlockInv` adds that what has been read fits the size taken
by `fstat`, whatever becomes of the file, and `ResultInv` that the callback has
been called with the result before the worker can exit. *Watcher:* no time stamp
is of the future. *Open files:* on Windows the share modes make a writer exclusive
(`Exclusive`), so nobody moves the end of the file away from a handle that appends
(`AppendInv`); a mapping keeps its size from the step that takes it (`SizeInv`).
*Directory:* `PlacesInv` says that a name is in one place only (still to come,
fetched ahead, returned, refused) and that a name that was there all the time is
in one of them; `ProgressInv` says that where nothing is fetched any more nothing
is missing, or the client was told, or the error is still kept. *Paths:* base names are determined
by the last separator, for which a few lemmas about concatenation suffice.

**Processes.** *One child:* `HandleInv` says that the handle says waited exactly
when the child is reaped, its exit code is then the true one, and until then the
pid is the child's; `StreamInv` that what was sent is read or in the pipe, and a
running child holds the write end. *Pipeline:* `TableInv` describes the parent's
table at each place of `x_process_run_pipeline`: what it was before the call, and
the ends of the pipe it still has, at descriptors that were free. `StagesInv` says
how far each stage is when the parent is where it is. `ConnectedInv` follows a
stage from fork (`Ready`: each end of the pipe has one descriptor, marked
close-on-exec, and no standard descriptor is free) through its redirections to
exec. *Command line:* the property is about what loops over texts of any length
compute, so the proof is an induction, which is put as a statement about sets
(`SequencesByStep`: a set of sequences that has the empty one, and with each also
those one longer, has them all). A loop is described by the relation of its step, and
`Runs` says that the step leads from one state to another along a list; runs
compose as the lists do (`RunsTogether`), and one lemma for each loop
(`CountLoop`, `PutLoop`, `TakeLoop`, ...) says that the loop computes what a run
ends with. What is proved by induction is `Writes`: of a string that ends with n
backslashes the code has written a text, and has measured two more than its
length, of which the child has read all but these n backslashes, which still wait
for what comes next. That is why the code doubles them before a quote and before
its own closing one (`EveryStringQuoted`); without the n the statement would not be
inductive. `Passes` and `Fills` carry it over to the lists of arguments and of
variables, and `PathQuoted` shows that a path is left as it is, which the child
needs to find its name between the first two quotes.

**IPC.** `PartsImplemented` shows that each step of the composition is a step or a
stutter of either part, crashes included. `RegionsWhole` needs `CallsInv`, which
says what a process in the middle of a create or open holds, and `RegionsInv`,
which ties the size of each object to what was asked for it unless it was
replaced. `NameInv` says that while a create is under way its name leads to its
object, or the process is bereft of it. So a second create of a name that exists
opens the same object (`CreateNames`), and a removal takes the name from all who
are creating it (`UnnameNames`).

**Clients.** *Hooks:* `GlobalsInv` says that a global whose store is outstanding is
of the installation before, and `EmissionInv` that an emission has read a hook no
older than its beginning. `GuardsInv` says the same of guards: the hook stored, or
about to be, is of a guard that lives. *Backends:* `SourcesInv` always holds
(sources are numbered without gaps); for descriptors that are not `mixed` there are
also `KernelInv` (each registration is of an active source, for its own descriptor
and a filter it asked for; select registers nothing), `FiltersInv` (each filter an
active source of kqueue asked for is registered, with a pointer to that source,
which is why its removal deletes them all), `EventsInv` (each event still
to be dispatched is of a source that was there when the wait returned and is not
freed, and the loop at rest has none left), and `LastInv` for the callback that
runs. `EventsInv` is needed because compact frees sources, and is safe only since
it runs when no event is left. *Network example:* `PublishInv` says who owns the
mutex, so that a main thread that has seen the flag has also seen the server unlock
it for the last time, after which the server leaves the shared state alone.

**C++ objects.** The proof has two halves. The first is about the tables of
`Constructors`, class by class and build by build: `Clean` says that from a given
state of a constructor every error path releases all that is held, nothing is
released twice, and the end leaves what the destructor releases. It is defined as a
greatest fixed point, so that it unfolds step by step without induction;
`Passes` is the same for a part of a constructor, and `PassesConcat` and
`CallingConcat` compose parts and nested calls. For x_process_start on Windows,
where the redirections can be of several kinds, `Extends` bounds what a part adds.
`ConstructorsClean` sums up: every constructor of every class is clean on every
build, except that the error paths of `directory_iterator` need not release
everything (see `iterator_leak`). The second half is about the objects. `ObjectInv`
says that the call under way is clean from where it is (`CallInv`), that handles
and objects correspond one to one (`OwnInv`), and that a joined thread holds
nothing that still runs (`HandleInv`); each construction, move, reopening, join
and destruction keeps it, for any number of objects.

A leaf names its prover: `Zenon` for steps of logic, sets and functions, `SMT` for
arithmetic, records and sequences. A leaf that cites `SMTT(60), SMTT(90)` lets the SMT
solver try twice, because tlapm also limits the time in which it translates a leaf,
which a busy machine may exceed once.

**Only model-checked:** all liveness, because the prover has no rule for fairness.

## What clients must not do

The models leave out uses that the interface does not forbid and the code does
not survive: running a loop from its own callback; removing a source that the
loop has already removed by itself; closing a socket before removing its source;
destroying an asynchronous read from its callback or waiting for it in two
threads; terminating a process after waiting for it. `PROJECT.json` lists them as hazards.

## Not modelled

- `x_allocator.c`: a table of function pointers that no other part calls.
- `x_terminal.c`: pure output. `x_time.c`: conversions of the system's clocks.
- In otherwise modelled parts, functions that make one system call and keep no
  state: `x_mutex_try_lock`, `x_condition_broadcast`, values of thread-local keys,
  `x_pipe_write` by the parent, protection and flushing of memory, socket options,
  datagrams and multicast, the data calls of the TLS hooks (which forward to the
  client's callbacks), looking up a symbol.
- Failures of `pthread_mutex_lock` and `pthread_mutex_unlock` in the counting
  semaphore, which a mutex of the default kind that was initialised and is held by
  its user does not report.
- Conversions between socket addresses and text: one library call each.
- `run_udp_check` of the network example: a sequence of calls of one thread.
- The Windows code of `x_ipc.c`, which hands each operation to one kernel object,
  and that of the counting semaphore, the same algorithm above other primitives.
- Methods of `xlib.hpp` that only forward a call, and the lock guards.
