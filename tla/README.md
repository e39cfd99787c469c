# Verification of wasm_lite

`wasm_lite` runs Rust in the browser without wasm-bindgen. Its hard part is
`wasm_lite_std`: threads on web workers, locks, a condition variable, a channel
and an async executor, which must work on a main thread that may never block, on
workers that may, and in async tasks on either. Around it stand the boundary
(binding macros, the code generator and the JavaScript it writes, closures and
handles) and the runner that builds, serves and tests modules in real browsers.
This directory holds TLA+ models of these parts, the TLC runs that check them
and the TLAPS proofs of the theorems that hold for every instance.

Paths below are relative to `src/`; `std/` stands for
`crates/wasm_lite_std/src/`, `cli/` for `crates/wasm_lite_cli/src/`, `codegen/`
for `crates/wasm_lite_codegen/src/`, `macro/` for `crates/wasm_lite_macro/src/`,
and `glue` for `codegen/generate/runtime.rs`, the generator of the JavaScript
that drives a module. `PROJECT.json` maps each definition to its lines.

## 1. Inventory

**Threads and synchronisation**

| Component | State | Operations | Hard behaviour | What makes it correct |
|---|---|---|---|---|
| Mutex, `std/mutex*` | `data_lock`; lists of waiting threads and of `AsyncWake` halves, each under a spinlock | try, spin, block, sync, async, the timed forms; guard drop (`did_unlock`) | register-then-sleep against unlock; cancellation; deadline against wake-up; stale park tokens | exclusion; nobody sleeps on a free lock; no stale queue entry; the verdict of a timed call is the clock's; every call returns |
| RwLock, `std/rwlock*` | one word (readers, writer bit); four lists | the same, for reading and writing | unlock walks four lists while woken readers lock again | readers exclude writers; nobody sleeps while its kind is available; progress |
| Condvar, `std/condvar*` | three lists (spin, sync, async) | wait in three ways with deadlines, `notify_one`, `notify_all` | notify against timeout, cancellation and spurious return; an entry that outlives its wait | no leaked entry; no lost notification; an item that meets a sleeper wakes it |
| Channel, `std/mpsc*` | queue under a Mutex, sender count, receiver flag, Condvar | send, clone, drop, receive (try, timed, blocking, async) | the last sender's drop against the receiver's wait | once, in order; disconnection only when final; no stuck receiver |
| Thread parking, `std/wasm/wasm_utils.rs` | one `AtomicI32` token per thread | park, timed park, unpark | unpark between the test and the wait | no sleep over a token |
| Executor, `std/wasm/executor.rs`, `std/async_wait.rs`, glue | task queue, `RUNNING`, wake atom, wake pairs | `spawn_local`, tick, `waitAsync`, cross-thread wake | wakes racing polls; spawn inside a poll; a trap in a poll | one tick chain; no lost wake; a worker closes only when drained |
| Worker threads, `std/wasm/thread_api.rs`, `crates/wasm_lite/src/thread.rs`, glue | worker, stack and TLS blocks, join channel, panic sender | spawn, join, join_async, drop; start, return, panic, report, reclaim | spawn from a blocked worker; panic; a trap that no hook sees; start failure; teardown against tasks | storage outlives its use; one true verdict; joins return, but those of a thread that cannot answer; storage comes back |
| Timers, `std/sleep.rs`, glue | token registry, the root realm's deadlines, host timeout; off the browser a heap and a driver thread | poll, fire, cancel, drop | fire against cancel across realms; legs of a long sleep; token reuse | each token consumed once; no sleep too short; every sleep ends |
| Promises as futures, `crates/wasm_lite/src/future.rs` | two closure ids, outcome, waker | poll, settle, drop | settling after a drop | nobody sleeps on a settled promise; an outcome is its own promise's |
| Pinned file, `backend-wasm-bindgen/wasm_lite_std/src/fs/wasm.rs` | `seek_pos`; per request an output and a waker, a lock each | open, exists, metadata, read, read_all; store, look, register, look again | a store between two looks; operations of one file that overlap; servers that cut and lie | the output is taken; no byte is skipped; a read answers the bytes of where it started |

**The boundary between Rust and JavaScript**

| Component | State | Operations | Hard behaviour | What makes it correct |
|---|---|---|---|---|
| Closures and values, `crates/wasm_lite/src/closure.rs`, `value.rs`, glue | value table and free list, one registry per arity | insert, clone, drop, call, result, throw | re-entrant calls; a drop during a call; an exception through a frame | handles balance; a slot is not reused while in use |
| Binding macros, `macro/import.rs`, `macro/export.rs`, `macro/lib.rs`; code generator, `codegen/descriptor.rs`, `codegen/generate/shim.rs`, `export.rs` | descriptors in the module; buffers, return slots, handles of a call | expand, read back, lower, raise, answer, throw | widths and signs; optional and fallible values; exceptions before and after a copy | arguments and results cross as they were; a call leaves nothing behind |
| wasm-bindgen's attribute, `backend-wasm-lite/wasm_bindgen_macro_wl/src/*` | declarations and their shims | classify, expand, convert, call, throw | methods, getters, constructors and statics of one item; optional, borrowed and caught values; callbacks | an item names the property it declares; values arrive as they were, also after a throw |
| Module reader, `codegen/wasm.rs` | position in the bytes | four passes over sections | overlong and truncated numbers | reads what was written, or refuses |
| Remote files, `std/fs/wasm.rs` | `seek_pos` | read, read_all, seek, metadata | partial, lying and cut answers, wrong lengths; drops between two requests | the data is the file's; short only by the server's word; the next read goes on from the last |
| Log sink, glue, `cli/run.rs` | bounded bundle, two forwarders | push, evict, batch, retry, print | the bound; relayed batches; a page that goes away | bytes add up; forwarded once and in order, or counted |

**Building, serving, testing**

| Component | State | Operations | Hard behaviour | What makes it correct |
|---|---|---|---|---|
| Test harness, `macro/lib.rs`, `codegen/lib.rs`, `cli/run/test_runner.rs` | records in a section; cases of a command line | expand, link, read back, refuse, serve, run | separators in messages; mixed and unthreaded modules | what is declared is what is run |
| Test verdicts, glue, `cli/run/test_runner.rs` | pending count, verdict; runner's position | begin, pass, trap, poll, discard | several bodies in one page; a page that hangs | a pass means that all is done; the run ends |
| Local server, `cli/run.rs`, `cli/run/*` | one connection per thread | read, route, answer, echo | clients that stall or leave; ranges; fragmented frames | each request answered as its reader expects |
| Build command, `cli/build.rs` | files, temporaries, scratch directory | check, write, rename | a failure or a kill at any step; two builds | files are whole; nothing foreign is replaced |
| Browser pool, `cli/run/webdriver.rs` | slot files, lock, state file, driver, session | acquire, judge, start, drop, stop, watchdog | kills; two judges of one file; a look at a file and its removal; silent drivers | one owner per slot unless it is robbed; exits leave nothing; a signal ends a runner |
| Bencher, `crates/wasm_lite/src/bench.rs` | rounds, samples, published slot | calibrate, sample, publish | coarse clocks; a cold first call | calibration ends; what is published was measured |

Not modelled: section 7. How they interact: Mutex and RwLock wait by park and
unpark (threads) or by a wake pair (tasks), and spin on the main thread. Condvar
registers under its own lists and releases the caller's Mutex. The channel is a
queue under a Mutex with a Condvar. A task's wake pair wakes the executor of its
realm through the wake atom. A JoinHandle is a channel; a worker runs an executor
that is drained before teardown. Workers talk to the main realm by `postMessage`
only, and so do their timers and logs. A `JsFuture` is two closures of the
registry. The macros write what the code generator reads, and the harness what
the runner reads; the runner serves the page, drives it through a session of the
browser pool and polls its verdict.

## 2. Modules and how they correspond to the code

An action is one atomic access of shared memory, one callback of an event loop,
one system call or one message; a sequential computation between two of these is
one action. Two pairs of system calls are one action all the same, in `Browsers`: a
slot file is created and gets its pid, unless its runner is killed in between (a
reader in between finds it empty and too young to be dead), and a creation of the
lock that fails looks at the lock's age (what is old there has been so for ten
minutes). Looking at a pid, deciding by it and removing the file are three steps.
`TypeOK` of each module gives the types of its variables.

* **Promises to keep.** `AbstractLock`, `AbstractRwLock`, `AbstractParker`,
  `AbstractChannel`: what a component promises, with its progress, in a few lines.
* **`Mutex`** (refines `AbstractLock`). An actor is a thread or a task; `pc` is its
  place in the code. `BlockTry` and `BlockPush` are the two halves of the closure
  run under the list's spinlock; `Release`, `TakeSync`, `Unpark`, `TakeAsync`,
  `Wake` are `Guard::drop` and `did_unlock`.
* **`RwLock`** (refines `AbstractRwLock`): the same shape over the state word and
  four lists, `NextTurn` walking them in the code's order.
* **`Parker`** (refines `AbstractParker`): the compare-exchange, the wait on the
  address with its host queue, the store and the notify.
* **`Executor`**: one realm, its ticks taken apart at each access of the shared
  atoms, the notifiers of other threads, the worker's drain, traps, and the
  brackets of `task_begin` and `task_finished` that hold a worker open.
* **`Condvar`**: the steps of a wait and of a notify, without a client. It is a
  library: **`CondvarQueue`** EXTENDS it with consumers and producers behind a
  mutex, **`Mpsc`** (refines `AbstractChannel`) with the channel.
* **`Workers`**: the life of spawned threads, of their handles and storage, and
  the messages between the main realm and the workers. A thread's closure ends in
  a return, in a panic whose hook sends the verdict (`Panic`, `SendPanic`), or in a
  trap that no hook sees, an exception of an imported function or an abort
  (`Traps`): then both senders are leaked and no verdict comes.
* **`Timers`**: futures that own tokens, the registry all threads share, the root
  realm's map with its one timeout, and messages ordered per worker only.
  **`NativeTimers`**: the driver thread, its heap and its condition variable.
* **`Promises`**: awaited promises, each two closures at ids that the registry gives
  out again. **`PinnedFile`**: the file of the wasm-bindgen backend, whose operations
  share one position and wait, each, on the bridge of a task pinned elsewhere; a
  reader's two looks and its registration, and the task's store and wake, are steps.
* **`Suite`**: what the runner makes of a module (its tests, or else its benchmarks,
  then its own `main`; only `main` where there are neither, which
  `WASM_LITE_RUN_SECONDS` has watched for a time instead of judged: `Watch`, `Look`),
  its loop over these cases and the page of each, with bodies that are pending, panic
  or never end, and the verdict the page publishes.
* **`Closures`**: table, registries and the stack of nested calls; an action is
  one insertion, drop, call or return, and a call's frame keeps what the Rust
  frame owns.
* **`Abi`** (types and descriptor tags), **`Imports`**, **`Exports`**: one
  declaration from the macro through the descriptor to the generated function,
  and one call through it. Macro, codegen and call are successive phases, so that
  a disagreement between any two shows in the value that arrives. **`Interop`** does
  the same for `#[wasm_bindgen]` items expanded onto wasm_lite.
* **`WasmReader`**: the reader byte by byte over scaled bytes. **`Harness`**: the
  same road for tests, from the attribute to the page.
* **`RemoteFile`** (a byte is its offset, so wrong data shows): `Request`, `Respond`,
  `Chunk`, `EndBody` and `ReadMore` are one read's way, against every server that
  serves the file's bytes: the length it announces to `metadata`, the range and total
  of a 206, the total of a 416, and where a body ends may each be wrong, as the code
  takes them (`Responses`, `Lengths`). **`Server`** checks its answers against
  `RemoteFile`'s own validation. **`Logs`**.
* **`Browsers`**: `Release` and `Unlock` look at the pid, `Unlink` and `UnlinkLock`
  remove whatever is there by then; `Judge` reads a slot's pid, `Probe` decides
  (`SlotIsDead`: by the pid, or by age when there is none to look up, which is always
  so without a procfs), and `Remove` follows. **`Artifacts`**, **`Bencher`**.
* **`MCLocks`** (Mutex, Browsers), **`MCWakeups`** (Executor, CondvarQueue),
  **`MCMpsc`** (the channel between threads and between tasks),
  **`MCHost`** (Workers, Timers, NativeTimers, Promises, PinnedFile, Suite),
  **`MCPage`** (Parker, Closures, RemoteFile, Logs) and **`MCServer`** (Server), which
  there are theorems about, and **`MCGlue`**, which EXTENDS both with Imports, Exports,
  Interop, WasmReader, Harness, Artifacts and Bencher and takes its inputs from
  **`MCInputs`**: the instances, the fairness, and the properties that need it.
  `condvar_*` run `CondvarQueue` and `rwlock` runs `RwLock` itself. `*Proofs`: the
  theorems; the server's are in `LocksProofs`, with those of the runners.

*Side by side.* Components that share no state are checked in one run: a variable
`part`, chosen initially, names the one whose steps the behaviour takes, and the
others stay as they are. The run's states are the sum of the components', and a
property speaks of the component that moves.

*Composition is by layers.* `Parker` justifies the park token used in `Mutex`,
`RwLock` and `Condvar`; `Executor` the wake pair; `Mutex` the one-step critical
sections of `Condvar`, `CondvarQueue` and `Mpsc`; `Mpsc` the join channel of
`Workers`; `Closures` the registry ids of `Promises`; `RemoteFile` is the client
of `Server`; `Suite` is what the pages answer to the cases that `Harness` starts.

*Three abstractions recur.* Lists are sets where the order of waiting does not
matter to a property: popping any element over-approximates popping the last.
Spinlocks are merged with the access they protect; a lock that stays held over
two accesses is modelled as held. Memory is sequentially consistent: the flags
are written and read with acquire and release orders, and where a failed try is
followed by a registration both happen under the list's spinlock, whose acquire
and release order them against the unlocker's.

## 3. Runs

| Run | Shows |
|---|---|
| `locks` | `MutualExclusion`, `NoSleepOnFreeLock`, `AsyncQueueExact`, `VerdictIsTheClocks`, `ImplementsLock` with progress, and `CallsReturn`: timed calls although a holder keeps its guard, all calls when guards are dropped. Two runners: `SlotsAndLockKept` (one owner per slot but for those who were robbed, who rob in turn only between a look and a removal; clean exits) and `RunnersEnd` (signalled ones end, waiting ones are served) |
| `wakeups` | `SleepsWakeably`, `OneTickChain`, `TasksAccounted`, `TasksComplete`, `WorkerOfPartCloses` of the executor; `ItemsReachSleepers` of the condition variable |
| `executor_panic` | *violation*: after a panic in a spawned task the worker never closes |
| `rwlock` | `Exclusion`, `NoSleepWhenAvailable`, `ImplementsRwLock`, `AllCallsReturn` |
| `condvar_safety` | `NoLeakedEntry`, `NoLostNotify` |
| `condvar_dropped` | *violation*: a dropped, already woken future takes its notification with it |
| `mpsc` | `DisconnectedIsFinal`, `NoStuckReceiver`, `ImplementsChannel` |
| `host` | Workers: `StorageInUse`, `OneTrueVerdict`, `WorkersJoined`. Timers: `TimersOnTime`, `SleepEnds`. Promises and the pinned file: `AwaitsAreAnswered`. Test runner: `PassMeansAllDone`, `RunEnds` |
| `promises_reuse` | *violation*: a promise settles a future that is not its own |
| `suite_overturned` | *violation*: a page's failure is overwritten by a pass |
| `glue` | `ClosuresExact`, `DataIsTheFiles`, `ReadsContinue`, `LogsExact`, `BindingsExact` (the macros and the attribute of wasm-bindgen), `HarnessExact` (reader, harness, build, bencher), `ServerExact`, `NoSleepOverToken`, `ImplementsParker` |
| `imports_u64` | *violation*: an optional `u64` of the upper half arrives negative |

Each property of a passing run has a mutant, a plausible bug of the mapped code
placed next to the definition it replaces, for which TLC reports the property
violated in that run.

### Findings

* `executor_panic` (glue:645): `__wl_tick` catches the trap of a panicking task,
  but `RUNNING` stays set, so `__wl_executor_idle` never answers true and the
  bootstrap's drain loop polls for ever; its comment promises teardown at once.
* `condvar_dropped` (`std/condvar/notify.rs:63`): `wait_async` passes a
  notification on when it times out, but not when the caller drops the future
  after it was woken and before it is polled; `notify_one` promises to stop at
  the first waiter it actually delivers to.
* `promises_reuse` (`crates/wasm_lite/src/closure.rs:48`): dropping a `JsFuture`
  frees its two closure ids while JavaScript's callbacks keep them; the next
  future gets the ids, and the old promise settles it. `future.rs:74` says the
  callbacks become no-ops.
* `suite_overturned` (glue:293): `__wl_test_pass` publishes a pass when the count
  reaches zero even if a failure is already published, so a `main` that traps
  after starting async bodies is reported as passing; the comment says that a
  test can never pass by default.
* `imports_u64` (`codegen/generate/shim.rs:87`): the shim reinterprets a `u64`
  argument, but not an `Option<u64>`; `descriptor.rs:154` says it must.

Met while modelling and too small for a run: an RwLock's unlock wakes every
waiting writer where a comment of `lock_block_write` says one (harmless, the
losers register again); a `mixed` module lists benchmarks that it never runs
(`cli/run/test_runner.rs:118`; the comment at 213 has both reachable); a runner whose
slot or lock is taken between its look at the pid and its removal removes its
successor's (`cli/run/webdriver.rs:665` and 767, whose comments say that it is not to:
`evictors` in `Browsers`); a trap that is no panic sends no verdict, so its joiner
waits for ever (`Traps`), where a comment says that the failure is routed to any
joiner (glue:636); a `read_all` answers less than there is, and succeeds, after a 416
or a short 200, and one tried again after a failure skips the pieces it had
(`std/fs/wasm.rs:414`), where `std/fs/mod.rs:116` says through the end of the file;
`lines()` drops a trailing `\r` of an
expected panic message; `--test-threads 1` leaves `1` as a name filter; the
benchmark page's verdict can be seen before its measurement is published;
`cli/build.rs:250` leaves a temporary file when a later one cannot be created; a
runner signalled while its driver starts may leave that driver
(`cli/run/webdriver.rs:389`); dropping a closure that owns another one inside the
registry's borrow brings the instance down (`dead` in `Closures`); a sleep that is
over and kept while the 32-bit token counter goes round cancels, when it is dropped,
the timer that has its token by then (`std/sleep.rs:150`, the hypothesis of
`TimersKeepTime`); and operations of one remote file that overlap (`std/fs/wasm.rs:317`
and its twin) read bytes twice and leave the position short, of which nothing is
promised: what holds is that none skips a byte (`NothingSkipped`).

### Instances and bounds, and why they are enough

* `locks`: one parking thread, the main thread and a task, a call each; two
  runners, a limit of up to 2 browsers, one kill, and no signals where there is no
  procfs (`SignalsBound`). `rwlock`: two parking threads
  and a task. Two contenders and an unlocker meet at every race the hazards name:
  each lies between one registration and one wake. A stale token of an earlier
  call is subsumed by the spurious return every park may make.
* `condvar_*`: three waiters of the three strategies (two tasks in
  `condvar_dropped`) and two producers, a call each; `wakeups` one thread, one
  task, one producer. `Waits`, the pool of wake pairs, is never empty when needed.
* `mpsc`: a receiver and two handles, two sends (one between tasks), two receives:
  both handles can drop around any receive, and one can be cloned back.
* `wakeups`: three tasks, one spawned inside a poll, two that may trap, one
  bracket (none in `executor_panic`).
* `host`: two spawned threads, both of which may panic or trap and one fail to start, and two storage
  blocks, so that a worker blocks on a thread it has only just asked for and
  storage passes from one thread to the other; two sleeps of up to two legs
  (durations 0 and 3, host maximum 2) over 6 tokens, one more than they can use;
  three native timers of durations 0, 1, 3; two awaited promises (three in
  `promises_reuse`); two overlapping operations of a pinned file of two bytes, over
  two tasks, whose server cuts, compresses, refuses and shifts ranges (wrong lengths
  and wrong 416 totals are `RemoteFile`'s); three modules (tests beside a benchmark
  and a `main`, benchmarks and a `main`, `main` alone), every command line, up to two
  bodies and one poll before the deadline.
* `glue`: two unparkers, three parks; three closures, two of one arity, nesting
  to depth 2, a table of 6; a file of three bytes, announced as any shorter length or
  as one byte more; records of sizes 1 and 2 in a
  bundle of 3 bytes; every declaration and function the types allow, over integers
  of 2 to 5 bits, each with its extreme values; small modules whole, spoilt in any
  one byte and cut anywhere; modules of up to two tests or benchmarks with every
  attribute, link and command line; two connections; two builds and a kill
  anywhere; clocks of several grains with `MAX_ITERS` scaled to 300.

What the proofs cover (section 4) does not rest on these bounds.

### Fairness, and why the code justifies it

Weak fairness on the steps of an actor that is running: hosts run threads, event
loops run callbacks that are due and promises that are settled, clocks advance.
No fairness on starting a call, dropping a future, a spurious return, a panic, a
kill, a start failure, an answer of a driver or of a server.

`CallsReturn` carries its hypotheses in itself: that guards are dropped in the
end (`GuardsAreDropped`), and for the timed calls that the spinlock of the thread
list is not taken past one thread for ever (`SpinlockIsFair`; the spinlock is not
a queue). In `wakeups` and `mpsc` the mutex goes to somebody, which is the
progress that `locks` checks. `WorkerOfPartCloses` supposes that brackets stop
being opened. In `host` closures end, the clock, timeouts and message ports of a
page go on, and the runner goes on, whose own deadline ends a page that hangs.
`WorkersJoined` excuses from returning only the joins of a thread that is lost
(`Lost`): one that failed to start or trapped without a panic, whose joiner does
wait for ever (the glue records the failure for the test runner), or one blocked in
the join of a lost one. Every other join returns and every other thread's storage
comes back, but for a thread whose task panicked, as in `executor_panic`.
`RunnersEnd` supposes that tests end only for the runners that wait for another's
slot (`TestsEnd`), and nothing of the drivers.

Deadlock is checked in `locks`, `rwlock`, `condvar_*` and `mpsc`, where a system
that stops has to say why (`Stuck` and its like). The others switch it off: a
realm that is drained and closed, a run that has ended, a file that is read and a
call that has returned really stop.

## 4. What is proved

For every value of the constants, from the named assumptions (`MutexAssumption`
and its like: the kinds of actor are disjoint, bounds are naturals, for the
counts of `CondvarQueue` and `RwLock` that the actors are finitely many, and for
the compositions that their components' bounds are naturals: `RunnersAssumption`,
`HostAssumption`, `FileAssumption`, by which a file is no longer than the largest
position; that what a module declares are tests and benchmarks: `ModulesAssumption`;
that closures are finitely many, each of one
of the arities, with a value table whose indices stay below the high bit:
`ClosureAssumption`; that a log record that is not refused fits in the bundle:
`LogsAssumption`; and of the server that its clients follow HTTP and WebSocket, as
browsers do (they say how long a body is, and continue a message only while one is
open), and that files have paths of plain names: `ServerAssumption`).

| Module | Theorems |
|---|---|
| `LocksProofs` | `Invariance`, `TypeCorrect`, `MutexExcludes` (`MutualExclusion`), `NoLostWakeup` (`NoSleepOnFreeLock`), `NoStaleWaiter` (`AsyncQueueExact`), `VerdictHolds` (`VerdictIsTheClocks`), `MutexRefines` (each step is one of `AbstractLock` or a stutter); `SlotsStay` (`SlotsAndLockKept`); `ServerStaysExact` (`ServerExact`) |
| `RwLockProofs` | `Invariance`, `RwLockTypes`, `RwLockExcludes` (`Exclusion`), `NoLostWakeup` (`NoSleepWhenAvailable`), `RwLockRefines` (each step is one of `AbstractRwLock` or a stutter) |
| `GlueProofs` | `ParkerTypes`, `NeverSleepsOverToken` (`NoSleepOverToken`), `ParkerRefines`; `DataArrives` (`DataIsTheFiles`), `PositionFollows` (`ReadsContinue`); `ClosuresInvariance`, `ClosuresStayExact` (`ClosuresExact`); `LogsStayExact` (`LogsExact`) |
| `CondvarProofs`, `CondvarQueueProofs` | `QueueInvariance`, `QueueTypes`, `NoEntryLeaks` (`NoLeakedEntry`), `NoneIsLost` (`NoLostNotify`, where no woken future is dropped) |
| `ExecutorProofs` | `ExecutorInvariance`, `ExecutorTypes`, `OneChain` (`OneTickChain`), `NoWakeIsLost` (`SleepsWakeably`), `TasksAreKept` (`TasksAccounted`) |
| `MpscProofs` | `MpscInvariance`, `MpscTypes`, `LastWord` (`DisconnectedIsFinal`), `NoneIsStuck` (`NoStuckReceiver`), `MpscRefines` (each step is one of `AbstractChannel` or a stutter) |
| `HostProofs` | `WorkersInvariance`, `WorkersTypes`, `StorageIsKept` (`StorageInUse`), `VerdictIsTrue` (`OneTrueVerdict`), `WorkersOnHost`; `TimersKeepTime` (`TimersOnTime`), `DriverKeepsTime`, `AwaitsGetAnswers` (`AwaitsAreAnswered`), `PassIsEarned` (`PassMeansAllDone`) |

*The locks.* Exclusion and types are inductive almost as they stand, but "nobody
sleeps on a free lock" is not: a state in which a sleeper is in no list, with no
unlocker at work, satisfies everything else. The strengthening names, for each
sleeper, who will wake it: it has its token, or it is in a list, or it is in the
hands of an unlocker (`ParkedIsKnown`, `AwaitingIsKnown`); and a list that is not
empty, or whose spinlock a registering actor holds, is covered by a held lock or
by an unlocker that has not taken the list yet (`SyncCovered`, `AsyncCovered`).
The step where this could fail is the registration after a failed try, and there
the spinlock (`SpinHeld`) keeps the unlocker out. `VerdictHolds` is an action
property: a try that gives up does so after its deadline, because an actor at its
last try is late (`LateTry`) and the clock never goes back. `RwLockRefines` maps an
actor to the phase its place in the code belongs to; what the abstract lock allows
when a try succeeds is what the word allowed, because the word counts the holders.

*The runners.* `OneOwner` has two parts. That a runner which was not robbed has its
file is inductive once the types are, because every step that removes a file of
another records who was robbed. That a robbed one removes no successor's, unless it
was robbed between its look and its removal (`late`), needs that what a runner is
about to remove is its own when it was not robbed since it looked (`AboutOK`).
`ExitsClean` is not: it says what a runner leaves at its last step, which depends on
all it did before. The invariant (`IInv` of `Browsers`) follows a runner that was not
ended from outside: at each place of its way the slots and the lock that name it are
the ones it has there (`FilesOK`), its driver is one that it still has a step to kill
or that it may leave behind (`DriverOK`), and it is on the way of its own mode
(`PlaceOK`).

*The condition variable.* `CondvarProofs` shows, one lemma per kind of step, that
`CondInv` is preserved whatever client the library has; its two clients cite it.
Its core is that each entry belongs to the wait that made it (`EntriesMatch`): a
wait leaves with its entry gone. `NoneIsLost` counts. A sleeper's `Helpers` are
the consumers sure to test and the notifiers on their way to the list that holds
its entry, and `SleepersCovered` says that there are at least as many as items. A
producer brings an item and becomes a helper of every sleeper; a notifier that
pops an entry makes its owner a helper in its place; a wait that timed out after
it was notified becomes a notifier; a consumer goes to sleep only with the lock
held and no item; a helper is lost only with the item it takes. The one step that
breaks this is the drop of a woken future, which is `condvar_dropped`.

*The channel.* For `DisconnectedIsFinal` the sender count is the number of live
handles. For `NoStuckReceiver` (`WakeInv`) a handle that is being dropped has
still to notify, and does so under the lock under which the receiver registers.
For `MpscRefines` the queue is what was pushed and not yet taken, a receive asks
from its call to its answer, and a wait that gave up is on its way to say so
(`GaveUpLast`): no step inside a wait or a notify shows.

*The executor.* `OneTickChain` is part of the invariant. For `SleepsWakeably`:
while the wake atom is the value the tick read before it polled, every task it
has polled has a bump to come that will find its waker (`TickCovered`), and the
executor falls asleep only on that value (`SleepCovered`).

*The workers.* Storage is owned by stage of the life of a thread (`HeapExact`),
each message is in one mail and a completion is the last word of its sender
(`MailExact`), the join channel's count of senders and its verdict follow the
stage and how the closure ended (`ChannelExact`: both senders stay, and nothing is
sent, after a trap that no hook saw), and so do the handles (`HandlesExact`).

*The host.* `HostProofs` proves the rest of `host` over `HostSpec`, the composition
itself: each step of the host is a step of one component and a stutter of the
others (`HostStepParts`), so each invariant, the `IInv` of its module, is proved of
its component and carried over. The five are invariants of TLC's instance too.

* Timers. `TokensOnce` is not inductive: an arm message may meet a cancellation that
  overtook it, and a fire a token that was handed out again. The strengthening says
  where each token is (`Registered`: its arm message under way, or its deadline at
  the root, never both), that each is armed by one message (`ArmedOnce`), that every
  message under way and every registered token is older than the counter, that no
  cancellation is under way for a sleep that waits (`SleepOK`), and that the delay of
  its leg, wherever it is, and what remains make up the time it has to go (`InTime`). `TimersKeepTime` supposes that the
  counter has not gone round (`next # 0`, which it is before the 2^32nd token): after
  that a cancellation may be under way for the token of another sleep.
* The native driver: the alarm of a sleeping driver is no later than any pending
  deadline, and a wake that has left the heap is in the driver's hand.
* Promises: the two callbacks of a future sit at ids of their own, in neither list
  of free ids, so a settling reaches the future that sleeps.
* The pinned file: a reader that waits owns its request's task (`OwnJob`), whose
  bridge holds its waker whenever it sleeps; what lies before the place a request
  started from was handed out by somebody before (`ReaderOK`), however operations
  overlap, which is `NothingSkipped`. `RangeAnswers` shows that every answer the
  checks accept carries the file's bytes from the place asked for.
* The test runner: it has a result for each case that it left, in order, and the
  page's verdict is a pass only when its count is zero and its entry has run. Where it
  watches for a time instead, what it reads in the end is that no failure is there
  (`unfailed`), and that is only ever so of a module without tests and benchmarks.

*The parker.* The owner joins the wait queue only in the step that sees a token of
0, and whoever sets the token afterwards has a notify to do.

*The remote file.* `DataIsTheFiles` speaks of finished reads only; the strengthening
(`IInv` of `RemoteFile`, an invariant of TLC's instance as well) follows one through
its requests. What `read_all` has so far is a run of the file from its start up to
the position (`OpOK`); of the request in flight, the bytes kept are a run from the
position, the body's next byte is the one after what was kept and what is still to
be skipped, nothing is kept while bytes are to be skipped, and no more is wanted
than the range that the checks of its headers let through (`BodyOK`). A short body
of a 206, whose headers say how long it is, is therefore noticed. A body that ignores
the range says nothing that the code checks, and a 416's total is only compared with
the position: either may be short, and then it ends a read, and a `read_all`, early
and with success. What holds is that the data is the file's all the same and that the
end is where that last response put it (`by`, `end` of what an operation answers).
`PositionFollows` comes from the same steps: a read that fails or is dropped has not
moved the position, while a `read_all` has moved it past each piece it received
(`std/fs/wasm.rs:414`) and throws these away, so that one tried again begins after
them.

*The closures.* `ClosuresExact` compares a registry and a table, whole, with what the
crate holds. Its invariant (`IInv` of `Closures`) says for each slot what its status
is, which follows from its closure's state and from whether that runs; that the free
list names the empty slots, once each; that each index of the value table has one
owner, a handle of the crate, an argument or a result under way, or the free list;
that no closure is on the stack of calls twice; and that what is held and what is
passed are disjoint. The step where this could fail is the drop of a closure that
runs: its slot stays taken until the call returns, which `Occupant` and
`SlotChanges` follow. A count over the table (`TableCounts`) is then a count of
owners.

*The logs.* The bundle holds the newest records with their exact total, which stays
within the bound because eviction makes room before a record enters
(`EvictMakesRoom`). For each forwarder what was printed, what a request carries and
what waits are three runs of one increasing line (`Line`), and a record leaves its
end of the line for the next only (`JoinsTheLine`, `TakesOff`, `Lands`), so none is
printed twice or out of order, also when requests fail. A total
is a recursive function; `TotalIs` and what follows are proved by induction on the
length (`SetInduction`, from the well-founded order of the naturals).

*The server.* What a client sends is one line of tokens (`Tokens`), and the invariant
(`ServerInvariant`) says of each connection, at each place of its way, what the prefix
it has taken has made of it (`ConnOK`): the request is of the headers so far and the
body a prefix of the client's, short only if its length was cut or the client left
(`Reading`); a frame is in the pieces that were taken (`Framing`); the message under
way is what the frames from its last start come to, with that start's opcode
(`Collected`), and what was echoed is the replies to the frames that were read
(`Echoed`). An answer is `Answer` of the request that stays with the connection, so
the properties of answers are lemmas about `Answer` (`AnswerIs`, `FoundIs`,
`RangeAnswer`); a batch was printed by the step that ended its connection
(`BatchesOK`). Frames put together are a recursive function in the library, which
`FlattenIs` gives a value by induction on the length.

Only model-checked: liveness and the progress parts of the refinements (beyond the
prover), and of `glue` `BindingsExact` and `HarnessExact`. These two, the reader of
modules included, compare what an expansion, a parse or a conversion yields with
what was declared, over all declarations at once: their proofs would be
enumerations of the same cases that TLC enumerates, or inductions over strings of
bytes through several recursive operators.

## 5. Hazards

`PROJECT.json` lists the code's hazards at their lines with the properties that
cover them.

## 6. What could come next

A second realm in `Executor`.

## 7. Not modelled

* Native `block_on`, hooks and diagnostics: `block_on`'s flag is the token protocol
  of `Parker` on a standard condition variable; the rest are registries under one
  lock that no protocol reads. `stdlib.rs` is the standard library renamed.
* The unthreaded backend: the executor without shared memory has no other thread
  to race; it is the sequential part of `Executor`.
* Browser API wrappers: thin bindings, the state is the browser's.
* wasm-bindgen interoperation: `backend-wasm-bindgen`'s adapter, which re-exports
  names; of the shim on wasm_lite (`Interop`), the generics of a binding and
  `throw_str`.
  Read and not modelled: a free function whose first parameter is named `this` is
  taken for a method; a callback called with fewer arguments than it declares
  panics; a callback borrowed by a shim is dropped at the end of the shim, which an
  exception of an infallible import skips.
* Of the modelled parts: the text of errors, of generated code and of log records;
  the native `File` (`std::fs` on a blocking pool); the WebSocket handshake's
  digest; JSON and HTTP of the WebDriver protocol; a file that somebody writes
  between the check and the rename of a build; the panic at 2^31 - 1 readers of an
  RwLock; pid reuse; memory weaker than sequential consistency.
