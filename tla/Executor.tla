------------------------------ MODULE Executor ------------------------------
(* The spawn_local executor of one JS realm (wasm/executor.rs) with the glue  *)
(* that drives it (__wl_schedule, __wl_wait_async, __wl_tick), and the        *)
(* AsyncWait/AsyncWake pairs its tasks wait on, woken by other threads.       *)
(*                                                                            *)
(* A task awaits one pair, its own, and completes; it may give the wait up    *)
(* first (a timeout, a cancelled branch) and may spawn its child, in the poll *)
(* that completes it.  The executor's own steps inside a tick are interleaved *)
(* with the wakers' at every access of the shared state: the wake atom, the   *)
(* AtomicU8 and the AtomicWaker of each pair.  AtomicWaker is external: it is *)
(* a slot that register fills and wake empties.                               *)
EXTENDS Naturals, Sequences, FiniteSets

CONSTANTS Tasks,     \* the tasks of this realm
          Roots,     \* the tasks spawned from outside a poll
          Child,     \* [task -> the task it spawns when it completes, or None]
          MayPanic,  \* the tasks whose poll may trap
          MaxPending, \* brackets of task_begin and task_finished open at once
          None

ASSUME ExecutorAssumption ==
    /\ Roots \subseteq Tasks
    /\ None \notin Tasks
    /\ Child \in [Tasks -> Tasks \cup {None}]
    /\ MayPanic \subseteq Tasks
    /\ MaxPending \in Nat

VARIABLES
    queue,      \* TASKS
    polling,    \* the tasks the tick took and has still to poll
    kept,       \* the polled tasks that are pending
    at,         \* where the tick is: "out", or its step for Head(polling)
    running,    \* RUNNING
    atom,       \* the wake atom
    expected,   \* the value of the atom the tick read, or sleeps on
    callback,   \* the next tick: "none", "scheduled", or "asleep" on waitAsync
    state,      \* the AtomicU8 of each task's pair
    waker,      \* the AtomicWaker of each pair holds a waker
    delivered,  \* what wake() returned to the notifier of each pair
    notifier,   \* where the thread that fires each pair is
    life,       \* each task: "unborn", "pending", "done", or "lost" in a trap
    pending,    \* PENDING_TASKS
    trapped,    \* a poll panicked: __wl_tick caught it and recorded a failure
    closed      \* the worker reported "done" and closed

vars == <<queue, polling, kept, at, running, atom, expected, callback, state,
          waker, delivered, notifier, life, pending, trapped, closed>>

tickVars == <<queue, polling, kept, at, running, expected>>
pairVars == <<state, waker, delivered, notifier>>
endVars  == <<pending, trapped, closed>>

TypeOK ==
    /\ queue \in Seq(Tasks) /\ polling \in Seq(Tasks) /\ kept \in Seq(Tasks)
    /\ at \in {"out", "load", "register", "recheck", "ready"}
    /\ running \in BOOLEAN
    /\ atom \in Nat /\ expected \in Nat
    /\ callback \in {"none", "scheduled", "asleep"}
    /\ state \in [Tasks -> {"waiting", "woken", "canceled"}]
    /\ waker \in [Tasks -> BOOLEAN]
    /\ delivered \in [Tasks -> {"unknown", "yes", "no"}]
    /\ notifier \in [Tasks -> {"idle", "wake", "bump", "notify", "over"}]
    /\ life \in [Tasks -> {"unborn", "pending", "done", "lost"}]
    /\ pending \in 0..MaxPending
    /\ trapped \in BOOLEAN /\ closed \in BOOLEAN

Init ==
    /\ queue = <<>> /\ polling = <<>> /\ kept = <<>>
    /\ at = "out"
    /\ running = FALSE
    /\ atom = 0 /\ expected = 0
    /\ callback = "none"
    /\ state = [k \in Tasks |-> "waiting"]
    /\ waker = [k \in Tasks |-> FALSE]
    /\ delivered = [k \in Tasks |-> "unknown"]
    /\ notifier = [k \in Tasks |-> "idle"]
    /\ life = [k \in Tasks |-> "unborn"]
    /\ pending = 0
    /\ trapped = FALSE /\ closed = FALSE

\* The tasks the tick took out of TASKS.
Taken == {(polling \o kept)[i] : i \in 1..Len(polling \o kept)}

\* memory.atomic.notify on the atom resolves the realm's waitAsync promise.
Notified(c) == IF c = "asleep" THEN "scheduled" ELSE c

(***************************************************************************)
(* spawn_local: queue the task; wake the executor if it is running, and    *)
(* schedule its first tick otherwise.                                      *)
(***************************************************************************)

\* Mutant: every spawn schedules a tick.
PushAndSchedule(k) ==
    /\ life[k] = "unborn"
    /\ queue' = Append(queue, k)
    /\ running' = TRUE /\ callback' = "scheduled"
    /\ UNCHANGED atom

Push(k) ==
    /\ life[k] = "unborn"
    /\ queue' = Append(queue, k)
    /\ running' = TRUE
    /\ IF running THEN /\ atom' = atom + 1
                       /\ callback' = Notified(callback)
                  ELSE /\ callback' = "scheduled"
                       /\ UNCHANGED atom

\* From the entry function or any other event-loop callback of this realm.
SpawnLocal(k) ==
    /\ k \in Roots /\ at = "out" /\ ~closed
    /\ Push(k)
    /\ life' = [life EXCEPT ![k] = "pending"]
    /\ UNCHANGED <<polling, kept, at, expected, pairVars, endVars>>

(***************************************************************************)
(* One tick.  The wake counter is read before any task is polled.          *)
(***************************************************************************)

TickBegin ==
    /\ callback = "scheduled" /\ at = "out" /\ ~closed
    /\ callback' = "none"
    /\ expected' = atom
    /\ polling' = queue /\ queue' = <<>> /\ kept' = <<>>
    /\ at' = "load"
    /\ UNCHANGED <<running, atom, pairVars, life, endVars>>

\* AsyncWait::poll loads the state, registers the waker, loads it again.
PollLoad ==
    /\ at = "load" /\ polling # <<>>
    /\ at' = IF state[Head(polling)] = "woken" THEN "ready" ELSE "register"
    /\ UNCHANGED <<queue, polling, kept, running, atom, expected, callback,
                   pairVars, life, endVars>>

PollRegister ==
    /\ at = "register"
    /\ waker' = [waker EXCEPT ![Head(polling)] = TRUE]
    /\ at' = "recheck"
    /\ UNCHANGED <<queue, polling, kept, running, atom, expected, callback,
                   state, delivered, notifier, life, endVars>>

\* Mutant: the state is not loaded again after the waker is registered.
PollNoRecheck ==
    /\ at = "recheck"
    /\ kept' = Append(kept, Head(polling))
    /\ polling' = Tail(polling)
    /\ at' = "load"
    /\ UNCHANGED <<queue, running, atom, expected, callback, pairVars, life, endVars>>

PollRecheck ==
    /\ at = "recheck"
    /\ IF state[Head(polling)] = "woken"
       THEN at' = "ready" /\ UNCHANGED <<polling, kept>>
       ELSE /\ kept' = Append(kept, Head(polling))
            /\ polling' = Tail(polling)
            /\ at' = "load"
    /\ UNCHANGED <<queue, running, atom, expected, callback, pairVars, life, endVars>>

\* The task drops its wait unresolved and goes on: the pair is cancelled.
PollGiveUp ==
    /\ at = "load" /\ polling # <<>>
    /\ state[Head(polling)] = "waiting"
    /\ state' = [state EXCEPT ![Head(polling)] = "canceled"]
    /\ at' = "ready"
    /\ UNCHANGED <<queue, polling, kept, running, atom, expected, callback,
                   waker, delivered, notifier, life, endVars>>

\* The rest of the poll: spawn the child, if any, and return Ready.
PollReady ==
    /\ at = "ready"
    /\ LET k == Head(polling) IN
         IF Child[k] = None
         THEN /\ life' = [life EXCEPT ![k] = "done"]
              /\ UNCHANGED <<queue, running, atom, callback>>
         ELSE /\ Push(Child[k])
              /\ life' = [life EXCEPT ![k] = "done", ![Child[k]] = "pending"]
    /\ polling' = Tail(polling)
    /\ at' = "load"
    /\ UNCHANGED <<kept, expected, pairVars, endVars>>

\* A panic traps: the frames unwind with no destructor, so the tick never puts
\* the taken tasks back, never sleeps and never clears RUNNING.
PollPanic ==
    /\ at = "ready" /\ Head(polling) \in MayPanic
    /\ trapped' = TRUE
    /\ at' = "out" /\ polling' = <<>> /\ kept' = <<>>
    /\ life' = [k \in Tasks |-> IF k \in Taken THEN "lost" ELSE life[k]]
    /\ UNCHANGED <<queue, running, atom, expected, callback, pairVars, pending, closed>>

\* Mutant: tasks spawned during the tick are overwritten.
TickEndOverwrites ==
    /\ at = "load" /\ polling = <<>>
    /\ at' = "out" /\ queue' = kept /\ kept' = <<>>
    /\ IF kept = <<>>
       THEN running' = FALSE /\ UNCHANGED callback
       ELSE /\ callback' = IF atom = expected THEN "asleep" ELSE "scheduled"
            /\ UNCHANGED running
    /\ UNCHANGED <<polling, atom, expected, pairVars, life, endVars>>

\* Mutant: the executor sleeps on the atom's present value.
TickEndLate ==
    /\ at = "load" /\ polling = <<>>
    /\ at' = "out" /\ queue' = kept \o queue /\ kept' = <<>>
    /\ IF kept \o queue = <<>>
       THEN running' = FALSE /\ UNCHANGED callback
       ELSE callback' = "asleep" /\ UNCHANGED running
    /\ UNCHANGED <<polling, atom, expected, pairVars, life, endVars>>

\* Mutant: RUNNING is left set.
TickEndRunning ==
    /\ at = "load" /\ polling = <<>>
    /\ at' = "out" /\ queue' = kept \o queue /\ kept' = <<>>
    /\ callback' = IF kept \o queue = <<>> THEN "none"
                   ELSE IF atom = expected THEN "asleep" ELSE "scheduled"
    /\ UNCHANGED <<polling, running, atom, expected, pairVars, life, endVars>>

\* Still-pending tasks go ahead of the newly spawned ones.  With none left
\* RUNNING is cleared; otherwise Atomics.waitAsync compares the atom with the
\* value read before polling and sleeps, or ticks again if it has moved.
TickEnd ==
    /\ at = "load" /\ polling = <<>>
    /\ at' = "out"
    /\ queue' = kept \o queue /\ kept' = <<>>
    /\ IF kept \o queue = <<>>
       THEN running' = FALSE /\ UNCHANGED callback
       ELSE /\ callback' = IF atom = expected THEN "asleep" ELSE "scheduled"
            /\ UNCHANGED running
    /\ UNCHANGED <<polling, atom, expected, pairVars, life, endVars>>

(***************************************************************************)
(* AsyncWake::wake on another thread: claim the pair, take the registered  *)
(* waker and, if there was one, bump the atom and notify.                  *)
(***************************************************************************)

Claim(k) ==
    /\ notifier[k] = "idle" /\ life[k] # "unborn"
    /\ IF state[k] = "waiting"
       THEN /\ state' = [state EXCEPT ![k] = "woken"]
            /\ delivered' = [delivered EXCEPT ![k] = "yes"]
            /\ notifier' = [notifier EXCEPT ![k] = "wake"]
       ELSE /\ delivered' = [delivered EXCEPT ![k] = "no"]
            /\ notifier' = [notifier EXCEPT ![k] = "over"]
            /\ UNCHANGED state
    /\ UNCHANGED <<tickVars, atom, callback, waker, life, endVars>>

TakeWaker(k) ==
    /\ notifier[k] = "wake"
    /\ waker' = [waker EXCEPT ![k] = FALSE]
    /\ notifier' = [notifier EXCEPT ![k] = IF waker[k] THEN "bump" ELSE "over"]
    /\ UNCHANGED <<tickVars, atom, callback, state, delivered, life, endVars>>

Bump(k) ==
    /\ notifier[k] = "bump"
    /\ atom' = atom + 1
    /\ notifier' = [notifier EXCEPT ![k] = "notify"]
    /\ UNCHANGED <<tickVars, callback, state, waker, delivered, life, endVars>>

Notify(k) ==
    /\ notifier[k] = "notify"
    /\ callback' = Notified(callback)
    /\ notifier' = [notifier EXCEPT ![k] = "over"]
    /\ UNCHANGED <<tickVars, atom, state, waker, delivered, life, endVars>>

\* Work outside the executor, bracketed by task_begin and task_finished in
\* callbacks of this realm, holds the worker open too.
TaskBegin ==
    /\ at = "out" /\ ~closed /\ pending < MaxPending
    /\ pending' = pending + 1
    /\ UNCHANGED <<tickVars, atom, callback, pairVars, life, trapped, closed>>

TaskFinished ==
    /\ at = "out" /\ pending > 0
    /\ pending' = pending - 1
    /\ UNCHANGED <<tickVars, atom, callback, pairVars, life, trapped, closed>>

(***************************************************************************)
(* The worker bootstrap polls __wl_executor_idle from a timer once the     *)
(* entry function, which spawns the roots, has returned.                   *)
(***************************************************************************)

Drained ==
    /\ ~closed /\ at = "out"
    /\ \A k \in Roots : life[k] # "unborn"
    /\ ~running /\ pending = 0
    /\ closed' = TRUE
    /\ UNCHANGED <<tickVars, atom, callback, pairVars, life, pending, trapped>>

Tick == \/ TickBegin \/ PollLoad \/ PollRegister \/ PollRecheck
        \/ PollReady \/ TickEnd
Wake(k) == TakeWaker(k) \/ Bump(k) \/ Notify(k)

Next ==
    \/ TaskBegin \/ TaskFinished
    \/ Tick \/ PollGiveUp \/ PollPanic \/ Drained
    \/ \E k \in Tasks : SpawnLocal(k) \/ Claim(k) \/ Wake(k)

Spec == Init /\ [][Next]_vars

(***************************************************************************)
(* Safety properties.                                                      *)
(***************************************************************************)

InTick == at # "out"
Held(k) == \E i \in 1..Len(queue \o polling \o kept) : (queue \o polling \o kept)[i] = k

\* No lost wake: while the executor sleeps, each task it holds has a live waker
\* registered, unless its notifier is still on the way to the notify.
SleepsWakeably ==
    callback = "asleep" =>
        \A k \in Tasks : Held(k) =>
            \/ state[k] = "waiting" /\ waker[k]
            \/ notifier[k] \in {"wake", "bump", "notify"}

\* One tick chain: exactly one of "a tick runs", "a tick is scheduled" and
\* "asleep" holds while RUNNING is set, and none while it is clear; RUNNING is
\* set exactly while the realm holds a task (so idle means drained).  A trap
\* ends the chain: RUNNING stays set and nothing ticks.
OneTickChain ==
    ~trapped =>
    /\ running <=> (InTick \/ callback # "none")
    /\ ~(InTick /\ callback # "none")
    /\ ~InTick => (running <=> queue # <<>>)

\* A pending task is held exactly once; a task that completed is not held.
TasksHeldOnce ==
    LET all == queue \o polling \o kept IN
    /\ \A i, j \in 1..Len(all) : all[i] = all[j] => i = j
    /\ \A k \in Tasks : Held(k) <=> life[k] = "pending"

\* A worker closes only when every task it was given has completed and every
\* bracket is closed: what was handed over outside a tick, by a spawn or a wake
\* whose callback is still queued, holds it open.
NoTaskAbandoned ==
    closed => pending = 0 /\ \A k \in Tasks : life[k] # "pending"

\* wake() tells the truth: it returned true iff the pair was resolved, not
\* cancelled (Condvar's notify_one moves on to another waiter on false).
WakeReports ==
    \A k \in Tasks : /\ delivered[k] = "yes" => state[k] = "woken"
                     /\ delivered[k] = "no" => state[k] = "canceled"

\* No task is lost or doubled, whoever spawns, wakes or traps: a worker that
\* closes has left none behind, and who woke one was told so.
TasksAccounted == TasksHeldOnce /\ NoTaskAbandoned /\ WakeReports

(***************************************************************************)
(* Why no wake is lost: the inductive invariant.                           *)
(***************************************************************************)

Elems(s) == {s[i] : i \in 1..Len(s)}
Distinct(s) == \A i, j \in 1..Len(s) : s[i] = s[j] => i = j

\* Each pending task is in one of the three lists, once.
ListsExact ==
    /\ Distinct(queue) /\ Distinct(polling) /\ Distinct(kept)
    /\ Elems(queue) \cap Elems(polling) = {}
    /\ Elems(queue) \cap Elems(kept) = {}
    /\ Elems(polling) \cap Elems(kept) = {}
    /\ \A k \in Tasks : life[k] = "pending" <=>
           k \in Elems(queue) \cup Elems(polling) \cup Elems(kept)

\* The tick holds tasks only while it runs, and has one in hand while it polls.
TickHolds ==
    /\ at = "out" => polling = <<>> /\ kept = <<>>
    /\ at \in {"register", "recheck", "ready"} => polling # <<>>
    /\ trapped => at = "out" /\ callback = "none" /\ running

\* A pair that waits has a notifier that did not start; a cancelled one is of a
\* task that is over, or about to be.
PairsFollow ==
    \A k \in Tasks :
      /\ state[k] = "waiting" => notifier[k] = "idle"
      /\ state[k] = "canceled" => \/ life[k] \in {"done", "lost"}
                                  \/ at = "ready" /\ k = Head(polling)

\* What a task that sleeps is woken by: a notifier that has still to come and
\* will find the waker, or one that is about to bump the atom.
WillBump(k) == \/ state[k] = "waiting" /\ waker[k]
               \/ notifier[k] = "wake" /\ waker[k]
               \/ notifier[k] = "bump"

\* While the atom is the one the tick read, no task was spawned since, and every
\* task it has polled has a bump to come; the executor falls asleep on that.
TickCovered ==
    at # "out" =>
      /\ expected <= atom
      /\ at = "recheck" /\ state[Head(polling)] = "waiting" => waker[Head(polling)]
      /\ expected = atom => queue = <<>> /\ \A k \in Elems(kept) : WillBump(k)
SleepCovered ==
    callback = "asleep" => \A k \in Elems(queue) : WillBump(k) \/ notifier[k] = "notify"

\* A closed worker has nothing left to run, and a pair is what its notifier was told.
EndsExact ==
    /\ closed => pending = 0 /\ ~running /\ at = "out"
    /\ \A k \in Tasks : state[k] = "woken" => notifier[k] # "idle"
    /\ WakeReports

IInv == /\ TypeOK /\ ListsExact /\ TickHolds /\ PairsFollow
        /\ TickCovered /\ SleepCovered /\ OneTickChain
=============================================================================
