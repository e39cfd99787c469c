------------------------------- MODULE Mutex -------------------------------
(* The adaptive mutex of wasm_lite_std: one atomic flag (data_lock) and two   *)
(* spinlock-protected waiter lists, one of thread handles and one of          *)
(* AsyncWake halves.  An actor is a thread or an async task; each runs up to  *)
(* MaxOps lock calls, holds the guard, and drops it.                          *)
(*                                                                            *)
(* The step size is one atomic access of shared memory, except that           *)
(*  - taking a list's spinlock is merged with the first access it protects,   *)
(*    and releasing it with the last (spinlock.rs: nothing else is protected  *)
(*    by it), so SyncSpin/asyncSpin is visible only across a failed try_lock; *)
(*  - a future's decision to resolve is merged with the drop of its           *)
(*    RegisteredWait: the decision is stable (WOKEN is final, clocks do not   *)
(*    run backwards) and nobody reads the cancelled half's state.             *)
(* park / unpark are the token protocol that Parker.tla refines; the one-shot *)
(* wake pair is taken apart, waker and all, in Executor.tla.                   *)
EXTENDS Naturals

CONSTANTS Threads,   \* actors that are OS threads or web workers
          Tasks,     \* actors that are async tasks
          CanPark,   \* the threads that may block: not the browser main thread
          Waits,     \* pool of AsyncWake/AsyncWait allocations
          MaxOps,    \* lock calls per actor
          None       \* no spinlock holder, no wait

ASSUME MutexAssumption ==
    /\ Threads \cap Tasks = {}
    /\ CanPark \subseteq Threads
    /\ MaxOps \in Nat
    /\ None \notin Threads \cup Tasks \cup Waits

Actors == Threads \cup Tasks

VARIABLES
    data_lock,   \* the AtomicBool
    syncSpin,    \* who holds the spinlock of waiting_sync_threads
    syncList,    \* waiting_sync_threads: handles, deduplicated on push
    asyncSpin,   \* who holds the spinlock of waiting_async_threads
    asyncList,   \* waiting_async_threads
    pc,          \* where each actor is
    deadline,    \* "none" for an untimed call, else "ahead" or "passed"
    token,       \* each thread's park token
    unparks,     \* handles an unlocker took and has still to unpark
    wakes,       \* AsyncWake halves an unlocker took and has still to wake
    wait,        \* the AsyncWait half a task awaits
    wstate,      \* the AtomicU8 shared by the two halves
    ops          \* lock calls made

vars == <<data_lock, syncSpin, syncList, asyncSpin, asyncList, pc, deadline,
          token, unparks, wakes, wait, wstate, ops>>

syncVars  == <<syncSpin, syncList>>
asyncVars == <<asyncSpin, asyncList>>
waitVars  == <<wait, wstate>>
wakeVars  == <<unparks, wakes>>

PCs == {"idle", "spin", "block", "push", "park", "async", "apush", "await",
        "last", "holding", "take_sync", "unpark", "wake"}

TypeOK ==
    /\ data_lock \in BOOLEAN
    /\ syncSpin \in Threads \cup {None}
    /\ syncList \subseteq CanPark
    /\ asyncSpin \in Tasks \cup {None}
    /\ asyncList \subseteq Waits
    /\ pc \in [Actors -> PCs]
    /\ deadline \in [Actors -> {"none", "ahead", "passed"}]
    /\ token \in [Threads -> BOOLEAN]
    /\ unparks \in [Actors -> SUBSET CanPark]
    /\ wakes \in [Actors -> SUBSET Waits]
    /\ wait \in [Tasks -> Waits \cup {None}]
    /\ wstate \in [Waits -> {"waiting", "woken", "canceled"}]
    /\ ops \in [Actors -> 0..MaxOps]

Init ==
    /\ data_lock = FALSE
    /\ syncSpin = None  /\ syncList = {}
    /\ asyncSpin = None /\ asyncList = {}
    /\ pc = [a \in Actors |-> "idle"]
    /\ deadline = [a \in Actors |-> "none"]
    /\ token = [t \in Threads |-> FALSE]
    /\ unparks = [a \in Actors |-> {}]
    /\ wakes = [a \in Actors |-> {}]
    /\ wait = [t \in Tasks |-> None]
    /\ wstate = [w \in Waits |-> "canceled"]
    /\ ops = [a \in Actors |-> 0]

Goto(a, p) == pc' = [pc EXCEPT ![a] = p]

\* The call is over: its deadline parameter is gone.
Return(a, p) == Goto(a, p) /\ deadline' = [deadline EXCEPT ![a] = "none"]

\* The compare_exchange of try_lock, the swap of lock_spin: the flag was clear,
\* this actor set it, and the call returns a guard.
Acquire(a) == ~data_lock /\ data_lock' = TRUE /\ Return(a, "holding")

(***************************************************************************)
(* Calls.  The deadline of a timed call is some instant: it may be already *)
(* in the past when the call begins.                                       *)
(***************************************************************************)

Call(a, p, ds) ==
    /\ pc[a] = "idle" /\ ops[a] < MaxOps
    /\ ops' = [ops EXCEPT ![a] = @ + 1]
    /\ \E d \in ds : deadline' = [deadline EXCEPT ![a] = d]
    /\ Goto(a, p)
    /\ UNCHANGED <<data_lock, syncVars, asyncVars, token, wakeVars, waitVars>>

\* try_lock called by anyone: take the flag or return NotAvailable.
TryLock(a) ==
    /\ pc[a] = "idle" /\ ops[a] < MaxOps
    /\ ops' = [ops EXCEPT ![a] = @ + 1]
    /\ \/ Acquire(a)
       \/ data_lock /\ UNCHANGED <<data_lock, pc, deadline>>
    /\ UNCHANGED <<syncVars, asyncVars, token, wakeVars, waitVars>>

LockSpin(t)         == t \in Threads /\ Call(t, "spin", {"none"})
LockSpinTimeout(t)  == t \in Threads /\ Call(t, "spin", {"ahead", "passed"})
LockBlock(t)        == t \in CanPark /\ Call(t, "block", {"none"})
LockBlockTimeout(t) == t \in CanPark /\ Call(t, "block", {"ahead", "passed"})
LockAsync(t)        == t \in Tasks /\ Call(t, "async", {"none"})
LockAsyncTimeout(t) == t \in Tasks /\ Call(t, "async", {"ahead", "passed"})

\* lock_sync blocks where Atomics.wait is allowed and spins where it is not.

LockSync(t)        == IF t \in CanPark THEN LockBlock(t) ELSE LockSpin(t)
LockSyncTimeout(t) == IF t \in CanPark THEN LockBlockTimeout(t)
                                       ELSE LockSpinTimeout(t)

Begin(a) == \/ TryLock(a)
            \/ LockSpin(a) \/ LockSpinTimeout(a)
            \/ LockSync(a) \/ LockSyncTimeout(a)
            \/ LockBlock(a) \/ LockBlockTimeout(a)
            \/ LockAsync(a) \/ LockAsyncTimeout(a)

\* The clock reaches the deadline of a call that has not returned.
DeadlinePasses(a) ==
    /\ deadline[a] = "ahead"
    /\ pc[a] \in {"spin", "block", "push", "park", "async", "apush", "await"}
    /\ deadline' = [deadline EXCEPT ![a] = "passed"]
    /\ UNCHANGED <<data_lock, syncVars, asyncVars, pc, token, wakeVars,
                   waitVars, ops>>

(***************************************************************************)
(* lock_spin: swap until the old value was false.  A timed call reads the  *)
(* clock only after a swap that failed.                                    *)
(***************************************************************************)

SpinSwap(t) ==
    /\ pc[t] = "spin"
    /\ Acquire(t)
    /\ UNCHANGED <<syncVars, asyncVars, token, wakeVars, waitVars, ops>>

SpinGiveUp(t) ==
    /\ pc[t] = "spin" /\ data_lock /\ deadline[t] = "passed"
    /\ Return(t, "idle")
    /\ UNCHANGED <<data_lock, syncVars, asyncVars, token, wakeVars, waitVars, ops>>

\* Mutant: a waiter that was woken takes the lock to be its own.
LastTryAssumes(a) ==
    /\ pc[a] = "last"
    /\ data_lock' = TRUE /\ Return(a, "holding")
    /\ UNCHANGED <<syncVars, asyncVars, token, wakeVars, waitVars, ops>>

\* "Try one last time": the call returns with the lock or without it.
LastTry(a) ==
    /\ \/ pc[a] = "last"
       \/ pc[a] \in {"block", "async"} /\ deadline[a] = "passed"
    /\ \/ Acquire(a)
       \/ data_lock /\ Return(a, "idle") /\ UNCHANGED data_lock
    /\ UNCHANGED <<syncVars, asyncVars, token, wakeVars, waitVars, ops>>

(***************************************************************************)
(* lock_block: try_lock and, when that fails, push the caller's handle,    *)
(* both under the spinlock of the list; park outside it; try again.  The   *)
(* timed form also removes its handle after park_timeout.                  *)
(***************************************************************************)

\* Mutant: the handle is pushed after the spinlock was released and retaken.
BlockTryUnguarded(t) ==
    /\ pc[t] = "block" /\ deadline[t] # "passed" /\ syncSpin = None
    /\ \/ Acquire(t)
       \/ data_lock /\ UNCHANGED <<data_lock, deadline>> /\ Goto(t, "push")
    /\ UNCHANGED <<syncVars, asyncVars, token, wakeVars, waitVars, ops>>

BlockTry(t) ==
    /\ pc[t] = "block" /\ deadline[t] # "passed"
    /\ syncSpin = None
    /\ \/ Acquire(t) /\ UNCHANGED syncSpin
       \/ /\ data_lock /\ UNCHANGED <<data_lock, deadline>>
          /\ syncSpin' = t
          /\ Goto(t, "push")
    /\ UNCHANGED <<syncList, asyncVars, token, wakeVars, waitVars, ops>>

BlockPush(t) ==
    /\ pc[t] = "push"
    /\ syncList' = syncList \cup {t}
    /\ syncSpin' = None
    /\ Goto(t, "park")
    /\ UNCHANGED <<data_lock, asyncVars, deadline, token, wakeVars, waitVars, ops>>

\* Leaving park: lock_block goes round the loop; lock_block_timeout first
\* retains every handle but its own.
Unparked(t) ==
    /\ \/ deadline[t] = "none" /\ UNCHANGED syncList
       \/ deadline[t] # "none" /\ syncSpin = None /\ syncList' = syncList \ {t}
    /\ Goto(t, "block")
    /\ UNCHANGED <<data_lock, syncSpin, asyncVars, deadline, wakeVars, waitVars, ops>>

ParkToken(t) ==
    /\ pc[t] = "park" /\ token[t]
    /\ token' = [token EXCEPT ![t] = FALSE]
    /\ Unparked(t)

ParkTimesOut(t) ==
    /\ pc[t] = "park" /\ deadline[t] = "passed"
    /\ UNCHANGED token
    /\ Unparked(t)

\* park may return for no reason; nothing may depend on it doing so.
ParkSpurious(t) ==
    /\ pc[t] = "park"
    /\ UNCHANGED token
    /\ Unparked(t)

(***************************************************************************)
(* lock_async: the same registration with an AsyncWake half, then await.   *)
(***************************************************************************)

AsyncTry(t) ==
    /\ pc[t] = "async" /\ deadline[t] # "passed"
    /\ asyncSpin = None
    /\ \/ Acquire(t) /\ UNCHANGED asyncSpin
       \/ /\ data_lock /\ UNCHANGED <<data_lock, deadline>>
          /\ asyncSpin' = t
          /\ Goto(t, "apush")
    /\ UNCHANGED <<syncVars, asyncList, token, wakeVars, waitVars, ops>>

\* An allocation is reusable once neither half of it is referenced.
Unreferenced(w) ==
    /\ w \notin asyncList
    /\ \A a \in Actors : w \notin wakes[a]
    /\ \A t \in Tasks : wait[t] # w

AsyncPush(t) ==
    /\ pc[t] = "apush"
    /\ \E w \in Waits :
         /\ Unreferenced(w)
         /\ asyncList' = asyncList \cup {w}
         /\ wait' = [wait EXCEPT ![t] = w]
         /\ wstate' = [wstate EXCEPT ![w] = "waiting"]
    /\ asyncSpin' = None
    /\ Goto(t, "await")
    /\ UNCHANGED <<data_lock, syncVars, deadline, token, wakeVars, ops>>

\* Mutant: a dropped wait stays queued.
DropWaitInQueue(t) ==
    /\ wstate' = [wstate EXCEPT ![wait[t]] = IF @ = "waiting" THEN "canceled" ELSE @]
    /\ wait' = [wait EXCEPT ![t] = None]
    /\ UNCHANGED <<data_lock, syncVars, asyncVars, token, wakeVars, ops>>

\* Dropping RegisteredWait: retain the other entries, then cancel the pair
\* unless it was already woken.
DropWait(t) ==
    /\ asyncSpin = None
    /\ asyncList' = asyncList \ {wait[t]}
    /\ wstate' = [wstate EXCEPT ![wait[t]] = IF @ = "waiting" THEN "canceled" ELSE @]
    /\ wait' = [wait EXCEPT ![t] = None]
    /\ UNCHANGED <<data_lock, syncVars, asyncSpin, token, wakeVars, ops>>

\* Mutant: the notification is polled before the clock.
AwaitWokenFirst(t) ==
    /\ pc[t] = "await" /\ wstate[wait[t]] = "woken"
    /\ DropWait(t)
    /\ Goto(t, "async") /\ UNCHANGED deadline

\* The deadline is authoritative: a notification counts only before it.
AwaitWoken(t) ==
    /\ pc[t] = "await" /\ wstate[wait[t]] = "woken" /\ deadline[t] # "passed"
    /\ DropWait(t)
    /\ Goto(t, "async") /\ UNCHANGED deadline

AwaitTimedOut(t) ==
    /\ pc[t] = "await" /\ deadline[t] = "passed"
    /\ DropWait(t)
    /\ Goto(t, "last") /\ UNCHANGED deadline

\* The caller drops the future while it is pending.
AwaitCancelled(t) ==
    /\ pc[t] = "await"
    /\ DropWait(t)
    /\ Return(t, "idle")

(***************************************************************************)
(* Dropping the guard: clear the flag, then did_unlock: take the thread    *)
(* list and unpark every handle, take the task list and wake every half.   *)
(***************************************************************************)

Release(a) ==
    /\ pc[a] = "holding"
    /\ data_lock' = FALSE
    /\ Goto(a, "take_sync")
    /\ UNCHANGED <<syncVars, asyncVars, deadline, token, wakeVars, waitVars, ops>>

TakeSync(a) ==
    /\ pc[a] = "take_sync" /\ syncSpin = None
    /\ unparks' = [unparks EXCEPT ![a] = syncList]
    /\ syncList' = {}
    /\ Goto(a, "unpark")
    /\ UNCHANGED <<data_lock, syncSpin, asyncVars, deadline, token, wakes,
                   waitVars, ops>>

Unpark(a) ==
    /\ pc[a] = "unpark"
    /\ \E t \in unparks[a] :
         /\ token' = [token EXCEPT ![t] = TRUE]
         /\ unparks' = [unparks EXCEPT ![a] = @ \ {t}]
    /\ UNCHANGED <<data_lock, syncVars, asyncVars, pc, deadline, wakes,
                   waitVars, ops>>

\* Mutant: only threads are woken.
TakeAsyncForgotten(a) ==
    /\ pc[a] = "unpark" /\ unparks[a] = {}
    /\ Goto(a, "wake")
    /\ UNCHANGED <<data_lock, syncVars, asyncVars, deadline, token, wakeVars,
                   waitVars, ops>>

TakeAsync(a) ==
    /\ pc[a] = "unpark" /\ unparks[a] = {} /\ asyncSpin = None
    /\ wakes' = [wakes EXCEPT ![a] = asyncList]
    /\ asyncList' = {}
    /\ Goto(a, "wake")
    /\ UNCHANGED <<data_lock, syncVars, asyncSpin, deadline, token, unparks,
                   waitVars, ops>>

Wake(a) ==
    /\ pc[a] = "wake"
    /\ \E w \in wakes[a] :
         /\ wstate' = [wstate EXCEPT ![w] = IF @ = "waiting" THEN "woken" ELSE @]
         /\ wakes' = [wakes EXCEPT ![a] = @ \ {w}]
    /\ UNCHANGED <<data_lock, syncVars, asyncVars, pc, deadline, token, unparks,
                   wait, ops>>

Unlocked(a) ==
    /\ pc[a] = "wake" /\ wakes[a] = {}
    /\ Goto(a, "idle")
    /\ UNCHANGED <<data_lock, syncVars, asyncVars, deadline, token, wakeVars,
                   waitVars, ops>>

(***************************************************************************)
(* The specification.                                                      *)
(***************************************************************************)

Locking(t) ==
    \/ SpinSwap(t) \/ SpinGiveUp(t) \/ LastTry(t)
    \/ BlockTry(t) \/ BlockPush(t) \/ ParkToken(t) \/ ParkTimesOut(t)

Awaiting(t) ==
    AsyncTry(t) \/ AsyncPush(t) \/ AwaitWoken(t) \/ AwaitTimedOut(t)

Unlocking(a) ==
    TakeSync(a) \/ Unpark(a) \/ TakeAsync(a) \/ Wake(a) \/ Unlocked(a)

\* Every call has returned and every guard is dropped.
Finished ==
    /\ \A a \in Actors : pc[a] = "idle" /\ ops[a] = MaxOps
    /\ UNCHANGED vars

Next ==
    \/ \E a \in Actors : Begin(a) \/ DeadlinePasses(a) \/ LastTry(a)
                         \/ Release(a) \/ Unlocking(a)
    \/ \E t \in Threads : Locking(t) \/ ParkSpurious(t)
    \/ \E t \in Tasks : Awaiting(t) \/ AwaitCancelled(t)
    \/ Finished

Spec == Init /\ [][Next]_vars

(***************************************************************************)
(* Safety properties.                                                      *)
(***************************************************************************)

\* Mutual exclusion: at most one actor holds a guard, and data_lock is set
\* exactly while one does (try_lock, lock_spin, Guard::drop).
MutualExclusion ==
    /\ \A a, b \in Actors : pc[a] = "holding" /\ pc[b] = "holding" => a = b
    /\ data_lock <=> \E a \in Actors : pc[a] = "holding"

\* No lost wake-up: while the lock is free and no unlocker is still working
\* through did_unlock, nobody sleeps: a parked thread has its token and an
\* awaiting task has been woken.
NoSleepOnFreeLock ==
    (~data_lock /\ \A a \in Actors : pc[a] \notin {"take_sync", "unpark", "wake"})
    => /\ \A t \in Threads : pc[t] = "park" => token[t]
       /\ \A t \in Tasks : pc[t] = "await" => wstate[wait[t]] = "woken"

\* RegisteredWait leaves nothing behind: every queued AsyncWake belongs to a
\* task that is awaiting it and has not been woken.
AsyncQueueExact ==
    \A w \in asyncList : \E t \in Tasks :
        pc[t] = "await" /\ wait[t] = w /\ wstate[w] = "waiting"

(***************************************************************************)
(* The inductive invariant: who guarantees that each sleeper is woken.     *)
(***************************************************************************)

\* A list's spinlock is held exactly by an actor between its failed try_lock
\* and its push; threads and tasks keep to their own waiting protocol.
SpinHeld ==
    /\ \A t \in Threads : /\ pc[t] \notin {"async", "apush", "await"}
                          /\ pc[t] = "push" <=> syncSpin = t
                          /\ pc[t] \in {"block", "push", "park"} => t \in CanPark
    /\ \A t \in Tasks : /\ pc[t] \notin {"spin", "block", "push", "park"}
                        /\ pc[t] = "apush" <=> asyncSpin = t

\* Whoever is registered, or about to be, is registered against a lock that is
\* held or against an unlocker that has not taken the list yet.
SyncCovered ==
    syncSpin # None \/ syncList # {}
    => data_lock \/ \E a \in Actors : pc[a] = "take_sync"
AsyncCovered ==
    asyncSpin # None \/ asyncList # {}
    => data_lock \/ \E a \in Actors : pc[a] \in {"take_sync", "unpark"}

\* Only the loops of did_unlock hold taken entries, and an entry is queued or
\* taken, never both.
TakenByUnlocker ==
    \A a \in Actors : /\ unparks[a] # {} => pc[a] = "unpark"
                      /\ wakes[a] # {} => pc[a] = "wake"
                      /\ wakes[a] \cap asyncList = {}

\* A sleeper was woken, is queued, or is in some unlocker's hands.
ParkedIsKnown ==
    \A t \in Threads : pc[t] = "park" =>
        token[t] \/ t \in syncList \/ \E a \in Actors : t \in unparks[a]
AwaitingIsKnown ==
    \A t \in Tasks :
        /\ pc[t] = "await" =>
             /\ wait[t] \in Waits
             /\ \/ wstate[wait[t]] = "woken"
                \/ /\ wstate[wait[t]] = "waiting"
                   /\ wait[t] \in asyncList \/ \E a \in Actors : wait[t] \in wakes[a]
        /\ pc[t] # "await" => wait[t] = None
        /\ \A u \in Tasks : wait[t] = wait[u] /\ wait[t] # None => t = u

IInv == /\ TypeOK /\ MutualExclusion /\ SpinHeld
        /\ SyncCovered /\ AsyncCovered /\ TakenByUnlocker
        /\ ParkedIsKnown /\ AwaitingIsKnown /\ AsyncQueueExact

(***************************************************************************)
(* The abstract lock this implements.                                      *)
(***************************************************************************)

Phase(p) ==
    CASE p = "holding" -> "in"
      [] p \in {"spin", "block", "push", "park", "async", "apush", "await", "last"}
           -> "asking"
      [] OTHER -> "out"

Asking(a) == Phase(pc[a]) = "asking"
LockState == [a \in Actors |-> Phase(pc[a])]

Abstract == INSTANCE AbstractLock WITH st <- LockState

=============================================================================
