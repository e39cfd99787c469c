------------------------------ MODULE RwLock ------------------------------
(* The adaptive reader-writer lock of wasm_lite_std: one state word (a       *)
(* reader count or the writer bit) and four spinlock-protected waiter lists, *)
(* thread handles and AsyncWake halves for each of the two kinds.  Step size *)
(* and the treatment of the spinlocks, of park and of the wake pair are      *)
(* those of Mutex.tla.  Unlike the mutex, the lists are not deduplicated and *)
(* a dropped future leaves its AsyncWake queued.                             *)
(*                                                                           *)
(* The code panics when 2^31 - 1 guards are out at once; here every actor    *)
(* holds at most one guard, so that count is out of reach.                   *)
EXTENDS Naturals, FiniteSets

CONSTANTS Threads, Tasks,   \* the actors: threads, and async tasks
          CanPark,          \* the threads that may block
          Waits,            \* pool of AsyncWake/AsyncWait allocations
          MaxOps,           \* lock calls per actor
          None

ASSUME RwLockAssumption ==
    /\ Threads \cap Tasks = {} /\ IsFiniteSet(Threads \cup Tasks)
    /\ CanPark \subseteq Threads
    /\ MaxOps \in Nat
    /\ None \notin Threads \cup Tasks \cup Waits

Actors == Threads \cup Tasks
Kinds  == {"read", "write"}

VARIABLES
    writer,     \* the LOCKED_WRITE bit of data_lock
    readers,    \* the reader count of data_lock
    syncSpin, syncList,     \* per kind: waiting_sync_{read,write}_threads
    asyncSpin, asyncList,   \* per kind: waiting_async_{read,write}_threads
    pc,         \* where each actor is
    kind,       \* what its call asks for, or its guard is
    turn,       \* the kind whose waiters an unlocker is waking
    token,      \* each thread's park token
    unparks,    \* handles an unlocker took and has still to unpark
    wakes,      \* AsyncWake halves an unlocker took and has still to wake
    wait,       \* the AsyncWait half a task awaits
    wstate,     \* the AtomicU8 shared by the two halves
    ops         \* lock calls made

vars == <<writer, readers, syncSpin, syncList, asyncSpin, asyncList, pc, kind,
          turn, token, unparks, wakes, wait, wstate, ops>>

wordVars  == <<writer, readers>>
syncVars  == <<syncSpin, syncList>>
asyncVars == <<asyncSpin, asyncList>>
waitVars  == <<wait, wstate>>
wakeVars  == <<unparks, wakes>>

PCs == {"idle", "spin", "block", "push", "park", "async", "apush", "await",
        "holding", "take_sync", "unpark", "wake"}

TypeOK ==
    /\ writer \in BOOLEAN /\ readers \in Nat
    /\ syncSpin \in [Kinds -> Threads \cup {None}]
    /\ syncList \in [Kinds -> SUBSET CanPark]
    /\ asyncSpin \in [Kinds -> Tasks \cup {None}]
    /\ asyncList \in [Kinds -> SUBSET Waits]
    /\ pc \in [Actors -> PCs]
    /\ kind \in [Actors -> Kinds] /\ turn \in [Actors -> Kinds]
    /\ token \in [Threads -> BOOLEAN]
    /\ unparks \in [Actors -> SUBSET CanPark]
    /\ wakes \in [Actors -> SUBSET Waits]
    /\ wait \in [Tasks -> Waits \cup {None}]
    /\ wstate \in [Waits -> {"waiting", "woken", "canceled"}]
    /\ ops \in [Actors -> 0..MaxOps]

Init ==
    /\ writer = FALSE /\ readers = 0
    /\ syncSpin = [k \in Kinds |-> None] /\ syncList = [k \in Kinds |-> {}]
    /\ asyncSpin = [k \in Kinds |-> None] /\ asyncList = [k \in Kinds |-> {}]
    /\ pc = [a \in Actors |-> "idle"]
    /\ kind = [a \in Actors |-> "read"] /\ turn = [a \in Actors |-> "read"]
    /\ token = [t \in Threads |-> FALSE]
    /\ unparks = [a \in Actors |-> {}] /\ wakes = [a \in Actors |-> {}]
    /\ wait = [t \in Tasks |-> None]
    /\ wstate = [w \in Waits |-> "canceled"]
    /\ ops = [a \in Actors |-> 0]

Goto(a, p) == pc' = [pc EXCEPT ![a] = p]

\* try_lock_read fails on the writer bit, try_lock_write on anything.
Available(k) == ~writer /\ (k = "write" => readers = 0)

\* Mutant: a writer only minds writers.
AcquireOverReaders(a, k) ==
    /\ ~writer
    /\ IF k = "read" THEN readers' = readers + 1 /\ UNCHANGED writer
                     ELSE writer' = TRUE /\ UNCHANGED readers
    /\ Goto(a, "holding")

Acquire(a, k) ==
    /\ Available(k)
    /\ IF k = "read" THEN readers' = readers + 1 /\ UNCHANGED writer
                     ELSE writer' = TRUE /\ UNCHANGED readers
    /\ Goto(a, "holding")

(***************************************************************************)
(* Calls.                                                                  *)
(***************************************************************************)

Count(a, k) ==
    /\ pc[a] = "idle" /\ ops[a] < MaxOps
    /\ ops' = [ops EXCEPT ![a] = @ + 1]
    /\ kind' = [kind EXCEPT ![a] = k]
    /\ UNCHANGED <<turn, syncVars, asyncVars, token, wakeVars, waitVars>>

\* try_lock_read, try_lock_write: take the word or return NotAvailable.
TryLock(a, k) ==
    /\ Count(a, k)
    /\ \/ Acquire(a, k)
       \/ ~Available(k) /\ UNCHANGED <<wordVars, pc>>

Call(a, k, p) == Count(a, k) /\ Goto(a, p) /\ UNCHANGED wordVars

LockSpin(t, k)  == t \in Threads /\ Call(t, k, "spin")
LockBlock(t, k) == t \in CanPark /\ Call(t, k, "block")
LockAsync(t, k) == t \in Tasks /\ Call(t, k, "async")

\* lock_sync_* blocks where Atomics.wait is allowed and spins where it is not.
LockSync(t, k) == IF t \in CanPark THEN LockBlock(t, k) ELSE LockSpin(t, k)

Begin(a) ==
    \E k \in Kinds : \/ TryLock(a, k) \/ LockSpin(a, k) \/ LockBlock(a, k)
                     \/ LockAsync(a, k) \/ LockSync(a, k)

(***************************************************************************)
(* Acquiring: spin on the try; or try and push under the list's spinlock,  *)
(* then sleep and start over.                                              *)
(***************************************************************************)

SpinTry(t) ==
    /\ pc[t] = "spin"
    /\ Acquire(t, kind[t])
    /\ UNCHANGED <<syncVars, asyncVars, kind, turn, token, wakeVars, waitVars, ops>>

\* Mutant: the handle is pushed after the spinlock was released and retaken.
BlockTryUnguarded(t) ==
    /\ pc[t] = "block"
    /\ syncSpin[kind[t]] = None
    /\ \/ Acquire(t, kind[t])
       \/ ~Available(kind[t]) /\ UNCHANGED wordVars /\ Goto(t, "push")
    /\ UNCHANGED <<syncVars, asyncVars, kind, turn, token, wakeVars, waitVars, ops>>

BlockTry(t) ==
    /\ pc[t] = "block"
    /\ syncSpin[kind[t]] = None
    /\ \/ Acquire(t, kind[t]) /\ UNCHANGED syncSpin
       \/ /\ ~Available(kind[t]) /\ UNCHANGED wordVars
          /\ syncSpin' = [syncSpin EXCEPT ![kind[t]] = t]
          /\ Goto(t, "push")
    /\ UNCHANGED <<syncList, asyncVars, kind, turn, token, wakeVars, waitVars, ops>>

BlockPush(t) ==
    /\ pc[t] = "push"
    /\ syncList' = [syncList EXCEPT ![kind[t]] = @ \cup {t}]
    /\ syncSpin' = [syncSpin EXCEPT ![kind[t]] = None]
    /\ Goto(t, "park")
    /\ UNCHANGED <<wordVars, asyncVars, kind, turn, token, wakeVars, waitVars, ops>>

ParkToken(t) ==
    /\ pc[t] = "park" /\ token[t]
    /\ token' = [token EXCEPT ![t] = FALSE]
    /\ Goto(t, "block")
    /\ UNCHANGED <<wordVars, syncVars, asyncVars, kind, turn, wakeVars, waitVars, ops>>

\* park may return for no reason; nothing may depend on it doing so.
ParkSpurious(t) ==
    /\ pc[t] = "park"
    /\ Goto(t, "block")
    /\ UNCHANGED <<wordVars, syncVars, asyncVars, kind, turn, token, wakeVars,
                   waitVars, ops>>

AsyncTry(t) ==
    /\ pc[t] = "async"
    /\ asyncSpin[kind[t]] = None
    /\ \/ Acquire(t, kind[t]) /\ UNCHANGED asyncSpin
       \/ /\ ~Available(kind[t]) /\ UNCHANGED wordVars
          /\ asyncSpin' = [asyncSpin EXCEPT ![kind[t]] = t]
          /\ Goto(t, "apush")
    /\ UNCHANGED <<syncVars, asyncList, kind, turn, token, wakeVars, waitVars, ops>>

\* An allocation is reusable once neither half of it is referenced.
Unreferenced(w) ==
    /\ \A k \in Kinds : w \notin asyncList[k]
    /\ \A a \in Actors : w \notin wakes[a]
    /\ \A t \in Tasks : wait[t] # w

AsyncPush(t) ==
    /\ pc[t] = "apush"
    /\ \E w \in Waits :
         /\ Unreferenced(w)
         /\ asyncList' = [asyncList EXCEPT ![kind[t]] = @ \cup {w}]
         /\ wait' = [wait EXCEPT ![t] = w]
         /\ wstate' = [wstate EXCEPT ![w] = "waiting"]
    /\ asyncSpin' = [asyncSpin EXCEPT ![kind[t]] = None]
    /\ Goto(t, "await")
    /\ UNCHANGED <<wordVars, syncVars, kind, turn, token, wakeVars, ops>>

\* Dropping the AsyncWait half cancels the pair unless it was already woken.
DropWait(t) ==
    /\ wstate' = [wstate EXCEPT ![wait[t]] = IF @ = "waiting" THEN "canceled" ELSE @]
    /\ wait' = [wait EXCEPT ![t] = None]
    /\ UNCHANGED <<wordVars, syncVars, asyncVars, kind, turn, token, wakeVars, ops>>

AwaitWoken(t) ==
    /\ pc[t] = "await" /\ wstate[wait[t]] = "woken"
    /\ DropWait(t)
    /\ Goto(t, "async")

\* The caller drops the future while it is pending; its half stays queued.
AwaitCancelled(t) ==
    /\ pc[t] = "await"
    /\ DropWait(t)
    /\ Goto(t, "idle")

(***************************************************************************)
(* Dropping a guard: change the word, then wake.  A writer wakes the       *)
(* readers and then the writers, a reader only the writers.                *)
(***************************************************************************)

ReleaseRead(a) ==
    /\ pc[a] = "holding" /\ kind[a] = "read"
    /\ readers' = readers - 1
    /\ turn' = [turn EXCEPT ![a] = "write"]
    /\ Goto(a, "take_sync")
    /\ UNCHANGED <<writer, syncVars, asyncVars, kind, token, wakeVars, waitVars, ops>>

\* Mutant: a writer wakes only the writers.
ReleaseWriteToWriters(a) ==
    /\ pc[a] = "holding" /\ kind[a] = "write"
    /\ writer' = FALSE
    /\ turn' = [turn EXCEPT ![a] = "write"]
    /\ Goto(a, "take_sync")
    /\ UNCHANGED <<readers, syncVars, asyncVars, kind, token, wakeVars, waitVars, ops>>

ReleaseWrite(a) ==
    /\ pc[a] = "holding" /\ kind[a] = "write"
    /\ writer' = FALSE
    /\ turn' = [turn EXCEPT ![a] = "read"]
    /\ Goto(a, "take_sync")
    /\ UNCHANGED <<readers, syncVars, asyncVars, kind, token, wakeVars, waitVars, ops>>

TakeSync(a) ==
    /\ pc[a] = "take_sync" /\ syncSpin[turn[a]] = None
    /\ unparks' = [unparks EXCEPT ![a] = syncList[turn[a]]]
    /\ syncList' = [syncList EXCEPT ![turn[a]] = {}]
    /\ Goto(a, "unpark")
    /\ UNCHANGED <<wordVars, syncSpin, asyncVars, kind, turn, token, wakes,
                   waitVars, ops>>

Unpark(a) ==
    /\ pc[a] = "unpark"
    /\ \E t \in unparks[a] :
         /\ token' = [token EXCEPT ![t] = TRUE]
         /\ unparks' = [unparks EXCEPT ![a] = @ \ {t}]
    /\ UNCHANGED <<wordVars, syncVars, asyncVars, pc, kind, turn, wakes, waitVars, ops>>

TakeAsync(a) ==
    /\ pc[a] = "unpark" /\ unparks[a] = {} /\ asyncSpin[turn[a]] = None
    /\ wakes' = [wakes EXCEPT ![a] = asyncList[turn[a]]]
    /\ asyncList' = [asyncList EXCEPT ![turn[a]] = {}]
    /\ Goto(a, "wake")
    /\ UNCHANGED <<wordVars, syncVars, asyncSpin, kind, turn, token, unparks,
                   waitVars, ops>>

Wake(a) ==
    /\ pc[a] = "wake"
    /\ \E w \in wakes[a] :
         /\ wstate' = [wstate EXCEPT ![w] = IF @ = "waiting" THEN "woken" ELSE @]
         /\ wakes' = [wakes EXCEPT ![a] = @ \ {w}]
    /\ UNCHANGED <<wordVars, syncVars, asyncVars, pc, kind, turn, token, unparks,
                   wait, ops>>

\* Mutant: a write unlock is over after the readers.
NextTurnOver(a) ==
    /\ pc[a] = "wake" /\ wakes[a] = {}
    /\ Goto(a, "idle") /\ UNCHANGED turn
    /\ UNCHANGED <<wordVars, syncVars, asyncVars, kind, token, wakeVars, waitVars, ops>>

\* The readers are woken: the writers' turn.  The writers are woken: done.
NextTurn(a) ==
    /\ pc[a] = "wake" /\ wakes[a] = {}
    /\ IF turn[a] = "read" THEN Goto(a, "take_sync") ELSE Goto(a, "idle")
    /\ turn' = [turn EXCEPT ![a] = "write"]
    /\ UNCHANGED <<wordVars, syncVars, asyncVars, kind, token, wakeVars, waitVars, ops>>

(***************************************************************************)
(* The specification.                                                      *)
(***************************************************************************)

Locking(t)   == SpinTry(t) \/ BlockTry(t) \/ BlockPush(t) \/ ParkToken(t)
Awaiting(t)  == AsyncTry(t) \/ AsyncPush(t) \/ AwaitWoken(t)
Release(a)   == ReleaseRead(a) \/ ReleaseWrite(a)
Unlocking(a) == TakeSync(a) \/ Unpark(a) \/ TakeAsync(a) \/ Wake(a) \/ NextTurn(a)

\* Every call has returned and every guard is dropped.
Finished ==
    /\ \A a \in Actors : pc[a] = "idle" /\ ops[a] = MaxOps
    /\ UNCHANGED vars

Next ==
    \/ \E a \in Actors : Begin(a) \/ Release(a) \/ Unlocking(a)
    \/ \E t \in Threads : Locking(t) \/ ParkSpurious(t)
    \/ \E t \in Tasks : Awaiting(t) \/ AwaitCancelled(t)
    \/ Finished

Spec == Init /\ [][Next]_vars

(***************************************************************************)
(* Safety properties.                                                      *)
(***************************************************************************)

Holding(k) == {a \in Actors : pc[a] = "holding" /\ kind[a] = k}

\* Readers exclude writers, a writer excludes everybody, and the state word
\* says exactly who is in: fetch_sub and swap on drop never see another value.
Exclusion ==
    /\ \A a \in Holding("write") : Holding("write") \cup Holding("read") = {a}
    /\ writer <=> Holding("write") # {}
    /\ readers = Cardinality(Holding("read"))

\* An actor is still going to take the lists of kind k.
Coming(k) == \E a \in Actors :
    /\ pc[a] \in {"take_sync", "unpark", "wake"}
    /\ turn[a] = k \/ turn[a] = "read"

\* No lost wake-up, kind by kind: when a call of kind k could succeed and no
\* unlocker is on its way to that kind's waiters, none of them sleeps.
NoSleepWhenAvailable ==
    \A k \in Kinds : Available(k) /\ ~Coming(k) =>
        \A a \in Actors : kind[a] = k =>
            /\ pc[a] = "park" => token[a]
            /\ pc[a] = "await" => wstate[wait[a]] = "woken"

(***************************************************************************)
(* The inductive invariant: who guarantees that each sleeper is woken.     *)
(***************************************************************************)

\* A list's spinlock is held exactly by an actor between its failed try and
\* its push; threads and tasks keep to their own waiting protocol.
SpinHeld ==
    /\ \A t \in Threads : /\ pc[t] \notin {"async", "apush", "await"}
                          /\ pc[t] \in {"block", "push", "park"} => t \in CanPark
                          /\ \A k \in Kinds :
                               syncSpin[k] = t <=> pc[t] = "push" /\ kind[t] = k
    /\ \A t \in Tasks : /\ pc[t] \notin {"spin", "block", "push", "park"}
                        /\ \A k \in Kinds :
                             asyncSpin[k] = t <=> pc[t] = "apush" /\ kind[t] = k

\* An unlocker is before the step in which it takes the given list.
ToTakeSync(k)  == \E a \in Actors :
    \/ pc[a] = "take_sync" /\ turn[a] = k
    \/ pc[a] \in {"take_sync", "unpark", "wake"} /\ turn[a] = "read" /\ k = "write"
ToTakeAsync(k) == \E a \in Actors :
    \/ pc[a] \in {"take_sync", "unpark"} /\ turn[a] = k
    \/ pc[a] \in {"take_sync", "unpark", "wake"} /\ turn[a] = "read" /\ k = "write"

\* Whoever is registered, or about to be, is registered against a word that
\* refuses its kind or against an unlocker that has not taken the list yet.
SyncCovered == \A k \in Kinds :
    syncSpin[k] # None \/ syncList[k] # {} => ~Available(k) \/ ToTakeSync(k)
AsyncCovered == \A k \in Kinds :
    asyncSpin[k] # None \/ asyncList[k] # {} => ~Available(k) \/ ToTakeAsync(k)

\* Only the loops of did_unlock_* hold taken entries.
TakenByUnlocker ==
    \A a \in Actors : /\ unparks[a] # {} => pc[a] = "unpark"
                      /\ wakes[a] # {} => pc[a] = "wake"

\* A sleeper was woken, is queued, or is in the hands of an unlocker that is
\* at its kind.
ParkedIsKnown ==
    \A t \in Threads : pc[t] = "park" =>
        \/ token[t] \/ t \in syncList[kind[t]]
        \/ \E a \in Actors : t \in unparks[a] /\ turn[a] = kind[t]
AwaitingIsKnown ==
    \A t \in Tasks :
        /\ pc[t] = "await" =>
             /\ wait[t] \in Waits
             /\ \/ wstate[wait[t]] = "woken"
                \/ /\ wstate[wait[t]] = "waiting"
                   /\ \/ wait[t] \in asyncList[kind[t]]
                      \/ \E a \in Actors : wait[t] \in wakes[a] /\ turn[a] = kind[t]
        /\ pc[t] # "await" => wait[t] = None
        /\ \A u \in Tasks : wait[t] = wait[u] /\ wait[t] # None => t = u

IInv == /\ TypeOK /\ Exclusion /\ SpinHeld
        /\ SyncCovered /\ AsyncCovered /\ TakenByUnlocker
        /\ ParkedIsKnown /\ AwaitingIsKnown
-----------------------------------------------------------------------------
\* The host runs every thread that can step and every woken task, and guards
\* are dropped; nothing is assumed of calls, cancellation and spurious returns.
FairSpec ==
    /\ Spec
    /\ \A a \in Actors : WF_vars(Unlocking(a)) /\ WF_vars(Release(a))
    /\ \A t \in Threads : WF_vars(Locking(t))
    /\ \A t \in Tasks : WF_vars(Awaiting(t))

Phase(p) == CASE p = "holding" -> "in"
              [] p \in {"spin", "block", "push", "park", "async", "apush", "await"} -> "asking"
              [] OTHER -> "out"
St == [a \in Actors |-> Phase(pc[a])]
Abstract == INSTANCE AbstractRwLock WITH st <- St, want <- kind

\* The lock implements the abstract read-preferring lock and its progress.
ImplementsRwLock == Abstract!RwLockSpec

\* With a bounded number of calls every call returns and every guard is dropped.
AllCallsReturn == \A a \in Actors : pc[a] # "idle" ~> pc[a] = "idle"
=============================================================================
