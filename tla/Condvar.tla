------------------------------ MODULE Condvar ------------------------------
(* The condition variable of wasm_lite_std: three waiter lists, one per      *)
(* waiting strategy (spin flags, thread handles, AsyncWake halves), the      *)
(* waits that register in them, and notify_one and notify_all, which walk    *)
(* them.  Modules that use a condition variable (CondvarQueue, Mpsc) extend  *)
(* this one and say what the waiters wait for.                               *)
(*                                                                           *)
(* The mutex is its abstract lock: one holder, as Mutex.tla is shown to      *)
(* implement.  A with_mut of a list that only pushes, pops or takes is one   *)
(* step.  The lists are sets: an actor is registered at most once, and       *)
(* "unspecified which one" is woken.                                         *)
(*                                                                           *)
(* An actor enters with pc = "register" (guard held, condition false) or     *)
(* "spin_list" (a notify); it comes back at "test" or, from a wait that      *)
(* timed out, "timedout" (guard held), or at NotifyDone.                     *)
EXTENDS Naturals, FiniteSets

CONSTANTS Threads, Tasks,   \* the actors: threads, and async tasks
          CanPark,          \* the threads that may block in Atomics.wait
          Waits,            \* pool of AsyncWake/AsyncWait allocations
          None

Actors == Threads \cup Tasks

ASSUME CondvarAssumption ==
    /\ Threads \cap Tasks = {} /\ Waits \cap Threads = {}
    /\ CanPark \subseteq Threads
    /\ None \notin Actors \cup Waits

VARIABLES
    holder,     \* who holds the guard of the mutex
    spinList,   \* waiting_spin_threads
    flag,       \* each thread's current spin flag
    syncList,   \* waiting_sync_threads
    token,      \* each thread's park token
    asyncList,  \* waiting_async_threads
    wait,       \* the pair of a task's current wait
    wstate,     \* the AtomicU8 of each pair
    pc,         \* where each actor is
    how,        \* the strategy of its wait
    timed,      \* whether its wait has a deadline
    late,       \* whether that deadline is past
    gaveUp,     \* WaitTimeoutResult of the wait it is leaving
    all,        \* whether its notify is notify_all
    taken       \* entries it popped and has still to wake

condVars == <<holder, spinList, flag, syncList, token, asyncList, wait, wstate,
              pc, how, timed, late, gaveUp, all, taken>>

spinVars  == <<spinList, flag>>
syncVars  == <<syncList, token>>
asyncVars == <<asyncList, wait, wstate>>
callVars  == <<how, timed, late, all>>

WaitPCs == {"register", "unlock", "spin", "spin_expired", "spin_flag",
            "deadline", "park", "check", "await", "forget", "relock", "test",
            "timedout"}
NotifyPCs == {"spin_list", "store", "sync_list", "unpark", "async_list", "wake"}

CondTypeOK(clientPCs) ==
    /\ holder \in Actors \cup {None}
    /\ spinList \in SUBSET Threads /\ flag \in [Threads -> BOOLEAN]
    /\ syncList \in SUBSET CanPark /\ token \in [Threads -> BOOLEAN]
    /\ asyncList \in SUBSET Waits
    /\ wait \in [Tasks -> Waits \cup {None}]
    /\ wstate \in [Waits -> {"waiting", "woken", "canceled"}]
    /\ pc \in [Actors -> WaitPCs \cup NotifyPCs \cup clientPCs]
    /\ how \in [Actors -> {"spin", "block", "async"}]
    /\ timed \in [Actors -> BOOLEAN] /\ late \in [Actors -> BOOLEAN]
    /\ gaveUp \in [Actors -> BOOLEAN] /\ all \in [Actors -> BOOLEAN]
    /\ taken \in [Actors -> SUBSET (Threads \cup Waits)]

CondInit ==
    /\ holder = None
    /\ spinList = {} /\ flag = [t \in Threads |-> FALSE]
    /\ syncList = {} /\ token = [t \in Threads |-> FALSE]
    /\ asyncList = {} /\ wait = [t \in Tasks |-> None]
    /\ wstate = [w \in Waits |-> "canceled"]
    /\ pc = [a \in Actors |-> "idle"]
    /\ how = [a \in Actors |-> "spin"]
    /\ timed = [a \in Actors |-> FALSE] /\ late = [a \in Actors |-> FALSE]
    /\ gaveUp = [a \in Actors |-> FALSE] /\ all = [a \in Actors |-> FALSE]
    /\ taken = [a \in Actors |-> {}]

Goto(a, p) == pc' = [pc EXCEPT ![a] = p]

\* What an actor may wait with: wait_spin anywhere, wait_block where parking is
\* allowed, wait_async in a task; wait_sync is one of the first two.
Strategies(a) == IF a \in Tasks THEN {"async"}
                 ELSE IF a \in CanPark THEN {"spin", "block"} ELSE {"spin"}

\* Time reaches the deadline of a timed wait.  The clock is only read where the
\* actor sleeps, so that is where it advances.
DeadlinePasses(a) ==
    /\ pc[a] \in {"spin", "deadline", "park", "await"} /\ timed[a] /\ ~late[a]
    /\ late' = [late EXCEPT ![a] = TRUE]
    /\ UNCHANGED <<holder, spinVars, syncVars, asyncVars, pc, how, timed, gaveUp,
                   all, taken>>

(***************************************************************************)
(* Going to sleep: push an entry, then drop the guard.                     *)
(***************************************************************************)

RegisterSpin(t) ==
    /\ t \in Threads /\ pc[t] = "register" /\ how[t] = "spin"
    /\ spinList' = spinList \cup {t}
    /\ flag' = [flag EXCEPT ![t] = FALSE]
    /\ Goto(t, "unlock")
    /\ UNCHANGED <<holder, syncVars, asyncVars, callVars, gaveUp, taken>>

RegisterBlock(t) ==
    /\ t \in CanPark /\ pc[t] = "register" /\ how[t] = "block"
    /\ syncList' = syncList \cup {t}
    /\ Goto(t, "unlock")
    /\ UNCHANGED <<holder, spinVars, token, asyncVars, callVars, gaveUp, taken>>

\* An allocation is reusable once neither half of it is referenced.
Unreferenced(w) ==
    /\ w \notin asyncList
    /\ \A a \in Actors : w \notin taken[a]
    /\ \A t \in Tasks : wait[t] # w

RegisterAsync(t) ==
    /\ t \in Tasks /\ pc[t] = "register" /\ how[t] = "async"
    /\ \E w \in Waits :
         /\ Unreferenced(w)
         /\ asyncList' = asyncList \cup {w}
         /\ wait' = [wait EXCEPT ![t] = w]
         /\ wstate' = [wstate EXCEPT ![w] = "waiting"]
    /\ Goto(t, "unlock")
    /\ UNCHANGED <<holder, spinVars, syncVars, callVars, gaveUp, taken>>

Asleep(a) == CASE how[a] = "spin"  -> "spin"
               [] how[a] = "async" -> "await"
               [] OTHER -> IF timed[a] THEN "deadline" ELSE "park"

DropGuard(a) ==
    /\ pc[a] = "unlock"
    /\ holder' = None
    /\ Goto(a, Asleep(a))
    /\ UNCHANGED <<spinVars, syncVars, asyncVars, callVars, gaveUp, taken>>

(***************************************************************************)
(* The three ways of sleeping and of finding out why the sleep ended.      *)
(***************************************************************************)

SpinWoken(t) ==
    /\ pc[t] \in {"spin", "spin_flag"} /\ flag[t]
    /\ Goto(t, "relock")
    /\ UNCHANGED <<holder, spinVars, syncVars, asyncVars, callVars, gaveUp, taken>>

\* The flag was still false when it was loaded and the deadline is past.
SpinExpired(t) ==
    /\ pc[t] = "spin" /\ timed[t] /\ late[t]
    /\ Goto(t, "spin_expired")
    /\ UNCHANGED <<holder, spinVars, syncVars, asyncVars, callVars, gaveUp, taken>>

\* Mutant: a spin wait that timed out leaves its entry.
SpinRemoveLeaks(t) ==
    /\ pc[t] = "spin_expired"
    /\ gaveUp' = [gaveUp EXCEPT ![t] = TRUE] /\ Goto(t, "relock")
    /\ UNCHANGED <<holder, spinVars, syncVars, asyncVars, callVars, taken>>

\* A notifier that popped the entry is about to set the flag: wait for it.
SpinRemove(t) ==
    /\ pc[t] = "spin_expired"
    /\ spinList' = spinList \ {t}
    /\ IF t \in spinList
         THEN gaveUp' = [gaveUp EXCEPT ![t] = TRUE] /\ Goto(t, "relock")
         ELSE UNCHANGED gaveUp /\ Goto(t, "spin_flag")
    /\ UNCHANGED <<holder, flag, syncVars, asyncVars, callVars, taken>>

ParkToken(t) ==
    /\ pc[t] = "park" /\ token[t]
    /\ token' = [token EXCEPT ![t] = FALSE]
    /\ Goto(t, "check")
    /\ UNCHANGED <<holder, spinVars, syncList, asyncVars, callVars, gaveUp, taken>>

ParkTimesOut(t) ==
    /\ pc[t] = "park" /\ timed[t] /\ late[t]
    /\ Goto(t, "check")
    /\ UNCHANGED <<holder, spinVars, syncVars, asyncVars, callVars, gaveUp, taken>>

\* park may return for no reason, or on a stale token of an earlier unlock.
ParkSpurious(t) ==
    /\ pc[t] = "park"
    /\ Goto(t, "check")
    /\ UNCHANGED <<holder, spinVars, syncVars, asyncVars, callVars, gaveUp, taken>>

\* Mutant: wait_block returns without looking for its entry.
CheckListLeaks(t) ==
    /\ pc[t] = "check"
    /\ IF timed[t] /\ t \in syncList THEN Goto(t, "deadline") ELSE Goto(t, "relock")
    /\ UNCHANGED <<holder, spinVars, syncVars, asyncVars, callVars, gaveUp, taken>>

\* After park: wait_block removes its own entry and returns; the timed form
\* returns if the entry is gone and loops if it is not.
CheckList(t) ==
    /\ pc[t] = "check"
    /\ IF timed[t] THEN UNCHANGED syncList ELSE syncList' = syncList \ {t}
    /\ IF timed[t] /\ t \in syncList THEN Goto(t, "deadline") ELSE Goto(t, "relock")
    /\ UNCHANGED <<holder, spinVars, token, asyncVars, callVars, gaveUp, taken>>

\* The head of the timed loop.
CheckDeadline(t) ==
    /\ pc[t] = "deadline"
    /\ IF late[t]
         THEN /\ syncList' = syncList \ {t}
              /\ gaveUp' = [gaveUp EXCEPT ![t] = t \in syncList]
              /\ Goto(t, "relock")
         ELSE UNCHANGED <<syncList, gaveUp>> /\ Goto(t, "park")
    /\ UNCHANGED <<holder, spinVars, token, asyncVars, callVars, taken>>

Cancel(w) == wstate' = [wstate EXCEPT ![w] = IF @ = "waiting" THEN "canceled" ELSE @]

\* The clock is polled before the notification, so a late one is a timeout.
AwaitWoken(t) ==
    /\ pc[t] = "await" /\ wstate[wait[t]] = "woken"
    /\ ~(timed[t] /\ late[t])
    /\ wait' = [wait EXCEPT ![t] = None]
    /\ Goto(t, "relock")
    /\ UNCHANGED <<holder, spinVars, syncVars, asyncList, wstate, callVars, gaveUp,
                   taken>>

AwaitTimedOut(t) ==
    /\ pc[t] = "await" /\ timed[t] /\ late[t]
    /\ Cancel(wait[t])
    /\ Goto(t, "forget")
    /\ UNCHANGED <<holder, spinVars, syncVars, asyncList, wait, callVars, gaveUp, taken>>

\* Mutant: a notification consumed by the timed out wait is not passed on.
ForgetNoReplay(t) ==
    /\ pc[t] = "forget"
    /\ gaveUp' = [gaveUp EXCEPT ![t] = TRUE]
    /\ wait' = [wait EXCEPT ![t] = None]
    /\ asyncList' = asyncList \ {wait[t]}
    /\ Goto(t, "relock")
    /\ UNCHANGED <<holder, spinVars, syncVars, wstate, callVars, taken>>

\* If the entry is gone a notification was consumed: replay it.
Forget(t) ==
    /\ pc[t] = "forget"
    /\ gaveUp' = [gaveUp EXCEPT ![t] = TRUE]
    /\ wait' = [wait EXCEPT ![t] = None]
    /\ asyncList' = asyncList \ {wait[t]}
    /\ IF wait[t] \in asyncList THEN Goto(t, "relock") ELSE Goto(t, "spin_list")
    /\ UNCHANGED <<holder, spinVars, syncVars, wstate, callVars, taken>>

\* The caller drops the future at one of its two await points.  Its entry, if
\* it is still queued, stays there; notify_one skips it.
WaitDropped(t) ==
    /\ \/ pc[t] = "await" /\ Cancel(wait[t]) /\ wait' = [wait EXCEPT ![t] = None]
       \/ pc[t] = "relock" /\ UNCHANGED <<wait, wstate>>
    /\ Goto(t, "idle")
    /\ gaveUp' = [gaveUp EXCEPT ![t] = FALSE]
    /\ UNCHANGED <<holder, spinVars, syncVars, asyncList, callVars, taken>>

\* Take the mutex again.  Where the lock parks, it may consume the park token.
Relock(a) ==
    /\ pc[a] = "relock" /\ holder = None
    /\ holder' = a
    /\ \/ UNCHANGED token
       \/ a \in CanPark /\ token' = [token EXCEPT ![a] = FALSE]
    /\ Goto(a, IF gaveUp[a] THEN "timedout" ELSE "test")
    /\ UNCHANGED <<spinVars, syncList, asyncVars, callVars, gaveUp, taken>>

(***************************************************************************)
(* notify_one and notify_all.  The one wake of notify_one is the first     *)
(* entry of the first list that has any, except that an AsyncWake whose    *)
(* other half is dropped is skipped.                                       *)
(***************************************************************************)

Picks(a, list) == IF all[a] THEN {list} ELSE {{x} : x \in list}

\* A wait that replayed a notification takes the mutex again.
NotifyDone(a) == IF gaveUp[a] THEN "relock" ELSE "notified"

After(a, left, here, next) ==
    IF left # {} THEN here ELSE IF all[a] THEN next ELSE NotifyDone(a)

TakeSpin(a) ==
    /\ pc[a] = "spin_list"
    /\ IF spinList = {} THEN Goto(a, "sync_list") /\ UNCHANGED <<spinList, taken>>
       ELSE \E S \in Picks(a, spinList) :
              /\ taken' = [taken EXCEPT ![a] = S]
              /\ spinList' = spinList \ S
              /\ Goto(a, "store")
    /\ UNCHANGED <<holder, flag, syncVars, asyncVars, callVars, gaveUp>>

Store(a) ==
    /\ pc[a] = "store"
    /\ \E t \in taken[a] :
         /\ flag' = [flag EXCEPT ![t] = TRUE]
         /\ taken' = [taken EXCEPT ![a] = @ \ {t}]
         /\ Goto(a, After(a, taken[a] \ {t}, "store", "sync_list"))
    /\ UNCHANGED <<holder, spinList, syncVars, asyncVars, callVars, gaveUp>>

TakeSync(a) ==
    /\ pc[a] = "sync_list"
    /\ IF syncList = {} THEN Goto(a, "async_list") /\ UNCHANGED <<syncList, taken>>
       ELSE \E S \in Picks(a, syncList) :
              /\ taken' = [taken EXCEPT ![a] = S]
              /\ syncList' = syncList \ S
              /\ Goto(a, "unpark")
    /\ UNCHANGED <<holder, spinVars, token, asyncVars, callVars, gaveUp>>

Unpark(a) ==
    /\ pc[a] = "unpark"
    /\ \E t \in taken[a] :
         /\ token' = [token EXCEPT ![t] = TRUE]
         /\ taken' = [taken EXCEPT ![a] = @ \ {t}]
         /\ Goto(a, After(a, taken[a] \ {t}, "unpark", "async_list"))
    /\ UNCHANGED <<holder, spinVars, syncList, asyncVars, callVars, gaveUp>>

TakeAsync(a) ==
    /\ pc[a] = "async_list"
    /\ IF asyncList = {} THEN Goto(a, NotifyDone(a)) /\ UNCHANGED <<asyncList, taken>>
       ELSE \E S \in Picks(a, asyncList) :
              /\ taken' = [taken EXCEPT ![a] = S]
              /\ asyncList' = asyncList \ S
              /\ Goto(a, "wake")
    /\ UNCHANGED <<holder, spinVars, syncVars, wait, wstate, callVars, gaveUp>>

Wake(a) ==
    /\ pc[a] = "wake"
    /\ \E w \in taken[a] :
         /\ wstate' = [wstate EXCEPT ![w] = IF @ = "waiting" THEN "woken" ELSE @]
         /\ taken' = [taken EXCEPT ![a] = @ \ {w}]
         /\ Goto(a, CASE taken[a] # {w} -> "wake"
                      [] ~all[a] /\ wstate[w] # "waiting" -> "async_list"
                      [] OTHER -> NotifyDone(a))
    /\ UNCHANGED <<holder, spinVars, syncVars, asyncList, wait, callVars, gaveUp>>

(***************************************************************************)
(* The steps of a waiter and of a notifier, and what the clients say of    *)
(* the sleepers.                                                           *)
(***************************************************************************)

Register(a) == RegisterSpin(a) \/ RegisterBlock(a) \/ RegisterAsync(a)
SpinWait(a) == SpinWoken(a) \/ SpinExpired(a) \/ SpinRemove(a)
ParkWait(a) == ParkToken(a) \/ ParkTimesOut(a) \/ CheckList(a) \/ CheckDeadline(a)
AsyncWait(a) == AwaitWoken(a) \/ AwaitTimedOut(a) \/ Forget(a)

\* The steps a waiter's host eventually runs, up to taking the mutex again.
WaitStep(a) == Register(a) \/ DropGuard(a) \/ SpinWait(a) \/ ParkWait(a) \/ AsyncWait(a)

NotifyStep(a) ==
    TakeSpin(a) \/ Store(a) \/ TakeSync(a) \/ Unpark(a) \/ TakeAsync(a) \/ Wake(a)

Notifying(a) == pc[a] \in NotifyPCs

\* A waiter that sleeps and that nothing has woken or is about to wake.
Unnotified(a) ==
    \/ /\ pc[a] \in {"unlock", "spin", "spin_expired", "park", "deadline", "check"}
       /\ a \in spinList \cup syncList
    \/ /\ pc[a] \in {"unlock", "await", "forget"}
       /\ how[a] = "async" /\ wait[a] \in asyncList

\* Entries of threads belong to waits that are under way: a leaked one would
\* swallow a later notification.
NoLeakedEntry ==
    /\ \A t \in spinList : pc[t] \in {"unlock", "spin", "spin_expired"}
    /\ \A t \in syncList : pc[t] \in {"unlock", "park", "deadline", "check"}

\* Why no entry leaks: entries match the strategy of their wait, and a notifier
\* that has still to set a flag sets that of a wait which is still spinning.
EntriesMatch ==
    /\ \A t \in spinList : how[t] = "spin" /\ ~flag[t]
    /\ \A t \in syncList : how[t] = "block"
    /\ \A a \in Actors : pc[a] = "store" => \A t \in taken[a] :
         /\ t \in Threads \ spinList /\ how[t] = "spin" /\ ~flag[t]
         /\ pc[t] \in {"unlock", "spin", "spin_expired", "spin_flag"}
         /\ \A b \in Actors : pc[b] = "store" /\ t \in taken[b] => b = a

\* The inductive invariant of the steps of this module.
CondInv(clientPCs) == CondTypeOK(clientPCs) /\ NoLeakedEntry /\ EntriesMatch
=============================================================================
