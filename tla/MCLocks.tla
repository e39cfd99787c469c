------------------------------ MODULE MCLocks ------------------------------
(* The locks within a program and those between processes, side by side: the  *)
(* mutex of one module's threads and tasks, and the slots and the lock by      *)
(* which the runners of one user share a host.  Each behaviour is one          *)
(* component's, which `part` names.                                            *)
EXTENDS Mutex

VARIABLE part     \* "mutex" or "runners"
OfMutex == part = "mutex"

(***************************************************************************)
(* Fairness.  The host runs every thread that has a step to take and the   *)
(* event loop runs every task whose waker fired; clocks advance.  Nothing  *)
(* is assumed of when a caller starts a call, cancels a future, or is      *)
(* unparked spuriously, nor of when a holder drops its guard.              *)
(***************************************************************************)
Fairness ==
    /\ \A a \in Actors : /\ WF_vars(OfMutex /\ Unlocking(a))
                         /\ WF_vars(OfMutex /\ DeadlinePasses(a))
    /\ \A t \in Threads : WF_vars(OfMutex /\ Locking(t))
    /\ \A t \in Tasks : WF_vars(OfMutex /\ (Awaiting(t) \/ LastTry(t)))

\* A timed call returns without the lock only after its deadline, an untimed
\* blocking call never does, and a task that is woken and late never retries
\* as if it had been in time.
VerdictIsTheClocks ==
    [][\A a \in Actors :
         /\ (Asking(a) /\ pc'[a] = "idle" /\ ~(a \in Tasks /\ pc[a] = "await"))
              => deadline[a] = "passed"
         /\ (pc[a] = "await" /\ pc'[a] = "async") => deadline[a] # "passed"]_vars

\* The mutex implements the abstract lock, its progress included.
ImplementsLock == Abstract!LockSpec

\* A timed call returns even if the holder never releases, provided that the
\* spinlock of the thread list is not taken past one thread for ever.
SpinlockIsFair == \A t \in CanPark : SF_vars(OfMutex /\ ParkTimesOut(t))
TimedCallsReturn ==
    SpinlockIsFair =>
        \A a \in Actors : (Asking(a) /\ deadline[a] # "none") ~> ~Asking(a)

\* When every guard is dropped in the end, every call of every actor returns,
\* and so does every drop of a guard.
GuardsAreDropped == \A a \in Actors : WF_vars(OfMutex /\ Release(a))
AllCallsReturn ==
    GuardsAreDropped => \A a \in Actors : pc[a] # "idle" ~> pc[a] = "idle"

\* Every call ends: a timed one whatever the holder does, every one when guards
\* are dropped.
CallsReturn == TimedCallsReturn /\ AllCallsReturn
-----------------------------------------------------------------------------
(* Both side by side.                                                         *)

CONSTANTS Runners, MaxLimit, MaxKills     \* of Browsers

ASSUME RunnersAssumption ==
    /\ {"nobody", "gone", "empty"} \cap Runners = {}
    /\ MaxLimit \in Nat \ {0}

VARIABLES mode, procfs, where, limit, at, named, life, signal, cleanup, watchdog, driver,
          slot, lock, stale, state, stopping, robbed, late, evictors

B == INSTANCE Browsers WITH pc <- where,
        Modes <- {[r \in Runners |-> m] : m \in {"ephemeral", "reuse"}}

runnerVars == <<mode, procfs, where, limit, at, named, life, signal, cleanup, watchdog,
                driver, slot, lock, stale, state, stopping, robbed, late, evictors>>
locksVars == <<part, vars, runnerVars>>

\* Runners with a browser each find an ended one's file in the first slot;
\* what is in the slots, or in /proc, does not concern those that share a browser.
LocksInit == /\ part \in {"mutex", "runners"} /\ Init /\ B!Init
             /\ part = "mutex" => \A r \in Runners : ~B!Ephemeral(r)
             /\ (\A r \in Runners : ~B!Ephemeral(r)) => procfs
             /\ slot = IF \A r \in Runners : ~B!Ephemeral(r)
                       THEN [s \in B!Slots |-> B!Nobody]
                       ELSE [s \in B!Slots |-> IF s = 0 THEN B!Gone ELSE B!Nobody]

\* Bound: where there is no /proc to look pids up in, nobody sends a signal.
SignalsBound == IF procfs THEN TRUE ELSE UNCHANGED signal

LocksNext ==
    /\ \/ part = "mutex" /\ Next
       \/ part = "runners" /\ UNCHANGED vars
    /\ \/ part = "runners" /\ B!Next
       \/ part = "mutex" /\ UNCHANGED runnerVars
    /\ SignalsBound
    /\ UNCHANGED part

\* The host runs the two threads of every runner, and files grow old.  No signal,
\* no end of the tests and no answer of a driver is assumed.
RunnersFairness ==
    /\ \A r \in Runners : /\ WF_runnerVars(part = "runners" /\ B!Main(r))
                         /\ WF_runnerVars(part = "runners" /\ B!Watchdog(r))
    /\ WF_runnerVars(part = "runners" /\ B!Ages)

LocksSpec == /\ LocksInit /\ [][LocksNext]_locksVars
             /\ Fairness /\ RunnersFairness
-----------------------------------------------------------------------------
\* Slots and lock stay with their owners, and runners that exit leave nothing.
SlotsAndLockKept == part = "runners" => B!OneOwner /\ B!ExitsClean

\* A signal ends a runner whose tests never do; when the tests of all end, the
\* runners that wait for a slot get one.
TestsEnd == \A r \in Runners : WF_runnerVars(part = "runners" /\ B!DropBrowser(r))
RunnersEnd == part = "runners" => B!SignalEnds /\ (TestsEnd => B!WaitersServed)
=============================================================================
