------------------------------- MODULE MCHost -------------------------------
(* The instances of the components that meet the host one at a time: worker    *)
(* threads, the two kinds of timers, awaited promises, pinned tasks and the    *)
(* test runner with its page.  They share no state, so one run checks them     *)
(* side by side: each behaviour is one component's, which `part` names.        *)
EXTENDS Workers, Integers

CONSTANTS Sleeps, Proxies, Root, Durations, MaxTimeout, TokenSpace,   \* of Timers
          Alarms, AlarmDurations,                                     \* of NativeTimers
          Futures,                                                    \* of Promises
          Readers, Asks, Jobs, Length, MaxLen, MaxU64,                \* of PinnedFile
          Modules, MaxBodies, MaxPolls                                \* of Suite

ASSUME HostAssumption ==
    /\ Durations \subseteq Nat /\ MaxTimeout \in Nat /\ TokenSpace \in Nat \ {0, 1}
    /\ Root \notin Proxies
    /\ AlarmDurations \subseteq Nat /\ \E d \in AlarmDurations : \A e \in AlarmDurations : e <= d
    /\ "none" \notin Alarms \cup Jobs
    /\ Length \in Nat /\ MaxLen \in Nat /\ MaxU64 \in Nat
    /\ MaxBodies \in Nat

VARIABLES part,
          deadline, timeout, registry, next, post, sleep,
          heap, pending, driver, alarm, target, timer,
          slots, free, promise, fut, settled,
          pos, op, place, woken, job,
          module, args, case, step, looks, seen, results, code, page

T == INSTANCE Timers WITH mail <- post, Workers <- Proxies
N == INSTANCE NativeTimers WITH Timers <- Alarms, Durations <- AlarmDurations
F == INSTANCE Promises WITH outcome <- settled
P == INSTANCE PinnedFile
S == INSTANCE Suite WITH at <- case, polls <- looks

ASSUME ModulesAssumption == \A m \in Modules : S!Modular(m)

Parts == {"workers", "timers", "native", "promises", "pinned", "suite"}

timerVars == <<deadline, timeout, registry, next, post, sleep>>
nativeVars == <<heap, pending, driver, alarm, target, timer>>
promiseVars == <<slots, free, promise, fut, settled>>
pinnedVars == <<pos, op, place, woken, job>>
suiteVars == <<module, args, case, step, looks, seen, results, code, page>>
hostVars == <<part, vars, timerVars, nativeVars, promiseVars, pinnedVars, suiteVars>>

HostInit ==
    /\ part \in Parts
    /\ Init /\ T!Init /\ N!Init /\ F!Init /\ P!Init /\ S!Init
    /\ part # "suite" => /\ module = CHOOSE m \in Modules : TRUE
                         /\ \A x \in DOMAIN args : ~args[x]

HostNext ==
    /\ \/ part = "workers" /\ Next
       \/ part # "workers" /\ UNCHANGED vars
    /\ \/ part = "timers" /\ T!Next
       \/ part # "timers" /\ UNCHANGED timerVars
    /\ \/ part = "native" /\ N!Next
       \/ part # "native" /\ UNCHANGED nativeVars
    /\ \/ part = "promises" /\ F!Next
       \/ part # "promises" /\ UNCHANGED promiseVars
    /\ \/ part = "pinned" /\ P!Next
       \/ part # "pinned" /\ UNCHANGED pinnedVars
    /\ \/ part = "suite" /\ S!Next
       \/ part # "suite" /\ UNCHANGED suiteVars
    /\ UNCHANGED part

(* Fairness.  Closures end, browsers start workers that can start, and event   *)
(* loops deliver messages and run the tasks that were woken; the clock, the    *)
(* timeouts and the message ports of a page go on and a woken task is polled;  *)
(* the runner goes on.  Nobody is obliged to call anything.                    *)
WorkersFairness ==
    /\ \A t \in Threads : /\ WF_vars(part = "workers" /\ Running(t))
                          /\ WF_vars(part = "workers" /\ OnMessage(t))
    /\ \A a \in Actors : WF_vars(part = "workers" /\ JoinAsyncReturns(a))
TimerFairness ==
    /\ WF_timerVars(part = "timers" /\ T!Tick) /\ WF_timerVars(part = "timers" /\ T!Drain)
    /\ \A w \in Proxies : WF_timerVars(part = "timers" /\ T!Deliver(w))
    /\ \A f \in Sleeps :
          WF_timerVars(part = "timers" /\ \E r \in T!Realms : T!Poll(f, r))
SuiteFairness == WF_suiteVars(part = "suite" /\ S!Runner)

HostSpec == /\ HostInit /\ [][HostNext]_hostVars
            /\ WorkersFairness /\ TimerFairness /\ SuiteFairness
-----------------------------------------------------------------------------
\* A join returns, and every worker's storage goes back to its creator.
WorkersJoined == JoinsReturn /\ WorkersReclaimed

\* A sleep uses each of its tokens once and never ends early, in either backend:
\* the driver never sleeps past a deadline.
TimersOnTime == T!TokensOnce /\ T!SleepsLongEnough /\ N!DriverOnTime
SleepEnds == T!SleepEnds /\ T!WakesReleased

\* No task sleeps on a promise that has settled or an output that has been stored,
\* and overlapping reads of one file skip no byte.
AwaitsAreAnswered == F!AwaitedSettles /\ P!OutputIsTaken /\ P!NothingSkipped
PassMeansAllDone == S!PassMeansAllDone /\ S!RunReports
RunEnds == part = "suite" => S!RunEnds

\* "A panic inside it fails the test": no case whose page panicked is passed.
PanicIsReported == part = "suite" => S!PanicIsReported
-----------------------------------------------------------------------------
(* The instance TLC checks.                                                    *)
Case(kind, ignored, should, selected) ==
    [kind |-> kind, ignored |-> ignored, should |-> should, selected |-> selected]
Module(tests, benches, entry, selected) ==
    [tests |-> tests, benches |-> benches, entry |-> entry, selected |-> selected]
HostBench == Case("bench", FALSE, "no", TRUE)
HostModules ==
    {Module(<<Case("test", FALSE, "no", TRUE), Case("test", TRUE, "expected", TRUE)>>,
            <<HostBench>>, TRUE, TRUE),
     Module(<<>>, <<HostBench, Case("bench", TRUE, "no", TRUE)>>, TRUE, FALSE),
     Module(<<>>, <<>>, TRUE, TRUE)}
\* One reader starts any operation, the others read.
HostAsks == [r \in Readers |-> IF r = "r" THEN {"open", "read", "all"} ELSE {"read"}]
=============================================================================
