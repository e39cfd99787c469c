------------------------------ MODULE MCWakeups ------------------------------
(* The two components whose sleepers are woken under the host's fairness: the  *)
(* executor of a realm, and the clients of a condition variable with their     *)
(* locks.  Each behaviour is one component's, which `part` names.              *)
EXTENDS Executor

CONSTANTS k1, k2, k3

\* k1 spawns k2 in the poll that completes it; k3 stands alone.
ChildOf == [k \in Tasks |-> IF k = k1 THEN k2 ELSE None]

\* Every task spawned completes, however its wake races the poll, unless a
\* poll of the realm traps.
TasksComplete == \A k \in Tasks : life[k] = "pending" ~> life[k] = "done" \/ trapped

\* A worker whose tasks all complete, and whose brackets are opened only so
\* many times, reports done and closes.
WorkerCloses == <>[](pending = 0) => <>(closed \/ trapped)

VARIABLES part,
          holder, spinList, flag, syncList, token, asyncList, wait, wstate,
          pc, how, timed, late, gaveUp, all, taken, items, ops

ConsumersOf == {"b", "k"}
C == INSTANCE CondvarQueue WITH
        Threads <- {"b", "p"}, Tasks <- {"k"}, CanPark <- {"b", "p"},
        Waits <- {"w1", "w2"}, Waiters <- ConsumersOf, MaxOps <- 1, DropsWoken <- FALSE

queueVars == <<holder, spinList, flag, syncList, token, asyncList, wait, wstate,
               pc, how, timed, late, gaveUp, all, taken, items, ops>>

WakeupsInit == part \in {"executor", "condvar"} /\ Init /\ C!Init
WakeupsNext ==
    /\ \/ part = "executor" /\ Next
       \/ part # "executor" /\ UNCHANGED vars
    /\ \/ part = "condvar" /\ C!Next
       \/ part # "condvar" /\ UNCHANGED queueVars
    /\ UNCHANGED part

\* The host runs every thread that can step and every woken task, and the mutex
\* goes to somebody (the progress Mutex.tla is shown to have).  Nothing is
\* assumed of calls, deadlines, cancellation and spurious returns.
QueueFairness ==
    /\ WF_queueVars(part = "condvar" /\ \E c \in ConsumersOf : C!Locking(c))
    /\ \A c \in ConsumersOf :
          /\ WF_queueVars(part = "condvar" /\ C!Waiting(c))
          /\ WF_queueVars(part = "condvar" /\ (C!Test(c) \/ C!TimedOut(c)))
    /\ WF_queueVars(part = "condvar" /\ C!Producing("p"))
\* The event loop runs scheduled callbacks, threads that began a wake finish it,
\* and every event is fired in the end.  Nothing makes a task give up.
ExecutorFairness ==
    /\ WF_vars(part = "executor" /\ Tick) /\ WF_vars(part = "executor" /\ Drained)
    /\ WF_vars(part = "executor" /\ TaskFinished)
    /\ \A k \in Tasks : /\ WF_vars(part = "executor" /\ Wake(k))
                        /\ WF_vars(part = "executor" /\ Claim(k))
    /\ \A k \in Roots : WF_vars(part = "executor" /\ SpawnLocal(k))

WakeupsSpec == /\ WakeupsInit /\ [][WakeupsNext]_<<part, vars, queueVars>>
               /\ QueueFairness /\ ExecutorFairness
-----------------------------------------------------------------------------
\* WorkerCloses, of the behaviours that have a worker.
WorkerOfPartCloses == part = "executor" => WorkerCloses
ItemsReachSleepers == C!ItemsReachSleepers

\* "A panic traps the instance; its state is suspect, so tear down at once":
\* the bootstrap's words, here asked of a panic in a spawned task.
PanickedWorkerCloses == part = "executor" /\ trapped ~> closed
=============================================================================
