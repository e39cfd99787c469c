---------------------------- MODULE LocksProofs ----------------------------
(* Theorems about the locks within a program and between processes, for every  *)
(* set of threads, tasks and runners and every number of calls and slots, and   *)
(* about the server that each runner has, for any clients and files.            *)
(* Mutex: a sleeper is queued, or taken by an unlocker, or already woken        *)
(* (ParkedIsKnown, AwaitingIsKnown); and a queue is never left behind by the    *)
(* last unlocker, because the failed try_lock and the push happen under the     *)
(* spinlock the unlocker must take (SyncCovered, AsyncCovered).  Runners: the   *)
(* files that name a runner are those it has.  Server: a connection has taken a *)
(* prefix of what its client sends, and its request, its frame and its message  *)
(* are what that prefix says.                                                   *)
EXTENDS MCLocks, MCServer, Sequences, SequenceTheorems, FiniteSetTheorems,
        WellFoundedInduction, TLAPS

\* What IInv says beyond the types.
Waiting == /\ MutualExclusion /\ SpinHeld
           /\ SyncCovered /\ AsyncCovered /\ TakenByUnlocker
           /\ ParkedIsKnown /\ AwaitingIsKnown /\ AsyncQueueExact

\* The initial state satisfies the inductive invariant.
LEMMA InitInv == Init => IInv
<1> SUFFICES ASSUME Init PROVE IInv
  OBVIOUS
<1> USE MutexAssumption DEF Init, Actors
<1>1. TypeOK
  <2>1. ops \in [Actors -> 0..MaxOps] /\ token \in [Threads -> BOOLEAN]
    OBVIOUS
  <2>2. unparks \in [Actors -> SUBSET CanPark] /\ wakes \in [Actors -> SUBSET Waits]
    OBVIOUS
  <2> QED BY <2>1, <2>2 DEF TypeOK, PCs
<1>2. MutualExclusion /\ SpinHeld
  BY DEF MutualExclusion, SpinHeld
<1>3. SyncCovered /\ AsyncCovered /\ TakenByUnlocker
  BY DEF SyncCovered, AsyncCovered, TakenByUnlocker
<1>4. ParkedIsKnown /\ AwaitingIsKnown /\ AsyncQueueExact
  BY DEF ParkedIsKnown, AwaitingIsKnown, AsyncQueueExact
<1> QED BY <1>1, <1>2, <1>3, <1>4 DEF IInv

\* Beginning a call is an immediate try_lock or the entry of one of three loops.
LEMMA BeginCases ==
  ASSUME NEW a \in Actors, Begin(a)
  PROVE  \/ TryLock(a)
         \/ \E p \in {"spin", "block", "async"},
               ds \in SUBSET {"none", "ahead", "passed"} :
              /\ Call(a, p, ds)
              /\ p = "spin" => a \in Threads
              /\ p = "block" => a \in CanPark
              /\ p = "async" => a \in Tasks
<1> DEFINE Entry(p, ds) == /\ Call(a, p, ds)
                           /\ p = "spin" => a \in Threads
                           /\ p = "block" => a \in CanPark
                           /\ p = "async" => a \in Tasks
<1>1. CASE LockSpin(a) \/ LockBlock(a) \/ LockAsync(a)
  <2>1. Entry("spin", {"none"}) \/ Entry("block", {"none"}) \/ Entry("async", {"none"})
    BY <1>1 DEF LockSpin, LockBlock, LockAsync
  <2> QED BY <2>1
<1>2. CASE LockSpinTimeout(a) \/ LockBlockTimeout(a) \/ LockAsyncTimeout(a)
  <2>1. \/ Entry("spin", {"ahead", "passed"}) \/ Entry("block", {"ahead", "passed"})
        \/ Entry("async", {"ahead", "passed"})
    BY <1>2 DEF LockSpinTimeout, LockBlockTimeout, LockAsyncTimeout
  <2> QED BY <2>1
<1> QED BY <1>1, <1>2 DEF Begin, LockSync, LockSyncTimeout

\* Taking the flag keeps the types of what it changes.
LEMMA AcquireType ==
  ASSUME TypeOK, NEW a \in Actors, Acquire(a)
  PROVE  /\ data_lock' \in BOOLEAN
         /\ pc' \in [Actors -> PCs]
         /\ deadline' \in [Actors -> {"none", "ahead", "passed"}]
  BY DEF TypeOK, Acquire, Return, Goto, PCs

\* Every step keeps the types.
LEMMA TypeStep ==
  ASSUME IInv, [Next]_vars
  PROVE  TypeOK'
<1> USE MutexAssumption DEF IInv, TypeOK, Actors, PCs, syncVars, asyncVars,
        waitVars, wakeVars
<1>1. ASSUME NEW a \in Actors, Begin(a) PROVE TypeOK'
  <2>1. CASE TryLock(a)
    <3>1. CASE Acquire(a)
      BY <2>1, <3>1, AcquireType DEF TryLock
    <3>2. CASE data_lock /\ UNCHANGED <<data_lock, pc, deadline>>
      BY <2>1, <3>2 DEF TryLock
    <3> QED BY <2>1, <3>1, <3>2 DEF TryLock
  <2>2. ASSUME NEW p \in {"spin", "block", "async"},
               NEW ds \in SUBSET {"none", "ahead", "passed"}, Call(a, p, ds)
        PROVE  TypeOK'
    BY <2>2 DEF Call, Goto
  <2> QED BY <1>1, <2>1, <2>2, BeginCases
<1>2. ASSUME NEW a \in Actors, DeadlinePasses(a) PROVE TypeOK'
  BY <1>2 DEF DeadlinePasses
<1>3. ASSUME NEW a \in Actors, LastTry(a) PROVE TypeOK'
  <2>1. CASE Acquire(a)
    BY <1>3, <2>1, AcquireType DEF LastTry
  <2>2. CASE data_lock /\ Return(a, "idle") /\ UNCHANGED data_lock
    BY <1>3, <2>2 DEF LastTry, Return, Goto
  <2> QED BY <1>3, <2>1, <2>2 DEF LastTry
<1>4. ASSUME NEW a \in Actors, Release(a) \/ Unlocking(a) PROVE TypeOK'
  <2>1. CASE Release(a)
    BY <2>1 DEF Release, Goto
  <2>2. CASE TakeSync(a)
    BY <2>2 DEF TakeSync, Goto
  <2>3. CASE Unpark(a)
    BY <2>3 DEF Unpark
  <2>4. CASE TakeAsync(a)
    BY <2>4 DEF TakeAsync, Goto
  <2>5. CASE Wake(a)
    BY <2>5 DEF Wake
  <2>6. CASE Unlocked(a)
    BY <2>6 DEF Unlocked, Goto
  <2> QED BY <1>4, <2>1, <2>2, <2>3, <2>4, <2>5, <2>6 DEF Unlocking
<1>5. ASSUME NEW t \in Threads, SpinSwap(t) \/ SpinGiveUp(t) PROVE TypeOK'
  <2>1. CASE SpinSwap(t)
    BY <2>1, AcquireType DEF SpinSwap
  <2>2. CASE SpinGiveUp(t)
    BY <2>2 DEF SpinGiveUp, Return, Goto
  <2> QED BY <1>5, <2>1, <2>2
<1>6. ASSUME NEW t \in Threads, BlockTry(t) PROVE TypeOK'
  <2>1. CASE Acquire(t) /\ UNCHANGED syncSpin
    BY <1>6, <2>1, AcquireType DEF BlockTry
  <2>2. CASE ~(Acquire(t) /\ UNCHANGED syncSpin)
    BY <1>6, <2>2 DEF BlockTry, Goto
  <2> QED BY <2>1, <2>2
<1>7. ASSUME NEW t \in Threads, BlockPush(t) PROVE TypeOK'
  BY <1>7 DEF BlockPush, SpinHeld, Goto
<1>8. ASSUME NEW t \in Threads, ParkToken(t) \/ ParkTimesOut(t) \/ ParkSpurious(t)
      PROVE  TypeOK'
  <2>1. Unparked(t) /\ token' \in [Threads -> BOOLEAN]
    BY <1>8 DEF ParkToken, ParkTimesOut, ParkSpurious
  <2>2. CASE deadline[t] = "none" /\ UNCHANGED syncList
    BY <2>1, <2>2 DEF Unparked, Goto
  <2>3. CASE deadline[t] # "none" /\ syncSpin = None /\ syncList' = syncList \ {t}
    BY <2>1, <2>3 DEF Unparked, Goto
  <2> QED BY <2>1, <2>2, <2>3 DEF Unparked
<1>9. ASSUME NEW t \in Tasks, AsyncTry(t) PROVE TypeOK'
  <2>1. CASE Acquire(t) /\ UNCHANGED asyncSpin
    BY <1>9, <2>1, AcquireType DEF AsyncTry
  <2>2. CASE ~(Acquire(t) /\ UNCHANGED asyncSpin)
    BY <1>9, <2>2 DEF AsyncTry, Goto
  <2> QED BY <2>1, <2>2
<1>10. ASSUME NEW t \in Tasks, AsyncPush(t) PROVE TypeOK'
  BY <1>10 DEF AsyncPush, Goto
<1>11. ASSUME NEW t \in Tasks, AwaitWoken(t) \/ AwaitTimedOut(t) \/ AwaitCancelled(t)
       PROVE  TypeOK'
  BY <1>11 DEF AwaitWoken, AwaitTimedOut, AwaitCancelled, DropWait, Return, Goto,
     AwaitingIsKnown
<1>12. CASE UNCHANGED vars
  BY <1>12 DEF vars
<1> QED
  BY <1>1, <1>2, <1>3, <1>4, <1>5, <1>6, <1>7, <1>8, <1>9, <1>10, <1>11, <1>12
  DEF Next, Locking, Awaiting, Finished

\* Every step keeps the rest of the inductive invariant.
LEMMA WaitingStep ==
  ASSUME IInv, [Next]_vars
  PROVE  Waiting'
<1> USE MutexAssumption DEF IInv, TypeOK, Waiting, MutualExclusion, SpinHeld,
        SyncCovered, AsyncCovered, TakenByUnlocker, ParkedIsKnown,
        AwaitingIsKnown, AsyncQueueExact, Actors, PCs, Goto, Return, Acquire,
        syncVars, asyncVars, waitVars, wakeVars
<1>1. ASSUME NEW a \in Actors, Begin(a) PROVE Waiting'
  <2>1. CASE TryLock(a)
    BY <2>1 DEF TryLock
  <2>2. ASSUME NEW p \in {"spin", "block", "async"},
               NEW ds \in SUBSET {"none", "ahead", "passed"}, Call(a, p, ds),
               p = "spin" => a \in Threads, p = "block" => a \in CanPark,
               p = "async" => a \in Tasks
        PROVE  Waiting'
    BY <2>2 DEF Call
  <2> QED BY <1>1, <2>1, <2>2, BeginCases
<1>2. ASSUME NEW a \in Actors, DeadlinePasses(a) PROVE Waiting'
  BY <1>2 DEF DeadlinePasses
<1>3. ASSUME NEW a \in Actors, LastTry(a) PROVE Waiting'
  BY <1>3 DEF LastTry
<1>4. ASSUME NEW a \in Actors, Release(a) PROVE Waiting'
  BY <1>4 DEF Release
<1>5. ASSUME NEW a \in Actors, TakeSync(a) PROVE Waiting'
  BY <1>5 DEF TakeSync
<1>6. ASSUME NEW a \in Actors, Unpark(a) PROVE Waiting'
  BY <1>6 DEF Unpark
<1>7. ASSUME NEW a \in Actors, TakeAsync(a) PROVE Waiting'
  BY <1>7 DEF TakeAsync
<1>8. ASSUME NEW a \in Actors, Wake(a) PROVE Waiting'
  BY <1>8 DEF Wake
<1>9. ASSUME NEW a \in Actors, Unlocked(a) PROVE Waiting'
  BY <1>9 DEF Unlocked
<1>10. ASSUME NEW t \in Threads, SpinSwap(t) PROVE Waiting'
  BY <1>10 DEF SpinSwap
<1>11. ASSUME NEW t \in Threads, SpinGiveUp(t) PROVE Waiting'
  BY <1>11 DEF SpinGiveUp
<1>12. ASSUME NEW t \in Threads, BlockTry(t) PROVE Waiting'
  BY <1>12 DEF BlockTry
<1>13. ASSUME NEW t \in Threads, BlockPush(t) PROVE Waiting'
  BY <1>13 DEF BlockPush
<1>14. ASSUME NEW t \in Threads, ParkToken(t) \/ ParkTimesOut(t) \/ ParkSpurious(t)
       PROVE  Waiting'
  <2>1. /\ pc[t] = "park" /\ Unparked(t)
        /\ token' \in {token, [token EXCEPT ![t] = FALSE]}
    BY <1>14 DEF ParkToken, ParkTimesOut, ParkSpurious
  <2> QED BY <2>1 DEF Unparked
<1>15. ASSUME NEW t \in Tasks, AsyncTry(t) PROVE Waiting'
  BY <1>15 DEF AsyncTry
<1>16. ASSUME NEW t \in Tasks, AsyncPush(t) PROVE Waiting'
  <2>1. PICK w \in Waits :
          /\ Unreferenced(w)
          /\ asyncList' = asyncList \cup {w}
          /\ wait' = [wait EXCEPT ![t] = w]
          /\ wstate' = [wstate EXCEPT ![w] = "waiting"]
    BY <1>16 DEF AsyncPush
  <2>2. TakenByUnlocker'
    BY <1>16, <2>1 DEF AsyncPush, Unreferenced
  <2>3. AwaitingIsKnown'
    <3>1. ASSUME NEW u \in Tasks, u # t
          PROVE  wait'[u] = wait[u] /\ pc'[u] = pc[u] /\ wait[u] # w
      BY <1>16, <2>1, <3>1 DEF AsyncPush, Unreferenced
    <3>2. wait'[t] = w /\ pc'[t] = "await" /\ wstate'[w] = "waiting" /\ w \in asyncList'
      BY <1>16, <2>1 DEF AsyncPush
    <3> QED BY <1>16, <2>1, <3>1, <3>2 DEF AsyncPush
  <2>4. AsyncQueueExact'
    BY <1>16, <2>1 DEF AsyncPush, Unreferenced
  <2>5. /\ MutualExclusion' /\ SpinHeld'
        /\ SyncCovered' /\ AsyncCovered' /\ ParkedIsKnown'
    BY <1>16, <2>1 DEF AsyncPush
  <2> QED BY <2>2, <2>3, <2>4, <2>5
<1>17. ASSUME NEW t \in Tasks, AwaitWoken(t) PROVE Waiting'
  BY <1>17 DEF AwaitWoken, DropWait
<1>18. ASSUME NEW t \in Tasks, AwaitTimedOut(t) PROVE Waiting'
  BY <1>18 DEF AwaitTimedOut, DropWait
<1>19. ASSUME NEW t \in Tasks, AwaitCancelled(t) PROVE Waiting'
  BY <1>19 DEF AwaitCancelled, DropWait
<1>20. CASE UNCHANGED vars
  BY <1>20 DEF vars
<1> QED
  BY <1>1, <1>2, <1>3, <1>4, <1>5, <1>6, <1>7, <1>8, <1>9, <1>10, <1>11, <1>12,
     <1>13, <1>14, <1>15, <1>16, <1>17, <1>18, <1>19, <1>20
  DEF Next, Locking, Awaiting, Unlocking, Finished

\* The inductive invariant holds in every reachable state.
THEOREM Invariance == Spec => []IInv
<1>1. IInv /\ [Next]_vars => IInv'
  BY TypeStep, WaitingStep DEF IInv, Waiting
<1> QED BY InitInv, <1>1, PTL DEF Spec

\* The variables always have their types.
THEOREM TypeCorrect == Spec => []TypeOK
<1>1. IInv => TypeOK
  BY DEF IInv
<1> QED BY Invariance, <1>1, PTL

\* At most one guard exists at a time, and data_lock says whether one does.
THEOREM MutexExcludes == Spec => []MutualExclusion
<1>1. IInv => MutualExclusion
  BY DEF IInv
<1> QED BY Invariance, <1>1, PTL

\* No wake-up is ever lost: nobody sleeps on a free lock that nobody is still
\* unlocking.
THEOREM NoLostWakeup == Spec => []NoSleepOnFreeLock
<1>1. IInv => NoSleepOnFreeLock
  <2> SUFFICES ASSUME IInv, ~data_lock,
                      \A a \in Actors : pc[a] \notin {"take_sync", "unpark", "wake"}
               PROVE  /\ \A t \in Threads : pc[t] = "park" => token[t]
                      /\ \A t \in Tasks : pc[t] = "await" => wstate[wait[t]] = "woken"
    BY DEF NoSleepOnFreeLock
  <2>1. syncList = {} /\ asyncList = {}
    BY DEF IInv, SyncCovered, AsyncCovered
  <2>2. \A a \in Actors : unparks[a] = {} /\ wakes[a] = {}
    BY DEF IInv, TakenByUnlocker
  <2> QED BY <2>1, <2>2 DEF IInv, ParkedIsKnown, AwaitingIsKnown
<1> QED BY Invariance, <1>1, PTL

\* A wait that is over, whether woken, timed out or cancelled, leaves no entry
\* in the queue.
THEOREM NoStaleWaiter == Spec => []AsyncQueueExact
<1>1. IInv => AsyncQueueExact
  BY DEF IInv
<1> QED BY Invariance, <1>1, PTL

\* Moving one actor's program counter moves its state in the abstract lock.
LEMMA PhaseMoves ==
  ASSUME TypeOK, NEW a \in Actors, NEW p \in PCs, Goto(a, p)
  PROVE  LockState' = [LockState EXCEPT ![a] = Phase(p)]
  BY DEF TypeOK, Goto, LockState, PCs

\* A step of the mutex is a step of the abstract lock or leaves it unchanged.
LEMMA StepRefines ==
  ASSUME IInv, [Next]_vars
  PROVE  [Abstract!Next]_LockState
<1> USE DEF Abstract!Next
<1>0. TypeOK /\ MutualExclusion
  BY DEF IInv
<1>1. ASSUME NEW a \in Actors, NEW p \in PCs, Goto(a, p), Phase(p) = Phase(pc[a])
      PROVE  LockState' = LockState
  BY <1>0, <1>1, PhaseMoves DEF LockState, TypeOK
<1>2. ASSUME NEW a \in Actors, pc[a] # "holding", Acquire(a)
      PROVE  Abstract!Next
  <2>1. LockState' = [LockState EXCEPT ![a] = "in"]
    BY <1>0, <1>2, PhaseMoves DEF Acquire, Return, Phase, PCs
  <2>2. \A b \in Actors : LockState[b] # "in"
    BY <1>0, <1>2 DEF Acquire, MutualExclusion, LockState, Phase, TypeOK, PCs
  <2>3. Abstract!Enter(a)
    BY <2>1, <2>2 DEF Abstract!Enter, Abstract!Owners
  <2> QED BY <2>3
<1>3. ASSUME NEW a \in Actors, Phase(pc[a]) = "asking", Goto(a, "idle")
      PROVE  Abstract!Next
  <2>1. LockState' = [LockState EXCEPT ![a] = "out"] /\ LockState[a] = "asking"
    BY <1>0, <1>3, PhaseMoves DEF Phase, PCs, LockState
  <2> QED BY <2>1 DEF Abstract!GiveUp
<1>4. ASSUME NEW a \in Actors, Begin(a) PROVE [Abstract!Next]_LockState
  <2>1. CASE TryLock(a)
    BY <2>1, <1>2 DEF TryLock, LockState
  <2>2. ASSUME NEW p \in {"spin", "block", "async"},
               NEW ds \in SUBSET {"none", "ahead", "passed"}, Call(a, p, ds)
        PROVE  Abstract!Next
    <3>1. p \in PCs /\ Phase(p) = "asking" /\ Goto(a, p)
      BY <2>2 DEF Call, Phase, PCs
    <3>2. LockState' = [LockState EXCEPT ![a] = "asking"]
      BY <1>0, <3>1, PhaseMoves
    <3>3. LockState[a] = "out"
      BY <2>2 DEF Call, Phase, LockState
    <3> QED BY <3>2, <3>3 DEF Abstract!Ask
  <2> QED BY <1>4, <2>1, <2>2, BeginCases
<1>5. ASSUME NEW a \in Actors, Release(a) PROVE Abstract!Next
  <2>1. LockState' = [LockState EXCEPT ![a] = "out"] /\ LockState[a] = "in"
    BY <1>0, <1>5, PhaseMoves DEF Release, Phase, PCs, LockState
  <2> QED BY <2>1 DEF Abstract!Leave
<1>6. ASSUME NEW a \in Actors, LastTry(a) PROVE [Abstract!Next]_LockState
  BY <1>6, <1>2, <1>3 DEF LastTry, Return, Phase
<1>7. ASSUME NEW a \in Actors, DeadlinePasses(a) \/ Unlocking(a)
      PROVE  LockState' = LockState
  <2>1. CASE DeadlinePasses(a) \/ Unpark(a) \/ Wake(a)
    BY <2>1 DEF DeadlinePasses, Unpark, Wake, LockState
  <2>2. CASE TakeSync(a) \/ TakeAsync(a) \/ Unlocked(a)
    <3>1. /\ Phase(pc[a]) = "out"
          /\ \E p \in {"unpark", "wake", "idle"} : Goto(a, p)
      BY <2>2 DEF TakeSync, TakeAsync, Unlocked, Phase
    <3> QED BY <3>1, <1>1 DEF Phase, PCs
  <2> QED BY <1>7, <2>1, <2>2 DEF Unlocking
<1>8. ASSUME NEW t \in Threads, Locking(t) \/ ParkSpurious(t)
      PROVE  [Abstract!Next]_LockState
  <2>0. t \in Actors
    BY DEF Actors
  <2>1. CASE SpinSwap(t) \/ SpinGiveUp(t)
    BY <2>0, <2>1, <1>2, <1>3 DEF SpinSwap, SpinGiveUp, Return, Phase
  <2>2. CASE LastTry(t)
    BY <2>0, <2>2, <1>6
  <2>3. CASE BlockTry(t) /\ ~Acquire(t)
    BY <2>0, <2>3, <1>1 DEF BlockTry, Phase, PCs
  <2>4. CASE BlockTry(t) /\ Acquire(t)
    BY <2>0, <2>4, <1>2 DEF BlockTry
  <2>5. CASE BlockPush(t) \/ ParkToken(t) \/ ParkTimesOut(t) \/ ParkSpurious(t)
    BY <2>0, <2>5, <1>1
    DEF BlockPush, ParkToken, ParkTimesOut, ParkSpurious, Unparked, Phase, PCs
  <2> QED BY <1>8, <2>1, <2>2, <2>3, <2>4, <2>5 DEF Locking
<1>9. ASSUME NEW t \in Tasks, Awaiting(t) \/ AwaitCancelled(t)
      PROVE  [Abstract!Next]_LockState
  <2>0. t \in Actors
    BY DEF Actors
  <2>1. CASE AsyncTry(t) /\ ~Acquire(t)
    BY <2>0, <2>1, <1>1 DEF AsyncTry, Phase, PCs
  <2>2. CASE AsyncTry(t) /\ Acquire(t)
    BY <2>0, <2>2, <1>2 DEF AsyncTry
  <2>3. CASE AsyncPush(t) \/ AwaitWoken(t) \/ AwaitTimedOut(t)
    BY <2>0, <2>3, <1>1 DEF AsyncPush, AwaitWoken, AwaitTimedOut, Phase, PCs
  <2>4. CASE AwaitCancelled(t)
    BY <2>0, <2>4, <1>3 DEF AwaitCancelled, Return, Phase
  <2> QED BY <1>9, <2>1, <2>2, <2>3, <2>4 DEF Awaiting
<1>10. CASE UNCHANGED vars
  BY <1>10 DEF vars, LockState
<1> QED BY <1>4, <1>5, <1>6, <1>7, <1>8, <1>9, <1>10 DEF Next, Finished

\* The mutex implements the abstract lock: whatever the strategies do, callers
\* see at most one owner and only asked-for entries.
THEOREM MutexRefines == Spec => Abstract!SafeSpec
<1>1. Init => Abstract!Init
  BY DEF Init, Abstract!Init, LockState, Phase
<1>2. IInv /\ [Next]_vars => [Abstract!Next]_LockState
  BY StepRefines
<1> QED BY Invariance, <1>1, <1>2, PTL DEF Spec, Abstract!SafeSpec

(***************************************************************************)
(* The verdict of a timed call.                                            *)
(***************************************************************************)

\* Whoever tries one last time is late: the other half of the timed calls' verdict.
LateTry == \A a \in Actors : pc[a] = "last" => deadline[a] = "passed"

\* What one step makes of a call's place and of its deadline, for one actor and for
\* the others.
Moves(a) ==
  /\ \A b \in Actors \ {a} : pc'[b] = pc[b] /\ deadline'[b] = deadline[b]
  /\ pc'[a] = "last" => deadline'[a] = "passed"
  /\ Asking(a) /\ pc'[a] = "idle" => (a \in Tasks /\ pc[a] = "await") \/ deadline[a] = "passed"
  /\ pc[a] = "await" /\ pc'[a] = "async" => deadline[a] # "passed"

\* Each action keeps the verdict of a call to the clock.
LEMMA ActorMoves ==
  ASSUME TypeOK, LateTry, NEW a \in Actors,
         \/ Begin(a) \/ DeadlinePasses(a) \/ LastTry(a) \/ Release(a) \/ Unlocking(a)
         \/ a \in Threads /\ (Locking(a) \/ ParkSpurious(a))
         \/ a \in Tasks /\ (Awaiting(a) \/ AwaitCancelled(a))
  PROVE  Moves(a)
<1> USE DEF TypeOK, Goto, Return, Acquire
<1>1. CASE Begin(a)
  <2>1. CASE TryLock(a)
    BY <2>1 DEF TryLock, Moves, Asking, Phase
  <2>2. ASSUME NEW p \in {"spin", "block", "async"}, NEW ds \in SUBSET {"none", "ahead", "passed"},
               Call(a, p, ds)
        PROVE Moves(a)
    BY <2>2 DEF Call, Moves, Asking, Phase
  <2> QED BY <1>1, <2>1, <2>2, BeginCases
<1>2. CASE DeadlinePasses(a)
  BY <1>2 DEF DeadlinePasses, Moves, Asking, Phase
<1>3. CASE LastTry(a)
  BY <1>3 DEF LastTry, LateTry, Moves, Asking, Phase
<1>4. CASE Release(a)
  BY <1>4 DEF Release, Moves, Asking, Phase
<1>5. CASE Unlocking(a)
  BY <1>5 DEF Unlocking, TakeSync, Unpark, TakeAsync, Wake, Unlocked, LateTry, Moves, Asking,
       Phase
<1>6. CASE a \in Threads /\ (SpinSwap(a) \/ SpinGiveUp(a) \/ BlockTry(a) \/ BlockPush(a))
  BY <1>6 DEF SpinSwap, SpinGiveUp, BlockTry, BlockPush, Moves, Asking, Phase
<1>7. CASE a \in Threads /\ (ParkToken(a) \/ ParkTimesOut(a) \/ ParkSpurious(a))
  BY <1>7 DEF ParkToken, ParkTimesOut, ParkSpurious, Unparked, Moves, Asking, Phase
<1>8. CASE a \in Tasks /\ (Awaiting(a) \/ AwaitCancelled(a))
  BY <1>8 DEF Awaiting, AsyncTry, AsyncPush, AwaitWoken, AwaitTimedOut, AwaitCancelled, DropWait,
              Moves, Asking, Phase
<1> QED BY <1>1, <1>2, <1>3, <1>4, <1>5, <1>6, <1>7, <1>8 DEF Locking

\* What VerdictIsTheClocks says of a step.
Verdict ==
  \A a \in Actors :
    /\ (Asking(a) /\ pc'[a] = "idle" /\ ~(a \in Tasks /\ pc[a] = "await")) => deadline[a] = "passed"
    /\ (pc[a] = "await" /\ pc'[a] = "async") => deadline[a] # "passed"
\* Each step does, and keeps LateTry.
LEMMA VerdictStep ==
  TypeOK /\ LateTry /\ [Next]_vars => LateTry' /\ Verdict
<1> SUFFICES ASSUME TypeOK, LateTry, [Next]_vars PROVE LateTry' /\ Verdict
  OBVIOUS
<1>1. ASSUME NEW a \in Actors, Moves(a) PROVE LateTry' /\ Verdict
  BY <1>1 DEF Moves, LateTry, Verdict, Asking, Phase
<1>2. CASE UNCHANGED vars
  BY <1>2 DEF vars, LateTry, Verdict, Asking, Phase
<1>3. CASE Next
  BY <1>1, <1>2, <1>3, ActorMoves DEF Next, Finished, Actors
<1> QED BY <1>2, <1>3

\* The mutex as it is checked beside the runners is the mutex of the theorems above.
LEMMA MutexInLocks == LocksSpec => Spec
<1>1. [LocksNext]_locksVars => [Next]_vars
  BY DEF LocksNext, locksVars
<1> QED BY <1>1, PTL DEF LocksSpec, LocksInit, Spec

\* A timed call returns without the lock only after its deadline, an untimed
\* blocking one never does, and a task that is woken and late does not retry.
THEOREM VerdictHolds == LocksSpec => VerdictIsTheClocks
<1>1. Init => LateTry
  BY DEF Init, LateTry
<1>2. TypeOK /\ LateTry /\ [Next]_vars => LateTry' /\ [Verdict]_vars
  BY VerdictStep
<1>3. [Verdict]_vars
      => [\A a \in Actors :
            /\ (Asking(a) /\ pc'[a] = "idle" /\ ~(a \in Tasks /\ pc[a] = "await"))
                 => deadline[a] = "passed"
            /\ (pc[a] = "await" /\ pc'[a] = "async") => deadline[a] # "passed"]_vars
  BY DEF Verdict
<1> QED BY <1>1, <1>2, <1>3, TypeCorrect, MutexInLocks, PTL DEF Spec, VerdictIsTheClocks

(***************************************************************************)
(* The runners of one user and their browsers.                             *)
(***************************************************************************)

\* The names of a runner's end and of the files' owners.
LEMMA RunnerNames ==
  /\ B!Nobody \notin Runners /\ B!Gone \notin Runners /\ "empty" \notin Runners
  /\ B!Slots = 0..(MaxLimit - 1) /\ 0 \in B!Slots /\ MaxLimit \in Nat \ {0}
  BY RunnersAssumption DEF B!Nobody, B!Gone, B!Slots

\* No runner has begun, and no file names one.
LEMMA BrowsersInit == B!Init => B!IInv
<1> SUFFICES ASSUME B!Init PROVE B!IInv
  OBVIOUS
<1> USE RunnerNames
<1>1. \A r \in Runners : where[r] = "idle" /\ life[r] = "running" /\ watchdog[r] = "off"
                         /\ driver[r] = "none" /\ at[r] = 0 /\ limit[r] = 1
  BY DEF B!Init
<1>2. mode \in [Runners -> {"ephemeral", "reuse"}]
  BY DEF B!Init
<1>3. B!TypeOK
  BY <1>2 DEF B!Init, B!TypeOK, B!Alone, B!Sharing
<1>4. \A s \in B!Slots, r \in Runners : slot[s] # r
  BY DEF B!Init
<1>5. \A r \in Runners : lock # r
  BY DEF B!Init
<1>6. \A r \in Runners : ~B!Admitted(r) /\ ~B!HasLock(r) /\ B!AboutOK(r)
  BY <1>1 DEF B!Admitted, B!HasLock, B!AboutOK
<1>7. B!OneOwner
  BY <1>6 DEF B!Init, B!OneOwner
<1> QED BY <1>1, <1>3, <1>4, <1>5, <1>6, <1>7
        DEF B!IInv, B!PlaceOK, B!FilesOK, B!DriverOK, B!Alone, B!Sharing

\* What the invariant says of one runner.
Owns(r) == r \notin robbed => (B!Admitted(r) => slot[at[r]] = r) /\ (B!HasLock(r) => lock = r)
RunnerOK(r) == /\ life[r] = "exited" => where[r] = "over"
               /\ B!AboutOK(r) /\ (r \in evictors => r \in late)
               /\ B!Undisturbed(r) => B!PlaceOK(r) /\ B!FilesOK(r) /\ B!DriverOK(r)
               /\ Owns(r)
\* The invariant is the types and what it says of each runner.
LEMMA ByRunner == B!IInv <=> B!TypeOK /\ \A r \in Runners : RunnerOK(r)
  BY DEF B!IInv, B!OneOwner, RunnerOK, Owns, B!TypeOK
\* The same of the next state.
LEMMA ByRunnerNext == B!IInv' <=> B!TypeOK' /\ \A r \in Runners : RunnerOK(r)'
  BY DEF B!IInv, B!OneOwner, RunnerOK, Owns, B!TypeOK

\* The runners that a step leaves alone are as they were.
Others(r) == \A q \in Runners \ {r} :
  /\ where'[q] = where[q] /\ at'[q] = at[q] /\ life'[q] = life[q]
  /\ watchdog'[q] = watchdog[q] /\ driver'[q] = driver[q]
\* No other runner is robbed, or robs.
Unrobbed(r) == \A q \in Runners \ {r} :
  (q \in robbed' <=> q \in robbed) /\ (q \in late' <=> q \in late) /\ (q \in evictors' <=> q \in evictors)
LEMMA OthersKeep ==
  ASSUME B!IInv, NEW r \in Runners, mode' = mode, Others(r),
         slot' = slot, lock' = lock, Unrobbed(r), B!TypeOK', RunnerOK(r)'
  PROVE  B!IInv'
<1>1. ASSUME NEW q \in Runners, q # r PROVE RunnerOK(q)'
  BY <1>1, ByRunner DEF RunnerOK, Owns, B!Undisturbed, B!PlaceOK, B!FilesOK, B!DriverOK,
       B!Admitted,
       B!HasLock, B!Running, B!Ephemeral, B!AboutOK, Others, Unrobbed
<1> QED BY <1>1, ByRunnerNext

\* The next slot is below the limit, which is at most MaxLimit.
LEMMA NextSlotType ==
  ASSUME B!TypeOK, NEW r \in Runners, B!NextSlot(r)
  PROVE  at' \in [Runners -> B!Slots]
<1>1. limit[r] \in 1..MaxLimit /\ at[r] \in B!Slots
  BY DEF B!TypeOK
<1>2. at[r] + 1 < limit[r] => at[r] + 1 \in B!Slots
  BY <1>1, RunnerNames
<1>3. PICK a \in B!Slots : at' = [at EXCEPT ![r] = a]
  <2>1. CASE at[r] + 1 < limit[r]
    BY <1>2, <2>1 DEF B!NextSlot
  <2>2. CASE ~(at[r] + 1 < limit[r])
    BY <2>2, RunnerNames DEF B!NextSlot
  <2> QED BY <2>1, <2>2
<1> QED BY <1>3 DEF B!TypeOK

\* A runner begins with a browser of its own, or with the lock.
LEMMA OpenKeeps == ASSUME B!IInv, NEW r \in Runners, B!Open(r) PROVE B!IInv'
<1>1. B!TypeOK'
  BY ByRunner, RunnerNames DEF B!Open, B!Step, B!Goto, B!fileVars, B!files, B!thefts,
       B!endVars, B!runnerVars, B!places, B!TypeOK, B!Alone, B!Sharing, B!Ephemeral, B!Running
<1>2. Others(r) /\ mode' = mode /\ slot' = slot /\ lock' = lock /\ Unrobbed(r)
  BY ByRunner DEF B!Open, B!Step, B!Goto, B!fileVars, B!files, B!thefts, B!endVars,
       B!runnerVars, B!places, B!TypeOK, Others, Unrobbed
<1>3. RunnerOK(r)'
  BY ByRunner DEF B!Open, B!Step, B!Goto, B!fileVars, B!files, B!thefts, B!endVars,
       B!runnerVars, B!places, RunnerOK, Owns, B!AboutOK, B!Undisturbed, B!PlaceOK, B!FilesOK,
       B!DriverOK, B!Admitted, B!HasLock, B!Running, B!Ephemeral, B!TypeOK, B!Alone, B!Sharing
<1> QED BY <1>1, <1>2, <1>3, OthersKeep

\* A runner reads the limit and looks at the first slot.
LEMMA AttemptKeeps == ASSUME B!IInv, NEW r \in Runners, B!Attempt(r) PROVE B!IInv'
<1>1. B!TypeOK'
  BY ByRunner, RunnerNames DEF B!Attempt, B!Step, B!Goto, B!fileVars, B!files, B!thefts,
       B!endVars, B!runnerVars, B!places, B!TypeOK, B!Alone, B!Sharing, B!Ephemeral, B!Running
<1>2. Others(r) /\ mode' = mode /\ slot' = slot /\ lock' = lock /\ Unrobbed(r)
  BY ByRunner DEF B!Attempt, B!Step, B!Goto, B!fileVars, B!files, B!thefts, B!endVars,
       B!runnerVars, B!places, B!TypeOK, Others, Unrobbed
<1>3. RunnerOK(r)'
  BY ByRunner DEF B!Attempt, B!Step, B!Goto, B!fileVars, B!files, B!thefts, B!endVars,
       B!runnerVars, B!places, RunnerOK, Owns, B!AboutOK, B!Undisturbed, B!PlaceOK, B!FilesOK,
       B!DriverOK, B!Admitted, B!HasLock, B!Running, B!Ephemeral, B!TypeOK, B!Alone, B!Sharing
<1> QED BY <1>1, <1>2, <1>3, OthersKeep

\* A slot is read, or judged by what was read, or the next one is looked at.
LEMMA JudgeKeeps ==
  ASSUME B!IInv, NEW r \in Runners, B!Judge(r) \/ B!Probe(r) PROVE B!IInv'
<1>1. B!TypeOK /\ at[r] \in B!Slots /\ where[r] \in {"judge", "probe"} /\ B!Running(r)
  BY ByRunner DEF B!Judge, B!Probe, B!TypeOK
<1>2. /\ mode' = mode /\ procfs' = procfs /\ limit' = limit /\ UNCHANGED <<B!endVars, B!fileVars>>
  BY DEF B!Judge, B!Probe
<1>3. PICK p \in {"claim", "attempt", "probe", "remove"} : where' = [where EXCEPT ![r] = p]
  BY DEF B!Judge, B!Probe, B!NextSlot, B!Goto
<1>4. at' \in [Runners -> B!Slots] /\ \A q \in Runners \ {r} : at'[q] = at[q]
  BY <1>1, NextSlotType DEF B!Judge, B!Probe, B!NextSlot, B!TypeOK
<1>5. named' \in [Runners -> Runners \cup {B!Nobody, B!Gone, "empty"}]
  <2>1. slot[at[r]] \in Runners \cup {B!Nobody, B!Gone, "empty"}
    BY <1>1 DEF B!TypeOK
  <2>2. PICK v \in Runners \cup {B!Nobody, B!Gone, "empty"} :
          named' = named \/ named' = [named EXCEPT ![r] = v]
    BY <2>1 DEF B!Judge, B!Probe
  <2> QED BY <1>1, <2>2 DEF B!TypeOK
<1>6. B!TypeOK'
  BY <1>1, <1>2, <1>3, <1>4, <1>5 DEF B!TypeOK, B!Alone, B!endVars, B!fileVars, B!files,
       B!thefts
<1>7. Others(r) /\ mode' = mode /\ slot' = slot /\ lock' = lock /\ Unrobbed(r) /\ where'[r] = p
  BY <1>1, <1>2, <1>3, <1>4 DEF B!endVars, B!fileVars, B!files, B!thefts, B!TypeOK, Others,
       Unrobbed
<1>8. RunnerOK(r)'
  BY <1>1, <1>2, <1>7, ByRunner DEF B!endVars, B!fileVars, B!files, B!thefts,
       RunnerOK, Owns, B!AboutOK, B!Undisturbed, B!PlaceOK, B!FilesOK, B!DriverOK,
       B!Admitted, B!HasLock, B!Running, B!Ephemeral, B!Alone, B!Sharing
<1> QED BY <1>6, <1>7, <1>8, OthersKeep

\* The driver of a runner starts, or does not.
LEMMA SpawnDriverKeeps == ASSUME B!IInv, NEW r \in Runners, B!SpawnDriver(r) PROVE B!IInv'
<1>1. B!TypeOK'
  <2>1. /\ where' \in [Runners -> B!Alone \cup B!Sharing
                        \cup {"idle", "setup", "abandon", "using", "exit", "over"}]
        /\ driver' \in [Runners -> {"none", "up", "session", "dead"}]
    BY ByRunner DEF B!SpawnDriver, B!Fails, B!Goto, B!TypeOK, B!Alone, B!Sharing
  <2> QED BY <2>1, ByRunner DEF B!SpawnDriver, B!places, B!fileVars, B!files, B!thefts, B!TypeOK
<1>2. Others(r) /\ mode' = mode /\ slot' = slot /\ lock' = lock /\ Unrobbed(r)
  BY ByRunner DEF B!SpawnDriver, B!Fails, B!Step, B!Goto, B!fileVars, B!files, B!thefts,
       B!endVars, B!runnerVars, B!places, B!TypeOK, Others, Unrobbed
<1>3. RunnerOK(r)'
  BY ByRunner DEF B!SpawnDriver, B!Fails, B!Step, B!Goto, B!fileVars, B!files, B!thefts,
       B!endVars, B!runnerVars, B!places, RunnerOK, Owns, B!AboutOK, B!Undisturbed, B!PlaceOK,
       B!FilesOK, B!DriverOK, B!Admitted, B!HasLock, B!Running, B!Ephemeral, B!TypeOK,
       B!Alone, B!Sharing
<1> QED BY <1>1, <1>2, <1>3, OthersKeep

\* A runner tells its watchdog what to clean up.
LEMMA RegisterKeeps == ASSUME B!IInv, NEW r \in Runners, B!Register(r) PROVE B!IInv'
<1>1. B!TypeOK'
  <2>1. /\ where' \in [Runners -> B!Alone \cup B!Sharing
                        \cup {"idle", "setup", "abandon", "using", "exit", "over"}]
        /\ driver' \in [Runners -> {"none", "up", "session", "dead"}]
    BY ByRunner DEF B!Register, B!Goto, B!TypeOK, B!Alone, B!Sharing
  <2> QED BY <2>1, ByRunner DEF B!Register, B!places, B!fileVars, B!files, B!thefts, B!TypeOK
<1>2. Others(r) /\ mode' = mode /\ slot' = slot /\ lock' = lock /\ Unrobbed(r)
  BY ByRunner DEF B!Register, B!Step, B!Goto, B!fileVars, B!files, B!thefts, B!endVars,
       B!runnerVars, B!places, B!TypeOK, Others, Unrobbed
<1>3. RunnerOK(r)'
  BY ByRunner DEF B!Register, B!Step, B!Goto, B!fileVars, B!files, B!thefts, B!endVars,
       B!runnerVars, B!places, RunnerOK, Owns, B!AboutOK, B!Undisturbed, B!PlaceOK, B!FilesOK,
       B!DriverOK, B!Admitted, B!HasLock, B!Running, B!Ephemeral, B!TypeOK, B!Alone, B!Sharing
<1> QED BY <1>1, <1>2, <1>3, OthersKeep

\* A driver makes a session, or is given up.
LEMMA SetupKeeps == ASSUME B!IInv, NEW r \in Runners, B!Setup(r) PROVE B!IInv'
<1>1. B!TypeOK'
  <2>1. /\ where' \in [Runners -> B!Alone \cup B!Sharing
                        \cup {"idle", "setup", "abandon", "using", "exit", "over"}]
        /\ driver' \in [Runners -> {"none", "up", "session", "dead"}]
    BY ByRunner DEF B!Setup, B!Goto, B!TypeOK, B!Alone, B!Sharing
  <2> QED BY <2>1, ByRunner DEF B!Setup, B!places, B!fileVars, B!files, B!thefts, B!TypeOK
<1>2. Others(r) /\ mode' = mode /\ slot' = slot /\ lock' = lock /\ Unrobbed(r)
  BY ByRunner DEF B!Setup, B!Step, B!Goto, B!fileVars, B!files, B!thefts, B!endVars,
       B!runnerVars, B!places, B!TypeOK, Others, Unrobbed
<1>3. RunnerOK(r)'
  BY ByRunner DEF B!Setup, B!Step, B!Goto, B!fileVars, B!files, B!thefts, B!endVars,
       B!runnerVars, B!places, RunnerOK, Owns, B!AboutOK, B!Undisturbed, B!PlaceOK, B!FilesOK,
       B!DriverOK, B!Admitted, B!HasLock, B!Running, B!Ephemeral, B!TypeOK, B!Alone, B!Sharing
<1> QED BY <1>1, <1>2, <1>3, OthersKeep

\* A driver without a session is killed before slot or lock are released.
LEMMA AbandonKeeps == ASSUME B!IInv, NEW r \in Runners, B!Abandon(r) PROVE B!IInv'
<1>1. B!TypeOK'
  BY ByRunner, RunnerNames DEF B!Abandon, B!Kill, B!Fails, B!Step, B!Goto, B!fileVars,
       B!files, B!thefts, B!endVars, B!runnerVars, B!places, B!TypeOK, B!Alone, B!Sharing,
       B!Ephemeral, B!Running
<1>2. Others(r) /\ mode' = mode /\ slot' = slot /\ lock' = lock /\ Unrobbed(r)
  BY ByRunner DEF B!Abandon, B!Kill, B!Fails, B!Step, B!Goto, B!fileVars, B!files, B!thefts,
       B!endVars, B!runnerVars, B!places, B!TypeOK, Others, Unrobbed
<1>3. RunnerOK(r)'
  BY ByRunner DEF B!Abandon, B!Kill, B!Fails, B!Step, B!Goto, B!fileVars, B!files, B!thefts,
       B!endVars, B!runnerVars, B!places, RunnerOK, Owns, B!AboutOK, B!Undisturbed, B!PlaceOK,
       B!FilesOK, B!DriverOK, B!Admitted, B!HasLock, B!Running, B!Ephemeral, B!TypeOK,
       B!Alone, B!Sharing
<1> QED BY <1>1, <1>2, <1>3, OthersKeep

\* The tests are over.
LEMMA DropBrowserKeeps == ASSUME B!IInv, NEW r \in Runners, B!DropBrowser(r) PROVE B!IInv'
<1>1. B!TypeOK'
  BY ByRunner, RunnerNames DEF B!DropBrowser, B!Step, B!Goto, B!fileVars, B!files, B!thefts,
       B!endVars, B!runnerVars, B!places, B!TypeOK, B!Alone, B!Sharing, B!Ephemeral, B!Running
<1>2. Others(r) /\ mode' = mode /\ slot' = slot /\ lock' = lock /\ Unrobbed(r)
  BY ByRunner DEF B!DropBrowser, B!Step, B!Goto, B!fileVars, B!files, B!thefts, B!endVars,
       B!runnerVars, B!places, B!TypeOK, Others, Unrobbed
<1>3. RunnerOK(r)'
  BY ByRunner DEF B!DropBrowser, B!Step, B!Goto, B!fileVars, B!files, B!thefts, B!endVars,
       B!runnerVars, B!places, RunnerOK, Owns, B!AboutOK, B!Undisturbed, B!PlaceOK, B!FilesOK,
       B!DriverOK, B!Admitted, B!HasLock, B!Running, B!Ephemeral, B!TypeOK, B!Alone, B!Sharing
<1> QED BY <1>1, <1>2, <1>3, OthersKeep

\* A session is closed if its driver answers.
LEMMA CloseSessionKeeps == ASSUME B!IInv, NEW r \in Runners, B!CloseSession(r) PROVE B!IInv'
<1>1. B!TypeOK'
  BY ByRunner, RunnerNames DEF B!CloseSession, B!Step, B!Goto, B!fileVars, B!files, B!thefts,
       B!endVars, B!runnerVars, B!places, B!TypeOK, B!Alone, B!Sharing, B!Ephemeral, B!Running
<1>2. Others(r) /\ mode' = mode /\ slot' = slot /\ lock' = lock /\ Unrobbed(r)
  BY ByRunner DEF B!CloseSession, B!Step, B!Goto, B!fileVars, B!files, B!thefts, B!endVars,
       B!runnerVars, B!places, B!TypeOK, Others, Unrobbed
<1>3. RunnerOK(r)'
  BY ByRunner DEF B!CloseSession, B!Step, B!Goto, B!fileVars, B!files, B!thefts, B!endVars,
       B!runnerVars, B!places, RunnerOK, Owns, B!AboutOK, B!Undisturbed, B!PlaceOK, B!FilesOK,
       B!DriverOK, B!Admitted, B!HasLock, B!Running, B!Ephemeral, B!TypeOK, B!Alone, B!Sharing
<1> QED BY <1>1, <1>2, <1>3, OthersKeep

\* A driver is killed before its slot is released.
LEMMA KillDriverKeeps == ASSUME B!IInv, NEW r \in Runners, B!KillDriver(r) PROVE B!IInv'
<1>1. B!TypeOK'
  BY ByRunner, RunnerNames DEF B!KillDriver, B!Kill, B!Step, B!Goto, B!fileVars, B!files,
       B!thefts, B!endVars, B!runnerVars, B!places, B!TypeOK, B!Alone, B!Sharing, B!Ephemeral,
       B!Running
<1>2. Others(r) /\ mode' = mode /\ slot' = slot /\ lock' = lock /\ Unrobbed(r)
  BY ByRunner DEF B!KillDriver, B!Kill, B!Step, B!Goto, B!fileVars, B!files, B!thefts,
       B!endVars, B!runnerVars, B!places, B!TypeOK, Others, Unrobbed
<1>3. RunnerOK(r)'
  BY ByRunner DEF B!KillDriver, B!Kill, B!Step, B!Goto, B!fileVars, B!files, B!thefts,
       B!endVars, B!runnerVars, B!places, RunnerOK, Owns, B!AboutOK, B!Undisturbed, B!PlaceOK,
       B!FilesOK, B!DriverOK, B!Admitted, B!HasLock, B!Running, B!Ephemeral, B!TypeOK,
       B!Alone, B!Sharing
<1> QED BY <1>1, <1>2, <1>3, OthersKeep

\* A shared browser that is alive is used under the lock.
LEMMA ReuseKeeps == ASSUME B!IInv, NEW r \in Runners, B!Reuse(r) PROVE B!IInv'
<1>1. B!TypeOK'
  BY ByRunner, RunnerNames DEF B!Reuse, B!Step, B!Goto, B!fileVars, B!files, B!thefts,
       B!endVars, B!runnerVars, B!places, B!TypeOK, B!Alone, B!Sharing, B!Ephemeral, B!Running
<1>2. Others(r) /\ mode' = mode /\ slot' = slot /\ lock' = lock /\ Unrobbed(r)
  BY ByRunner DEF B!Reuse, B!Step, B!Goto, B!fileVars, B!files, B!thefts, B!endVars,
       B!runnerVars, B!places, B!TypeOK, Others, Unrobbed
<1>3. RunnerOK(r)'
  BY ByRunner DEF B!Reuse, B!Step, B!Goto, B!fileVars, B!files, B!thefts, B!endVars,
       B!runnerVars, B!places, RunnerOK, Owns, B!AboutOK, B!Undisturbed, B!PlaceOK, B!FilesOK,
       B!DriverOK, B!Admitted, B!HasLock, B!Running, B!Ephemeral, B!TypeOK, B!Alone, B!Sharing
<1> QED BY <1>1, <1>2, <1>3, OthersKeep

\* A new shared browser is recorded under the lock.
LEMMA WriteStateKeeps == ASSUME B!IInv, NEW r \in Runners, B!WriteState(r) PROVE B!IInv'
<1>1. B!TypeOK'
  BY ByRunner, RunnerNames DEF B!WriteState, B!Step, B!Goto, B!fileVars, B!files, B!thefts,
       B!endVars, B!runnerVars, B!places, B!TypeOK, B!Alone, B!Sharing, B!Ephemeral, B!Running
<1>2. Others(r) /\ mode' = mode /\ slot' = slot /\ lock' = lock /\ Unrobbed(r)
  BY ByRunner DEF B!WriteState, B!Step, B!Goto, B!fileVars, B!files, B!thefts, B!endVars,
       B!runnerVars, B!places, B!TypeOK, Others, Unrobbed
<1>3. RunnerOK(r)'
  BY ByRunner DEF B!WriteState, B!Step, B!Goto, B!fileVars, B!files, B!thefts, B!endVars,
       B!runnerVars, B!places, RunnerOK, Owns, B!AboutOK, B!Undisturbed, B!PlaceOK, B!FilesOK,
       B!DriverOK, B!Admitted, B!HasLock, B!Running, B!Ephemeral, B!TypeOK, B!Alone, B!Sharing
<1> QED BY <1>1, <1>2, <1>3, OthersKeep

\* A runner exits after it has released what it had.
LEMMA ExitKeeps == ASSUME B!IInv, NEW r \in Runners, B!Exit(r) PROVE B!IInv'
<1>1. B!TypeOK'
  BY ByRunner, RunnerNames DEF B!Exit, B!Ends, B!Step, B!Goto, B!fileVars, B!files, B!thefts,
       B!endVars, B!runnerVars, B!places, B!TypeOK, B!Alone, B!Sharing, B!Ephemeral, B!Running
<1>2. Others(r) /\ mode' = mode /\ slot' = slot /\ lock' = lock /\ Unrobbed(r)
  BY ByRunner DEF B!Exit, B!Ends, B!Step, B!Goto, B!fileVars, B!files, B!thefts, B!endVars,
       B!runnerVars, B!places, B!TypeOK, Others, Unrobbed
<1>3. RunnerOK(r)'
  BY ByRunner DEF B!Exit, B!Ends, B!Step, B!Goto, B!fileVars, B!files, B!thefts, B!endVars,
       B!runnerVars, B!places, RunnerOK, Owns, B!AboutOK, B!Undisturbed, B!PlaceOK, B!FilesOK,
       B!DriverOK, B!Admitted, B!HasLock, B!Running, B!Ephemeral, B!TypeOK, B!Alone, B!Sharing
<1> QED BY <1>1, <1>2, <1>3, OthersKeep

\* A signal is recorded.
LEMMA SignalKeeps == ASSUME B!IInv, NEW r \in Runners, B!Signal(r) PROVE B!IInv'
<1>1. B!TypeOK'
  BY ByRunner, RunnerNames DEF B!Signal, B!Step, B!Goto, B!fileVars, B!files, B!thefts,
       B!endVars, B!runnerVars, B!places, B!TypeOK, B!Alone, B!Sharing, B!Ephemeral, B!Running
<1>2. Others(r) /\ mode' = mode /\ slot' = slot /\ lock' = lock /\ Unrobbed(r)
  BY ByRunner DEF B!Signal, B!Step, B!Goto, B!fileVars, B!files, B!thefts, B!endVars,
       B!runnerVars, B!places, B!TypeOK, Others, Unrobbed
<1>3. RunnerOK(r)'
  BY ByRunner DEF B!Signal, B!Step, B!Goto, B!fileVars, B!files, B!thefts, B!endVars,
       B!runnerVars, B!places, RunnerOK, Owns, B!AboutOK, B!Undisturbed, B!PlaceOK, B!FilesOK,
       B!DriverOK, B!Admitted, B!HasLock, B!Running, B!Ephemeral, B!TypeOK, B!Alone, B!Sharing
<1> QED BY <1>1, <1>2, <1>3, OthersKeep

\* A signal ends a runner that has not taken it over.
LEMMA SignalUnhandledKeeps == ASSUME B!IInv, NEW r \in Runners, B!SignalUnhandled(r) PROVE B!IInv'
<1>1. B!TypeOK'
  BY ByRunner, RunnerNames DEF B!SignalUnhandled, B!Ends, B!Step, B!Goto, B!fileVars, B!files,
       B!thefts, B!endVars, B!runnerVars, B!places, B!TypeOK, B!Alone, B!Sharing, B!Ephemeral,
       B!Running
<1>2. Others(r) /\ mode' = mode /\ slot' = slot /\ lock' = lock /\ Unrobbed(r)
  BY ByRunner DEF B!SignalUnhandled, B!Ends, B!Step, B!Goto, B!fileVars, B!files, B!thefts,
       B!endVars, B!runnerVars, B!places, B!TypeOK, Others, Unrobbed
<1>3. RunnerOK(r)'
  BY ByRunner DEF B!SignalUnhandled, B!Ends, B!Step, B!Goto, B!fileVars, B!files, B!thefts,
       B!endVars, B!runnerVars, B!places, RunnerOK, Owns, B!AboutOK, B!Undisturbed, B!PlaceOK,
       B!FilesOK, B!DriverOK, B!Admitted, B!HasLock, B!Running, B!Ephemeral, B!TypeOK,
       B!Alone, B!Sharing
<1> QED BY <1>1, <1>2, <1>3, OthersKeep

\* The watchdog takes what is to be cleaned up.
LEMMA NoticeKeeps == ASSUME B!IInv, NEW r \in Runners, B!Notice(r) PROVE B!IInv'
<1>1. B!TypeOK'
  BY ByRunner, RunnerNames DEF B!Notice, B!Step, B!Goto, B!fileVars, B!files, B!thefts,
       B!endVars, B!runnerVars, B!places, B!TypeOK, B!Alone, B!Sharing, B!Ephemeral, B!Running
<1>2. Others(r) /\ mode' = mode /\ slot' = slot /\ lock' = lock /\ Unrobbed(r)
  BY ByRunner DEF B!Notice, B!Step, B!Goto, B!fileVars, B!files, B!thefts, B!endVars,
       B!runnerVars, B!places, B!TypeOK, Others, Unrobbed
<1>3. RunnerOK(r)'
  BY ByRunner DEF B!Notice, B!Step, B!Goto, B!fileVars, B!files, B!thefts, B!endVars,
       B!runnerVars, B!places, RunnerOK, Owns, B!AboutOK, B!Undisturbed, B!PlaceOK, B!FilesOK,
       B!DriverOK, B!Admitted, B!HasLock, B!Running, B!Ephemeral, B!TypeOK, B!Alone, B!Sharing
<1> QED BY <1>1, <1>2, <1>3, OthersKeep

\* The watchdog ends a runner that has nothing to clean up.
LEMMA NoticeNothingToCloseKeeps == ASSUME B!IInv, NEW r \in Runners, B!NoticeNothingToClose(r) PROVE B!IInv'
<1>1. B!TypeOK'
  BY ByRunner, RunnerNames DEF B!NoticeNothingToClose, B!Ends, B!Step, B!Goto, B!fileVars,
       B!files, B!thefts, B!endVars, B!runnerVars, B!places, B!TypeOK, B!Alone, B!Sharing,
       B!Ephemeral, B!Running
<1>2. Others(r) /\ mode' = mode /\ slot' = slot /\ lock' = lock /\ Unrobbed(r)
  BY ByRunner DEF B!NoticeNothingToClose, B!Ends, B!Step, B!Goto, B!fileVars, B!files,
       B!thefts, B!endVars, B!runnerVars, B!places, B!TypeOK, Others, Unrobbed
<1>3. RunnerOK(r)'
  BY ByRunner DEF B!NoticeNothingToClose, B!Ends, B!Step, B!Goto, B!fileVars, B!files,
       B!thefts, B!endVars, B!runnerVars, B!places, RunnerOK, Owns, B!AboutOK, B!Undisturbed,
       B!PlaceOK, B!FilesOK, B!DriverOK, B!Admitted, B!HasLock, B!Running, B!Ephemeral,
       B!TypeOK, B!Alone, B!Sharing
<1> QED BY <1>1, <1>2, <1>3, OthersKeep

\* The watchdog closes the session while the runner goes on.
LEMMA TeardownCloseKeeps == ASSUME B!IInv, NEW r \in Runners, B!TeardownClose(r) PROVE B!IInv'
<1>1. B!TypeOK'
  BY ByRunner, RunnerNames DEF B!TeardownClose, B!Step, B!Goto, B!fileVars, B!files, B!thefts,
       B!endVars, B!runnerVars, B!places, B!TypeOK, B!Alone, B!Sharing, B!Ephemeral, B!Running
<1>2. Others(r) /\ mode' = mode /\ slot' = slot /\ lock' = lock /\ Unrobbed(r)
  BY ByRunner DEF B!TeardownClose, B!Step, B!Goto, B!fileVars, B!files, B!thefts, B!endVars,
       B!runnerVars, B!places, B!TypeOK, Others, Unrobbed
<1>3. RunnerOK(r)'
  BY ByRunner DEF B!TeardownClose, B!Step, B!Goto, B!fileVars, B!files, B!thefts, B!endVars,
       B!runnerVars, B!places, RunnerOK, Owns, B!AboutOK, B!Undisturbed, B!PlaceOK, B!FilesOK,
       B!DriverOK, B!Admitted, B!HasLock, B!Running, B!Ephemeral, B!TypeOK, B!Alone, B!Sharing
<1> QED BY <1>1, <1>2, <1>3, OthersKeep

\* The watchdog kills the driver and ends the runner.
LEMMA TeardownKillKeeps == ASSUME B!IInv, NEW r \in Runners, B!TeardownKill(r) PROVE B!IInv'
<1>1. B!TypeOK'
  BY ByRunner, RunnerNames DEF B!TeardownKill, B!Kill, B!Ends, B!Step, B!Goto, B!fileVars,
       B!files, B!thefts, B!endVars, B!runnerVars, B!places, B!TypeOK, B!Alone, B!Sharing,
       B!Ephemeral, B!Running
<1>2. Others(r) /\ mode' = mode /\ slot' = slot /\ lock' = lock /\ Unrobbed(r)
  BY ByRunner DEF B!TeardownKill, B!Kill, B!Ends, B!Step, B!Goto, B!fileVars, B!files,
       B!thefts, B!endVars, B!runnerVars, B!places, B!TypeOK, Others, Unrobbed
<1>3. RunnerOK(r)'
  BY ByRunner DEF B!TeardownKill, B!Kill, B!Ends, B!Step, B!Goto, B!fileVars, B!files,
       B!thefts, B!endVars, B!runnerVars, B!places, RunnerOK, Owns, B!AboutOK, B!Undisturbed,
       B!PlaceOK, B!FilesOK, B!DriverOK, B!Admitted, B!HasLock, B!Running, B!Ephemeral,
       B!TypeOK, B!Alone, B!Sharing
<1> QED BY <1>1, <1>2, <1>3, OthersKeep

\* A step of one runner on the files: what the others own they keep, unless they
\* are robbed of it, and they come to own nothing.
KeptFrom(r) == \A q \in Runners \ {r} :
  /\ \A x \in B!Slots : slot'[x] = q => slot[x] = q
  /\ lock' = q => lock = q
  /\ (q \in robbed => q \in robbed') /\ (q \in late => q \in late')
  /\ q \in evictors' => q \in evictors
  /\ B!Running(q) /\ (q \notin robbed' \/ (q \notin late' /\ where[q] \in {"unlink", "unlink_lock"})) =>
       /\ \A x \in B!Slots : slot[x] = q => slot'[x] = q
       /\ lock = q => lock' = q
LEMMA FileStep ==
  ASSUME B!IInv, NEW r \in Runners, mode' = mode, Others(r), KeptFrom(r), B!TypeOK', RunnerOK(r)'
  PROVE  B!IInv'
<1>1. ASSUME NEW q \in Runners, q # r PROVE RunnerOK(q)'
  <2>1. /\ where'[q] = where[q] /\ at'[q] = at[q] /\ life'[q] = life[q] /\ mode' = mode
        /\ watchdog'[q] = watchdog[q] /\ driver'[q] = driver[q] /\ at[q] \in B!Slots
    BY <1>1, ByRunner DEF Others, B!TypeOK
  <2>2. RunnerOK(q)
    BY ByRunner
  <2>3. Owns(q)'
    BY <1>1, <2>1, <2>2 DEF RunnerOK, Owns, KeptFrom, B!Admitted, B!HasLock, B!Running,
         B!Ephemeral
  <2>4. B!Undisturbed(q) => B!FilesOK(q)'
    BY <1>1, <2>1, <2>2 DEF RunnerOK, KeptFrom, B!FilesOK, B!Admitted, B!HasLock, B!Running,
         B!Ephemeral
  <2>5. B!AboutOK(q)' /\ (q \in evictors' => q \in late')
    BY <1>1, <2>1, <2>2 DEF RunnerOK, KeptFrom, B!AboutOK, B!Running
  <2> QED BY <2>1, <2>2, <2>3, <2>4, <2>5 DEF RunnerOK, B!Undisturbed, B!PlaceOK, B!DriverOK,
      B!Ephemeral
<1> QED BY <1>1, ByRunnerNext

\* Of a runner that waits no file has the name.
LEMMA Unnamed ==
  ASSUME B!IInv, NEW r \in Runners, B!Running(r)
  PROVE  /\ where[r] \in {"attempt", "claim", "judge", "probe", "remove", "create_again",
                              "lock", "steal", "exit", "idle"}
            => lock # r /\ \A x \in B!Slots : slot[x] # r
         /\ B!Ephemeral(r) => lock # r
         /\ ~B!Ephemeral(r) => \A x \in B!Slots : slot[x] # r
         /\ \A x \in B!Slots : slot[x] = r => at[r] = x
         /\ B!PlaceOK(r) /\ B!DriverOK(r) /\ Owns(r)
         /\ B!AboutOK(r) /\ (r \in evictors => r \in late)
<1>1. RunnerOK(r) /\ B!Undisturbed(r)
  BY ByRunner DEF B!Undisturbed, B!Running
<1> QED BY <1>1 DEF RunnerOK, B!FilesOK, B!Admitted, B!HasLock, B!Running

\* A slot is created in the place of no file, so it is taken from nobody.
LEMMA CreateKeeps ==
  ASSUME B!IInv, NEW r \in Runners, B!Claim(r) \/ B!Reclaim(r) PROVE B!IInv'
<1>1. /\ B!Running(r) /\ where[r] \in {"claim", "create_again"} /\ B!Ephemeral(r)
      /\ B!TypeOK /\ at[r] \in B!Slots
  BY Unnamed, ByRunner DEF B!Claim, B!Reclaim, B!PlaceOK, B!TypeOK, B!Alone
<1>2. /\ mode' = mode /\ life' = life /\ driver' = driver /\ watchdog' = watchdog
      /\ procfs' = procfs /\ named' = named
      /\ lock' = lock /\ state' = state /\ robbed' = robbed /\ late' = late /\ evictors' = evictors
  BY DEF B!Claim, B!Reclaim, B!Create, B!endVars, B!thefts
<1>3. CASE slot[at[r]] = B!Nobody
  <2>1. /\ slot' = [slot EXCEPT ![at[r]] = r] /\ where' = [where EXCEPT ![r] = "admitted"]
        /\ limit' = [limit EXCEPT ![r] = 1] /\ at' = at
    BY <1>3 DEF B!Claim, B!Reclaim, B!Create, B!Goto <2>2. B!TypeOK' BY <1>1, <1>2, <2>1,
         RunnerNames DEF B!TypeOK, B!Alone <2>3. Others(r) BY <1>1, <1>2, <2>1 DEF Others,
         B!TypeOK <2>4. \A x \in B!Slots : slot'[x] = IF x = at[r] THEN r ELSE slot[x] BY
         <1>1, <2>1 DEF B!TypeOK <2>5. KeptFrom(r) BY <1>2, <1>3, <2>4, RunnerNames DEF
         KeptFrom <2>6. where'[r] = "admitted" BY <1>1, <2>1 DEF B!TypeOK <2>7. RunnerOK(r)'
         BY <1>1, <1>2, <2>1, <2>4, <2>6, Unnamed DEF RunnerOK, Owns, B!AboutOK, B!PlaceOK,
         B!DriverOK, B!FilesOK, B!Admitted, B!HasLock, B!Running, B!Ephemeral, B!Sharing <2>
         QED BY <1>2, <2>2, <2>3, <2>5, <2>7, FileStep
<1>4. CASE slot[at[r]] # B!Nobody
  <2>1. slot' = slot /\ limit' = limit /\ (B!NextSlot(r) \/ (B!Goto(r, "judge") /\ at' = at))
    BY <1>4 DEF B!Claim, B!Reclaim, B!Create <2>2. at' \in [Runners -> B!Slots] BY <1>1, <2>1,
         NextSlotType DEF B!TypeOK <2>3. PICK p \in {"claim", "attempt", "judge"} : where' =
         [where EXCEPT ![r] = p] BY <2>1 DEF B!NextSlot, B!Goto <2>4. B!TypeOK' BY <1>1, <1>2,
         <2>1, <2>2, <2>3 DEF B!TypeOK, B!Alone <2>5. Others(r) BY <1>1, <1>2, <2>1, <2>3 DEF
         Others, B!TypeOK, B!NextSlot <2>8. Unrobbed(r) BY <1>2 DEF Unrobbed <2>6. where'[r]
         \in {"claim", "attempt", "judge"} BY <1>1, <2>3 DEF B!TypeOK <2>7. RunnerOK(r)' BY
         <1>1, <1>2, <2>1, <2>6, Unnamed DEF RunnerOK, Owns, B!AboutOK, B!PlaceOK, B!DriverOK,
         B!FilesOK, B!Admitted, B!HasLock, B!Running, B!Ephemeral, B!Sharing <2> QED BY <1>2,
         <2>1, <2>4, <2>5, <2>7, <2>8, OthersKeep
<1> QED BY <1>3, <1>4

\* Whose slot is removed by a waiter, or by a runner that releases what it took for
\* its own, is dead, or robbed.
LEMMA RemoveKeeps ==
  ASSUME B!IInv, NEW r \in Runners, B!Remove(r) \/ B!Unlink(r) PROVE B!IInv'
<1>1. /\ B!Running(r) /\ where[r] \in {"remove", "unlink"} /\ B!Ephemeral(r)
      /\ B!TypeOK /\ at[r] \in B!Slots
  BY Unnamed, ByRunner DEF B!Remove, B!Unlink, B!Step, B!PlaceOK, B!TypeOK, B!Alone
<1>2. /\ mode' = mode /\ life' = life /\ driver' = driver /\ watchdog' = watchdog
      /\ procfs' = procfs /\ named' = named
      /\ limit' = limit /\ at' = at /\ lock' = lock /\ state' = state
      /\ slot' = [slot EXCEPT ![at[r]] = B!Nobody]
  BY DEF B!Remove, B!Unlink, B!Step, B!Goto, B!endVars, B!places
<1>3. PICK p \in {"create_again", "exit"} : where' = [where EXCEPT ![r] = p]
  BY DEF B!Remove, B!Unlink, B!Step, B!Goto
<1>4. /\ robbed' = robbed \cup (({slot[at[r]]} \cap {q \in Runners : B!Running(q)}) \ {r})
      /\ \A q \in Runners : q \in late' <=>
           q \in late \/ (q # r /\ q = slot[at[r]] /\ B!Running(q)
                          /\ where[q] \in {"unlink", "unlink_lock"})
      /\ late' \subseteq Runners
  BY <1>1 DEF B!Remove, B!Unlink, B!Removed, B!Live, B!TypeOK
<1>5. /\ evictors' \subseteq evictors \cup {r}
      /\ r \in evictors' => r \in evictors \/ (where[r] = "unlink" /\ slot[at[r]] # r)
  BY DEF B!Remove, B!Unlink, B!Evicts, B!Step
<1>6. B!TypeOK'
  BY <1>1, <1>2, <1>3, <1>4, <1>5 DEF B!TypeOK, B!Alone
<1>7. Others(r) /\ where'[r] = p
  BY <1>1, <1>2, <1>3 DEF Others, B!TypeOK
<1>8. \A x \in B!Slots : slot'[x] = IF x = at[r] THEN B!Nobody ELSE slot[x]
  BY <1>1, <1>2 DEF B!TypeOK
<1>9. KeptFrom(r)
  BY <1>2, <1>4, <1>5, <1>8, RunnerNames DEF KeptFrom
<1>10. RunnerOK(r)'
  <2>1. r \in evictors' => r \in late'
    BY <1>1, <1>4, <1>5, Unnamed DEF B!AboutOK
  <2> QED BY <1>1, <1>2, <1>7, <1>8, <2>1, Unnamed, RunnerNames DEF RunnerOK, Owns, B!AboutOK,
     B!PlaceOK, B!DriverOK, B!FilesOK, B!Admitted, B!HasLock, B!Running, B!Ephemeral, B!Sharing
<1> QED BY <1>2, <1>6, <1>7, <1>9, <1>10, FileStep

\* A runner that releases its slot or its lock looks at it first: it goes on to remove
\* it only if it finds its own pid.
LEMMA ReleaseKeeps ==
  ASSUME B!IInv, NEW r \in Runners, B!Release(r) \/ B!Unlock(r) PROVE B!IInv'
<1>1. /\ B!Running(r) /\ B!TypeOK /\ at[r] \in B!Slots
      /\ IF B!Ephemeral(r) THEN where[r] = "release" ELSE where[r] = "unlock"
  BY Unnamed, ByRunner DEF B!Release, B!Unlock, B!Step, B!PlaceOK, B!TypeOK, B!Alone, B!Sharing
<1>2. UNCHANGED <<B!places, B!endVars, B!fileVars>>
  BY DEF B!Release, B!Unlock
<1>3. PICK p \in {"unlink", "unlink_lock", "exit"} :
        /\ where' = [where EXCEPT ![r] = p]
        /\ p = "unlink" => slot[at[r]] = r /\ B!Ephemeral(r)
        /\ p = "unlink_lock" => lock = r /\ ~B!Ephemeral(r)
        /\ p = "exit" => IF B!Ephemeral(r) THEN slot[at[r]] # r ELSE lock # r
  BY <1>1 DEF B!Release, B!Unlock, B!Step, B!Goto
<1>4. B!TypeOK'
  BY <1>1, <1>2, <1>3 DEF B!TypeOK, B!Alone, B!Sharing, B!places, B!endVars, B!fileVars,
       B!files, B!thefts
<1>5. Others(r) /\ mode' = mode /\ slot' = slot /\ lock' = lock /\ Unrobbed(r) /\ where'[r] = p
  BY <1>1, <1>2, <1>3 DEF B!places, B!endVars, B!fileVars, B!files, B!thefts, B!TypeOK, Others,
     Unrobbed
<1>6. RunnerOK(r)'
  <2>1. B!DriverOK(r) /\ driver[r] # "up" /\ (B!Ephemeral(r) => driver[r] \in {"none", "dead"})
    BY <1>1, Unnamed, ByRunner DEF B!DriverOK, B!TypeOK
  <2> QED BY <1>1, <1>2, <1>3, <1>5, <2>1, Unnamed DEF B!places, B!endVars, B!fileVars, B!files,
       B!thefts, RunnerOK, Owns, B!AboutOK, B!PlaceOK, B!DriverOK, B!FilesOK,
       B!Admitted, B!HasLock, B!Running, B!Ephemeral, B!Alone, B!Sharing
<1> QED BY <1>4, <1>5, <1>6, OthersKeep

\* The lock is taken when there is none, and removed from under an owner that is then
\* robbed, unless it is the one that removes it.
LEMMA LockKeeps ==
  ASSUME B!IInv, NEW r \in Runners, B!Lock(r) \/ B!Steal(r) \/ B!UnlinkLock(r) PROVE B!IInv'
<1>1. /\ B!Running(r) /\ where[r] \in {"lock", "steal", "unlink_lock"} /\ ~B!Ephemeral(r)
      /\ B!TypeOK
  BY Unnamed, ByRunner DEF B!Lock, B!Steal, B!UnlinkLock, B!Step, B!PlaceOK, B!TypeOK, B!Alone
<1>2. /\ mode' = mode /\ life' = life /\ driver' = driver /\ watchdog' = watchdog
      /\ procfs' = procfs /\ named' = named
      /\ limit' = limit /\ at' = at /\ slot' = slot /\ state' = state
  BY DEF B!Lock, B!Steal, B!UnlinkLock, B!Step, B!Goto, B!endVars, B!places
<1>3. PICK p \in {"lock", "locked", "steal", "exit"} : where' = [where EXCEPT ![r] = p]
  BY DEF B!Lock, B!Steal, B!UnlinkLock, B!Step, B!Goto
<1>4. Others(r) /\ where'[r] = p
  BY <1>1, <1>2, <1>3 DEF Others, B!TypeOK
<1>5. CASE B!Lock(r)
  <2>1. /\ robbed' = robbed /\ late' = late /\ evictors' = evictors
        /\ lock' = lock \/ (lock = B!Nobody /\ lock' = r /\ p = "locked")
        /\ p = "locked" => lock' = r
        /\ p \in {"lock", "locked", "steal"} /\ lock' \in Runners \cup {B!Nobody}
    BY <1>1, <1>4, <1>5 DEF B!Lock, B!thefts, B!Goto, B!TypeOK
  <2>2. B!TypeOK'
    BY <1>1, <1>2, <1>3, <2>1 DEF B!TypeOK, B!Sharing
  <2>3. KeptFrom(r)
    BY <1>1, <1>2, <2>1, RunnerNames DEF KeptFrom
  <2>4. RunnerOK(r)'
    <3>1. B!DriverOK(r) /\ driver[r] # "up" /\ lock # r /\ \A x \in B!Slots : slot[x] # r
      BY <1>1, <1>5, Unnamed DEF B!DriverOK, B!Lock
    <3> QED BY <1>1, <1>2, <1>4, <2>1, <3>1, Unnamed DEF RunnerOK, Owns, B!AboutOK, B!PlaceOK,
         B!DriverOK, B!FilesOK, B!Admitted, B!HasLock, B!Running, B!Ephemeral, B!Alone
  <2> QED BY <1>2, <1>4, <2>2, <2>3, <2>4, FileStep
<1>6. CASE B!Steal(r) \/ B!UnlinkLock(r)
  <2>1. /\ robbed' = robbed \cup (({lock} \cap {q \in Runners : B!Running(q)}) \ {r})
        /\ \A q \in Runners : q \in late' <=>
             q \in late \/ (q # r /\ q = lock /\ B!Running(q)
                            /\ where[q] \in {"unlink", "unlink_lock"})
        /\ late' \subseteq Runners /\ lock' = B!Nobody
    BY <1>1, <1>6 DEF B!Steal, B!UnlinkLock, B!Removed, B!Live, B!TypeOK
  <2>2. /\ evictors' \subseteq evictors \cup {r} /\ p \in {"lock", "exit"}
        /\ r \in evictors' => r \in evictors \/ (where[r] = "unlink_lock" /\ lock # r)
    BY <1>1, <1>4, <1>6 DEF B!Steal, B!UnlinkLock, B!Evicts, B!Step, B!Goto, B!TypeOK
  <2>3. B!TypeOK'
    BY <1>1, <1>2, <1>3, <2>1, <2>2 DEF B!TypeOK, B!Sharing
  <2>4. KeptFrom(r)
    BY <1>1, <1>2, <2>1, <2>2, RunnerNames DEF KeptFrom
  <2>5. RunnerOK(r)'
    <3>1. B!DriverOK(r) /\ driver[r] # "up" /\ \A x \in B!Slots : slot[x] # r
      BY <1>1, Unnamed DEF B!DriverOK
    <3>2. r \in evictors' => r \in late'
      BY <1>1, <2>1, <2>2, Unnamed DEF B!AboutOK
    <3> QED BY <1>1, <1>2, <1>4, <2>1, <2>2, <3>1, <3>2, Unnamed, RunnerNames DEF RunnerOK,
         Owns, B!AboutOK, B!PlaceOK, B!DriverOK, B!FilesOK, B!Admitted, B!HasLock, B!Running,
         B!Ephemeral, B!Alone
  <2> QED BY <1>2, <1>4, <2>3, <2>4, <2>5, FileStep
<1> QED BY <1>5, <1>6

\* A runner that is killed leaves its slot with its pid, or empty.
LEMMA KilledKeeps == ASSUME B!IInv, NEW r \in Runners, B!Killed(r) PROVE B!IInv'
<1>1. B!Running(r) /\ B!TypeOK /\ at[r] \in B!Slots
  BY ByRunner DEF B!Killed, B!Ends, B!TypeOK
<1>2. /\ mode' = mode /\ driver' = driver /\ lock' = lock /\ state' = state
      /\ procfs' = procfs /\ named' = [named EXCEPT ![r] = B!Nobody]
      /\ robbed' = robbed \ {r} /\ late' = late \ {r} /\ evictors' = evictors \ {r}
      /\ where' = [where EXCEPT ![r] = "over"] /\ limit' = [limit EXCEPT ![r] = 1]
      /\ at' = [at EXCEPT ![r] = 0] /\ life' = [life EXCEPT ![r] = "killed"]
      /\ watchdog' = [watchdog EXCEPT ![r] = "off"]
  BY DEF B!Killed, B!Ends, B!Goto
<1>3. PICK v \in {slot[at[r]], "empty"} :
        slot' = [slot EXCEPT ![at[r]] = v] /\ (v # slot[at[r]] => slot[at[r]] = r)
  <2>1. slot = [slot EXCEPT ![at[r]] = slot[at[r]]]
    BY <1>1 DEF B!TypeOK
  <2> QED BY <2>1 DEF B!Killed
<1>4. slot' \in [B!Slots -> Runners \cup {B!Nobody, B!Gone, "empty"}]
  BY <1>1, <1>3 DEF B!TypeOK
<1>5. B!TypeOK'
  BY <1>1, <1>2, <1>4, RunnerNames DEF B!TypeOK
<1>6. Others(r) /\ life'[r] = "killed"
  BY <1>1, <1>2 DEF Others, B!TypeOK
<1>7. \A x \in B!Slots : slot'[x] = IF x = at[r] THEN v ELSE slot[x]
  BY <1>1, <1>3 DEF B!TypeOK
<1>8. KeptFrom(r)
  BY <1>2, <1>3, <1>7, RunnerNames DEF KeptFrom
<1>9. RunnerOK(r)'
  BY <1>2, <1>6 DEF RunnerOK, Owns, B!AboutOK, B!Undisturbed, B!Admitted, B!HasLock, B!Running
<1> QED BY <1>2, <1>5, <1>6, <1>8, <1>9, FileStep

\* --stop-browser kills a driver and touches no runner; files grow old.
LEMMA OutsideKeeps ==
  ASSUME B!IInv, B!StopPersistent \/ B!ClearState \/ B!Ages \/ B!Over PROVE B!IInv'
<1>1. B!TypeOK'
  BY ByRunner DEF B!StopPersistent, B!ClearState, B!Ages, B!Over, B!Kill, B!runnerVars,
       B!places, B!endVars, B!fileVars, B!files, B!thefts, B!vars, B!TypeOK
<1>2. ASSUME NEW q \in Runners PROVE RunnerOK(q)'
  BY <1>2, ByRunner DEF B!StopPersistent, B!ClearState, B!Ages, B!Over, B!Kill, B!runnerVars,
       B!places, B!endVars, B!fileVars, B!files, B!thefts, B!vars, RunnerOK, Owns, B!AboutOK,
       B!Undisturbed, B!PlaceOK, B!FilesOK, B!DriverOK, B!Admitted, B!HasLock, B!Running,
       B!Ephemeral, B!TypeOK
<1> QED BY <1>1, <1>2, ByRunnerNext

\* Every step of the runners preserves the invariant.
LEMMA BrowsersStep == B!IInv /\ [B!Next]_runnerVars => B!IInv'
<1> SUFFICES ASSUME B!IInv, [B!Next]_runnerVars PROVE B!IInv'
  OBVIOUS
<1>1. ASSUME NEW r \in Runners, B!Main(r) PROVE B!IInv'
  BY <1>1, AttemptKeeps, CreateKeeps, JudgeKeeps, RemoveKeeps, SpawnDriverKeeps, RegisterKeeps,
     SetupKeeps, AbandonKeeps, CloseSessionKeeps, KillDriverKeeps, ReleaseKeeps, LockKeeps,
     ReuseKeeps, WriteStateKeeps, ExitKeeps DEF B!Main
<1>2. ASSUME NEW r \in Runners, B!Watchdog(r) PROVE B!IInv'
  BY <1>2, NoticeKeeps, NoticeNothingToCloseKeeps, TeardownCloseKeeps, TeardownKillKeeps
  DEF B!Watchdog
<1>3. CASE B!Next
  BY <1>1, <1>2, <1>3, OpenKeeps, DropBrowserKeeps, SignalKeeps, SignalUnhandledKeeps,
       KilledKeeps,
     OutsideKeeps DEF B!Next
<1>4. CASE UNCHANGED runnerVars
  <2>1. B!Over \/ UNCHANGED B!vars
    BY <1>4 DEF runnerVars, B!vars, B!runnerVars, B!places, B!endVars, B!fileVars, B!files,
         B!thefts <2>2. B!TypeOK' BY <1>4, ByRunner DEF runnerVars, B!TypeOK <2>3. ASSUME NEW
         q \in Runners PROVE RunnerOK(q)' BY <1>4, ByRunner DEF runnerVars, RunnerOK, Owns,
         B!AboutOK, B!Undisturbed, B!PlaceOK, B!FilesOK, B!DriverOK, B!Admitted, B!HasLock,
         B!Running, B!Ephemeral <2> QED BY <2>2, <2>3, ByRunnerNext
<1> QED BY <1>3, <1>4

\* What the invariant says of a runner that has exited.
LEMMA BrowsersPromise == B!IInv => B!OneOwner /\ B!ExitsClean
<1> SUFFICES ASSUME B!IInv PROVE B!OneOwner /\ B!ExitsClean
  OBVIOUS
<1>1. B!OneOwner
  BY DEF B!IInv
<1>2. ASSUME NEW r \in Runners, life[r] = "exited"
      PROVE  /\ r \notin {slot[x] : x \in B!Slots} /\ lock # r
             /\ driver[r] \in IF B!Ephemeral(r) THEN {"none", "dead"} ELSE {"none", "dead", "session"}
  <2>1. B!Undisturbed(r) /\ where[r] = "over" /\ RunnerOK(r) /\ ~B!Running(r)
    BY <1>2, ByRunner DEF RunnerOK, B!Undisturbed, B!Running
  <2>2. driver[r] \in {"none", "up", "session", "dead"}
    BY ByRunner DEF B!TypeOK
  <2> QED BY <2>1, <2>2 DEF RunnerOK, B!FilesOK, B!DriverOK, B!Admitted, B!HasLock
<1> QED BY <1>1, <1>2 DEF B!ExitsClean

\* A runner keeps the slot or the lock that it has taken unless it is robbed of it,
\* a robbed one removes its successor's only if it was robbed between its look at
\* the file and its removal, and one that exits leaves no slot, no lock and no
\* driver of its own, for any runners, limits, signals and kills, with a procfs or
\* without.
THEOREM SlotsStay == LocksSpec => []SlotsAndLockKept
<1>1. LocksInit => B!IInv
  BY BrowsersInit DEF LocksInit
<1>2. B!IInv /\ [LocksNext]_locksVars => B!IInv'
  BY BrowsersStep DEF LocksNext, locksVars
<1>3. B!IInv => SlotsAndLockKept
  BY BrowsersPromise DEF SlotsAndLockKept
<1> QED BY <1>1, <1>2, <1>3, PTL DEF LocksSpec

(***************************************************************************)
(* The runner's server.  First induction, and the sequences it is about.   *)
(***************************************************************************)

Below == {ss \in Nat \X Nat : ss[1] < ss[2]}
LEMMA BelowWellFounded == IsWellFoundedOn(Below, Nat)
  BY NatLessThanWellFounded DEF OpToRel, Below

\* Induction over the natural numbers, of a set.
LEMMA SetInduction ==
  ASSUME NEW S, 0 \in S, \A n \in Nat : n \in S => n + 1 \in S
  PROVE  Nat \subseteq S
<1> DEFINE T == Nat \ S
<1>1. \A x, y \in Nat : x < y => <<x, y>> \in Below
  BY DEF Below
<1>2. ASSUME T # {} PROVE FALSE
  <2>1. T \subseteq Nat
    OBVIOUS
  <2>2. PICK x \in T : \A y \in T : ~ (<<y, x>> \in Below)
    <3> HIDE DEF T
    <3> QED BY BelowWellFounded, <1>2, <2>1, WFMin
  <2>3. x \in Nat /\ x # 0 /\ x \notin S
    OBVIOUS
  <2>4. x - 1 \in Nat /\ x - 1 < x /\ (x - 1) + 1 = x
    BY <2>3
  <2>5. x - 1 \notin T
    BY <1>1, <2>2, <2>3, <2>4
  <2> QED BY <2>3, <2>4, <2>5
<1> QED BY <1>2

(***************************************************************************)
(* Sequences of sequences, put together.                                   *)
(***************************************************************************)

\* What the first elements of F, of N, come to.
Joins(F, N, S, g) == /\ g \in [0..N -> Seq(S)] /\ g[0] = <<>>
                     /\ \A n \in 1..N : g[n] = g[n - 1] \o F[n]

\* What FlattenSeq is, without its CHOOSE: the last of the joins.
LEMMA FlattenIs ==
  ASSUME NEW S, NEW N \in Nat, NEW F \in [1..N -> Seq(S)], NEW g, Joins(F, N, S, g)
  PROVE  V!FlattenSeq(F) = g[N]
<1>1. /\ g \in [0..N -> Seq(S)] /\ g[0] = <<>>
      /\ \A n \in 1..N : g[n] = g[n - 1] \o F[n]
  BY DEF Joins
<1>2. F \in Seq(Seq(S)) /\ Len(F) = N
  OBVIOUS
<1>3. CASE N = 0
  <2>1. F = <<>>
    BY <1>2, <1>3
  <2> QED BY <1>1, <1>2, <1>3, <2>1 DEF V!FlattenSeq
<1>4. CASE N # 0
  <2> DEFINE Body(w) == [i \in 1..N |-> IF i = 1 THEN F[i] ELSE w[i - 1] \o F[i]]
  <2>1. PICK h : h = [i \in 1..N |-> g[i]]
    OBVIOUS
  <2>2. h = Body(h)
    <3>1. ASSUME NEW i \in 1..N PROVE h[i] = IF i = 1 THEN F[i] ELSE h[i - 1] \o F[i]
      <4>1. CASE i = 1
        <5>1. g[1] = g[0] \o F[1] /\ F[1] \in Seq(S)
          <6>1. 1 \in 1..N /\ 1 - 1 = 0
            BY <1>4
          <6> QED BY <6>1, <1>1
        <5>2. g[1] = F[1]
          BY <5>1, <1>1, ConcatEmptySeq
        <5> QED BY <4>1, <5>2, <2>1
      <4>2. CASE i # 1
        <5>1. i - 1 \in 1..N
          BY <4>2
        <5> QED BY <4>2, <5>1, <1>1, <2>1
      <4> QED BY <4>1, <4>2
    <3> QED BY <3>1, <2>1
  <2>3. PICK w : w = Body(w) /\ V!FlattenSeq(F) = w[N]
    <3>1. V!FlattenSeq(F) = (CHOOSE w : w = Body(w))[N]
      BY <1>2, <1>4 DEF V!FlattenSeq
    <3> QED BY <3>1, <2>2
  <2>4. \A i \in 1..N : w[i] = IF i = 1 THEN F[i] ELSE w[i - 1] \o F[i]
    BY <2>3
  <2>5. \A i \in 1..N : h[i] = IF i = 1 THEN F[i] ELSE h[i - 1] \o F[i]
    BY <2>2
  <2> DEFINE Q == {n \in Nat : n + 1 <= N => w[n + 1] = h[n + 1]}
  <2>6. 0 \in Q
    <3>1. 1 \in 1..N
      BY <1>4
    <3> QED BY <3>1, <2>4, <2>5
  <2>7. ASSUME NEW n \in Nat, n \in Q PROVE n + 1 \in Q
    <3> SUFFICES ASSUME (n + 1) + 1 <= N PROVE w[(n + 1) + 1] = h[(n + 1) + 1]
      BY <1>2
    <3>1. PICK m \in Nat : m = (n + 1) + 1
      OBVIOUS
    <3>2. m \in 1..N /\ m # 1 /\ m - 1 = n + 1 /\ n + 1 <= N
      BY <3>1
    <3>3. w[m - 1] = h[m - 1]
      BY <3>2, <2>7
    <3>4. w[m] = w[m - 1] \o F[m]
      BY <3>2, <2>4
    <3>5. h[m] = h[m - 1] \o F[m]
      BY <3>2, <2>5
    <3>6. w[m] = h[m]
      BY <3>3, <3>4, <3>5
    <3> QED BY <3>1, <3>6
  <2> HIDE DEF Q
  <2>8. Nat \subseteq Q
    BY <2>6, <2>7, SetInduction
  <2>9. PICK m \in Nat : m + 1 = N
    BY <1>4
  <2>10. w[N] = h[N]
    <3>1. m \in Q /\ m + 1 <= N
      BY <2>8, <2>9
    <3>2. w[m + 1] = h[m + 1]
      BY <3>1 DEF Q
    <3> QED BY <3>2, <2>9
  <2> QED BY <2>1, <2>3, <2>10, <1>4
<1> QED BY <1>3, <1>4

\* A sequence of sequences has its joins.
LEMMA JoinsExist ==
  ASSUME NEW S, NEW N \in Nat, NEW F \in [1..N -> Seq(S)]
  PROVE  \E g : Joins(F, N, S, g)
<1> DEFINE Q == {m \in Nat : m <= N => \E g : Joins(F, m, S, g)}
<1>1. 0 \in Q
  <2>1. PICK g : g = [n \in 0..0 |-> <<>>]
    OBVIOUS
  <2>2. <<>> \in Seq(S)
    BY EmptySeq
  <2>3. Joins(F, 0, S, g)
    BY <2>1, <2>2 DEF Joins
  <2> QED BY <2>3
<1>2. ASSUME NEW m \in Nat, m \in Q PROVE m + 1 \in Q
  <2> SUFFICES ASSUME m + 1 <= N PROVE \E g : Joins(F, m + 1, S, g)
    OBVIOUS
  <2>1. PICK g : Joins(F, m, S, g)
    BY <1>2
  <2>2. /\ g \in [0..m -> Seq(S)] /\ g[0] = <<>>
        /\ \A n \in 1..m : g[n] = g[n - 1] \o F[n]
    BY <2>1 DEF Joins
  <2>3. PICK x : x = g[m] \o F[m + 1]
    OBVIOUS
  <2>4. x \in Seq(S)
    <3>1. g[m] \in Seq(S) /\ F[m + 1] \in Seq(S)
      BY <2>2
    <3> QED BY <3>1, <2>3, ConcatProperties
  <2>5. PICK h : h = [n \in 0..(m + 1) |-> IF n = m + 1 THEN x ELSE g[n]]
    OBVIOUS
  <2>6. h[m + 1] = x /\ \A n \in 0..m : h[n] = g[n]
    BY <2>5
  <2>7. h \in [0..(m + 1) -> Seq(S)] /\ h[0] = <<>>
    BY <2>2, <2>4, <2>5
  <2>8. ASSUME NEW n \in 1..(m + 1) PROVE h[n] = h[n - 1] \o F[n]
    <3>1. CASE n = m + 1
      <4>1. n - 1 = m /\ m \in 0..m
        BY <3>1
      <4> QED BY <3>1, <4>1, <2>3, <2>6
    <3>2. CASE n # m + 1
      <4>1. n \in 1..m /\ n \in 0..m /\ n - 1 \in 0..m
        BY <3>2
      <4> QED BY <4>1, <2>2, <2>6
    <3> QED BY <3>1, <3>2
  <2>9. Joins(F, m + 1, S, h)
    BY <2>7, <2>8 DEF Joins
  <2> QED BY <2>9
<1> HIDE DEF Q
<1>3. Nat \subseteq Q
  BY <1>1, <1>2, SetInduction
<1>4. N \in Q /\ N <= N
  BY <1>3
<1> QED BY <1>4 DEF Q

\* One more sequence comes after those before it.
LEMMA FlattenMore ==
  ASSUME NEW S, NEW n \in Nat, NEW F \in [1..(n + 1) -> Seq(S)]
  PROVE  LET E == [i \in 1..n |-> F[i]]
         IN /\ V!FlattenSeq(F) = V!FlattenSeq(E) \o F[n + 1]
            /\ V!FlattenSeq(E) \in Seq(S) /\ V!FlattenSeq(F) \in Seq(S)
<1>1. PICK g : Joins(F, n + 1, S, g)
  BY JoinsExist
<1>2. PICK E : E = [i \in 1..n |-> F[i]]
  OBVIOUS
<1>3. PICK h : h = [i \in 0..n |-> g[i]]
  OBVIOUS
<1>4. /\ g \in [0..(n + 1) -> Seq(S)] /\ g[0] = <<>>
      /\ \A i \in 1..(n + 1) : g[i] = g[i - 1] \o F[i]
  BY <1>1 DEF Joins
<1>5. E \in [1..n -> Seq(S)]
  BY <1>2
<1>6. Joins(E, n, S, h)
  <2>1. h \in [0..n -> Seq(S)] /\ h[0] = <<>>
    BY <1>3, <1>4
  <2>2. ASSUME NEW i \in 1..n PROVE h[i] = h[i - 1] \o E[i]
    <3>1. i \in 0..n /\ i - 1 \in 0..n /\ i \in 1..(n + 1)
      OBVIOUS
    <3> QED BY <3>1, <1>2, <1>3, <1>4
  <2> QED BY <2>1, <2>2 DEF Joins
<1>7. V!FlattenSeq(F) = g[n + 1] /\ V!FlattenSeq(E) = h[n]
  BY <1>1, <1>5, <1>6, FlattenIs
<1>8. h[n] = g[n] /\ g[n + 1] = g[n] \o F[n + 1] /\ g[n] \in Seq(S) /\ g[n + 1] \in Seq(S)
  <2>1. n + 1 \in 1..(n + 1) /\ (n + 1) - 1 = n /\ n \in 0..n /\ n \in 0..(n + 1)
        /\ n + 1 \in 0..(n + 1)
    OBVIOUS
  <2>2. h[n] = g[n]
    BY <2>1, <1>3
  <2>3. g[n + 1] = g[n] \o F[n + 1]
    BY <2>1, <1>4
  <2>4. g[n] \in Seq(S) /\ g[n + 1] \in Seq(S)
    BY <2>1, <1>4
  <2> QED BY <2>2, <2>3, <2>4
<1> QED BY <1>2, <1>7, <1>8

\* Nothing put together is nothing.
LEMMA FlattenNone == V!FlattenSeq(<<>>) = <<>>
<1>1. Len(<<>>) = 0
  OBVIOUS
<1> QED BY <1>1 DEF V!FlattenSeq

(***************************************************************************)
(* What a client sends.                                                    *)
(***************************************************************************)

FrameToken(fs) ==
    {[t |-> "head", frame |-> fs[i]] : i \in DOMAIN fs}
    \cup {[t |-> "mask", bits |-> fs[i].mask] : i \in DOMAIN fs}
    \cup {[t |-> "data", bits |-> fs[i].wire] : i \in DOMAIN fs}

\* The tokens of the first n frames.
Framed(fs, n) == V!FlattenSeq([i \in 1..n |-> V!FrameTokens(fs[i])])

\* Pieces of one element each come to as many elements.
LEMMA Singles ==
  ASSUME NEW S, NEW h \in S, NEW m \in S, NEW d \in S
  PROVE  <<h>> \o <<m>> \o <<d>> = <<h, m, d>> /\ <<h>> \o <<>> \o <<d>> = <<h, d>>
<1>1. /\ <<h>> \in Seq(S) /\ <<m>> \in Seq(S) /\ <<d>> \in Seq(S) /\ <<h, m>> \in Seq(S)
      /\ <<h, m, d>> \in Seq(S) /\ <<h, d>> \in Seq(S)
  OBVIOUS
<1>2. <<h>> \o <<m>> = <<h, m>>
  <2>1. PICK u : u = <<h>> \o <<m>>
    OBVIOUS
  <2>2. u \in Seq(S) /\ Len(u) = 2 /\ \A i \in 1..2 : u[i] = IF i <= 1 THEN h ELSE <<m>>[i - 1]
    BY <1>1, <2>1, ConcatProperties
  <2>3. Len(u) = Len(<<h, m>>) /\ \A i \in 1..Len(u) : u[i] = <<h, m>>[i]
    BY <2>2
  <2> QED BY <1>1, <2>1, <2>2, <2>3, SeqEqual
<1>3. <<h, m>> \o <<d>> = <<h, m, d>>
  <2>1. PICK u : u = <<h, m>> \o <<d>>
    OBVIOUS
  <2>2. u \in Seq(S) /\ Len(u) = 3
        /\ \A i \in 1..3 : u[i] = IF i <= 2 THEN <<h, m>>[i] ELSE <<d>>[i - 2]
    BY <1>1, <2>1, ConcatProperties
  <2>3. Len(u) = Len(<<h, m, d>>) /\ \A i \in 1..Len(u) : u[i] = <<h, m, d>>[i]
    BY <2>2
  <2> QED BY <1>1, <2>1, <2>2, <2>3, SeqEqual
<1>4. <<h>> \o <<d>> = <<h, d>>
  <2>1. PICK u : u = <<h>> \o <<d>>
    OBVIOUS
  <2>2. u \in Seq(S) /\ Len(u) = 2 /\ \A i \in 1..2 : u[i] = IF i <= 1 THEN h ELSE <<d>>[i - 1]
    BY <1>1, <2>1, ConcatProperties
  <2>3. Len(u) = Len(<<h, d>>) /\ \A i \in 1..Len(u) : u[i] = <<h, d>>[i]
    BY <2>2
  <2> QED BY <1>1, <2>1, <2>2, <2>3, SeqEqual
<1>5. <<h>> \o <<>> = <<h>>
  BY <1>1, ConcatEmptySeq
<1> QED BY <1>2, <1>3, <1>4, <1>5

\* The two or three tokens of a frame.
LEMMA FrameTokensAre ==
  ASSUME NEW p, V!Conforms(p), NEW i \in DOMAIN p.frames, NEW f, f = p.frames[i]
  PROVE  /\ V!FrameTokens(f) \in Seq(FrameToken(p.frames))
         /\ Len(V!FrameTokens(f)) = IF f.masked THEN 3 ELSE 2
         /\ V!FrameTokens(f)[1] = [t |-> "head", frame |-> f]
         /\ f.masked => V!FrameTokens(f)[2] = [t |-> "mask", bits |-> f.mask]
         /\ V!FrameTokens(f)[Len(V!FrameTokens(f))] = [t |-> "data", bits |-> f.wire]
<1>1. PICK h, m, d : /\ h = [t |-> "head", frame |-> f] /\ m = [t |-> "mask", bits |-> f.mask]
                     /\ d = [t |-> "data", bits |-> f.wire]
  OBVIOUS
<1>2. h \in FrameToken(p.frames) /\ m \in FrameToken(p.frames) /\ d \in FrameToken(p.frames)
  BY <1>1 DEF FrameToken
<1>3. V!FrameTokens(f) = IF f.masked THEN <<h, m, d>> ELSE <<h, d>>
  <2>1. CASE f.masked
    <3>1. <<h>> \o <<m>> \o <<d>> = <<h, m, d>>
      BY <1>2, Singles
    <3> QED BY <2>1, <3>1, <1>1 DEF V!FrameTokens
  <2>2. CASE ~f.masked
    <3>1. <<h>> \o <<>> \o <<d>> = <<h, d>>
      BY <1>2, Singles
    <3> QED BY <2>2, <3>1, <1>1 DEF V!FrameTokens
  <2> QED BY <2>1, <2>2
<1> HIDE DEF FrameToken
<1>4. CASE f.masked
  BY <1>1, <1>2, <1>3, <1>4
<1>5. CASE ~f.masked
  BY <1>1, <1>2, <1>3, <1>5
<1> QED BY <1>4, <1>5

LEMMA FramesAreTyped ==
  ASSUME NEW p, V!Conforms(p)
  PROVE  /\ Len(p.frames) \in Nat /\ DOMAIN p.frames = 1..Len(p.frames)
         /\ Len(p.headers) \in Nat /\ DOMAIN p.headers = 1..Len(p.headers)
         /\ Len(p.body) \in Nat /\ DOMAIN p.body = 1..Len(p.body)
BY LenProperties DEF V!Conforms, V!IsSeq

\* One frame more adds its tokens.
LEMMA FramedGrows ==
  ASSUME NEW p, V!Conforms(p), NEW n \in Nat, n + 1 <= Len(p.frames)
  PROVE  /\ Framed(p.frames, n + 1) = Framed(p.frames, n) \o V!FrameTokens(p.frames[n + 1])
         /\ Framed(p.frames, n) \in Seq(FrameToken(p.frames))
         /\ Framed(p.frames, n + 1) \in Seq(FrameToken(p.frames))
<1>1. PICK fs, S : fs = p.frames /\ S = FrameToken(fs)
  OBVIOUS
<1>2. PICK F : F = [i \in 1..(n + 1) |-> V!FrameTokens(fs[i])]
  OBVIOUS
<1>3. \A i \in 1..(n + 1) : V!FrameTokens(fs[i]) \in Seq(S)
  <2>1. \A i \in 1..(n + 1) : i \in DOMAIN p.frames
    BY FramesAreTyped
  <2> QED BY <2>1, <1>1, FrameTokensAre
<1>4. F \in [1..(n + 1) -> Seq(S)]
  BY <1>2, <1>3
<1>5. PICK E : E = [i \in 1..n |-> F[i]]
  OBVIOUS
<1>6. E = [i \in 1..n |-> V!FrameTokens(fs[i])]
  BY <1>2, <1>5
<1>7. /\ V!FlattenSeq(F) = V!FlattenSeq(E) \o F[n + 1]
      /\ V!FlattenSeq(E) \in Seq(S) /\ V!FlattenSeq(F) \in Seq(S)
  BY <1>4, <1>5, FlattenMore
<1>8. F[n + 1] = V!FrameTokens(fs[n + 1])
  BY <1>2
<1> QED BY <1>1, <1>2, <1>6, <1>7, <1>8 DEF Framed

LEMMA NothingFramed ==
  ASSUME NEW fs
  PROVE  Framed(fs, 0) = <<>> /\ Len(Framed(fs, 0)) = 0
<1>1. [i \in 1..0 |-> V!FrameTokens(fs[i])] = <<>>
  OBVIOUS
<1> QED BY <1>1, FlattenNone, EmptySeq DEF Framed

\* The tokens of the frames are head, mask and data.
LEMMA FramedTyped ==
  ASSUME NEW p, V!Conforms(p), NEW n \in 0..Len(p.frames)
  PROVE  Framed(p.frames, n) \in Seq(FrameToken(p.frames)) /\ Len(Framed(p.frames, n)) \in Nat
<1>0. PICK N \in Nat : N = Len(p.frames)
  BY FramesAreTyped
<1>1. CASE n = 0
  <2>1. <<>> \in Seq(FrameToken(p.frames))
    BY EmptySeq
  <2>2. Framed(p.frames, 0) = <<>> /\ Len(Framed(p.frames, 0)) = 0
    BY NothingFramed
  <2> QED BY <1>1, <2>1, <2>2
<1>2. CASE n # 0
  <2>1. PICK m \in Nat : m + 1 = n
    BY <1>0, <1>2
  <2>2. m + 1 <= Len(p.frames)
    BY <1>0, <2>1
  <2>3. Framed(p.frames, m + 1) \in Seq(FrameToken(p.frames))
    BY <2>1, <2>2, FramedGrows
  <2> QED BY <2>1, <2>3, LenProperties
<1> QED BY <1>1, <1>2

\* What the first frames come to is where it was among all of them.
LEMMA FramedFirst ==
  ASSUME NEW p, V!Conforms(p), NEW n \in 0..Len(p.frames), NEW j \in 1..Len(Framed(p.frames, n))
  PROVE  /\ Len(Framed(p.frames, n)) <= Len(Framed(p.frames, Len(p.frames)))
         /\ Framed(p.frames, Len(p.frames))[j] = Framed(p.frames, n)[j]
<1>1. PICK fs, N, S : fs = p.frames /\ N = Len(fs) /\ S = FrameToken(fs) /\ N \in Nat
  BY FramesAreTyped
<1> DEFINE Q == {d \in Nat : n + d <= N => /\ Len(Framed(fs, n)) <= Len(Framed(fs, n + d))
                                           /\ Framed(fs, n + d)[j] = Framed(fs, n)[j]}
<1>2. Len(Framed(fs, n)) \in Nat
  BY <1>1, FramedTyped
<1>3. 0 \in Q
  <2>1. n + 0 = n
    BY <1>1
  <2> QED BY <2>1, <1>2
<1>4. ASSUME NEW d \in Nat, d \in Q PROVE d + 1 \in Q
  <2> SUFFICES ASSUME n + (d + 1) <= N
               PROVE  /\ Len(Framed(fs, n)) <= Len(Framed(fs, n + (d + 1)))
                      /\ Framed(fs, n + (d + 1))[j] = Framed(fs, n)[j]
    OBVIOUS
  <2>1. PICK m \in Nat : m = n + d
    BY <1>1
  <2>2. m + 1 <= Len(p.frames) /\ n + (d + 1) = m + 1 /\ n + d <= N /\ m + 1 \in DOMAIN p.frames
    BY <2>1, <1>1, FramesAreTyped
  <2>3. PICK s, t, u : s = Framed(fs, m) /\ t = V!FrameTokens(fs[m + 1]) /\ u = Framed(fs, m + 1)
    OBVIOUS
  <2>4. u = s \o t /\ s \in Seq(S)
    BY <1>1, <2>2, <2>3, FramedGrows
  <2>5. t \in Seq(S)
    BY <1>1, <2>2, <2>3, FrameTokensAre
  <2>6. Len(u) = Len(s) + Len(t) /\ \A i \in 1..Len(s) : u[i] = s[i]
    BY <2>4, <2>5, ConcatProperties, LenProperties
  <2>7. Len(Framed(fs, n)) <= Len(s) /\ s[j] = Framed(fs, n)[j]
    BY <1>4, <2>1, <2>2, <2>3
  <2>8. Len(s) \in Nat /\ Len(t) \in Nat
    BY <2>4, <2>5, LenProperties
  <2>9. j \in 1..Len(s) /\ Len(Framed(fs, n)) <= Len(u)
    BY <1>1, <1>2, <2>6, <2>7, <2>8
  <2> QED BY <2>2, <2>3, <2>6, <2>7, <2>9
<1> HIDE DEF Q
<1>5. Nat \subseteq Q
  BY <1>3, <1>4, SetInduction
<1>6. PICK d \in Nat : n + d = N
  <2>1. n \in 0..N
    BY <1>1
  <2>2. N - n \in Nat /\ n + (N - n) = N
    BY <1>1, <2>1
  <2> QED BY <2>2
<1>7. d \in Q /\ n + d <= N
  BY <1>1, <1>5, <1>6
<1> QED BY <1>1, <1>6, <1>7 DEF Q

\* Where the frames begin, when all that comes before them was sent.
Base(p) == Len(p.headers) + Len(p.body) + 2

\* A piece after what was put together before it.
Pieces(S, s, m, t, n, u) ==
    /\ s \in Seq(S) /\ t \in Seq(S) /\ m \in Nat /\ m = Len(s) /\ n \in Nat /\ n = Len(t)
    /\ u = s \o t
\* A piece appended leaves what was there in its place.
LEMMA OnePieceMore ==
  ASSUME NEW S, NEW s, NEW m, NEW t, NEW n, NEW u, Pieces(S, s, m, t, n, u)
  PROVE  /\ u \in Seq(S) /\ Len(u) = m + n
         /\ \A i \in 1..m : u[i] = s[i]
         /\ \A i \in 1..n : u[m + i] = t[i]
<1> USE DEF Pieces
<1>1. /\ u \in Seq(S) /\ Len(u) = m + n
      /\ \A i \in 1..m + n : u[i] = IF i <= m THEN s[i] ELSE t[i - m]
  BY ConcatProperties
<1>2. ASSUME NEW i \in 1..m PROVE u[i] = s[i]
  BY <1>1
<1>3. ASSUME NEW i \in 1..n PROVE u[m + i] = t[i]
  <2>1. PICK j \in Nat : j = m + i
    OBVIOUS
  <2>2. j \in 1..m + n /\ ~(j <= m) /\ j - m = i
    BY <2>1
  <2> QED BY <2>1, <2>2, <1>1
<1> QED BY <1>1, <1>2, <1>3

SentToken(p) ==
    {[t |-> "line", path |-> p.path, method |-> p.method], [t |-> "blank"]}
    \cup {[t |-> "header", header |-> p.headers[i]] : i \in DOMAIN p.headers}
    \cup {[t |-> "byte", val |-> p.body[i]] : i \in DOMAIN p.body}
    \cup FrameToken(p.frames)

Lengths(p, n, b, T) == /\ n \in Nat /\ n = Len(p.headers) /\ b \in Nat /\ b = Len(p.body)
                       /\ T = Framed(p.frames, Len(p.frames))
\* Line, headers, blank line, body and frames, each at its place in the tokens.
LEMMA TokensAre ==
  ASSUME NEW p, V!Conforms(p), ~p.idle, NEW n, NEW b, NEW T, Lengths(p, n, b, T)
  PROVE  /\ V!Tokens(p)[1] = [t |-> "line", path |-> p.path, method |-> p.method]
         /\ \A i \in 1..n : V!Tokens(p)[i + 1] = [t |-> "header", header |-> p.headers[i]]
         /\ V!Tokens(p)[n + 2] = [t |-> "blank"]
         /\ \A i \in 1..b : V!Tokens(p)[(n + 2) + i] = [t |-> "byte", val |-> p.body[i]]
         /\ \A i \in 1..Len(T) : V!Tokens(p)[Base(p) + i] = T[i]
         /\ Len(V!Tokens(p)) = Base(p) + Len(T)
<1>0. n \in Nat /\ b \in Nat /\ Base(p) = n + b + 2
  BY DEF Lengths, Base
<1>1. PICK S : S = SentToken(p)
  OBVIOUS
<1>2. PICK s1, s2, s3, s4 :
         /\ s1 = <<[t |-> "line", path |-> p.path, method |-> p.method]>>
         /\ s2 = [i \in 1..n |-> [t |-> "header", header |-> p.headers[i]]]
         /\ s3 = <<[t |-> "blank"]>>
         /\ s4 = [i \in 1..b |-> [t |-> "byte", val |-> p.body[i]]]
  OBVIOUS
<1>3. DOMAIN p.headers = 1..n /\ DOMAIN p.body = 1..b /\ DOMAIN p.frames = 1..Len(p.frames)
  BY FramesAreTyped DEF Lengths
<1>4. V!Tokens(p) = s1 \o s2 \o s3 \o s4 \o T
  BY <1>2, <1>3 DEF V!Tokens, Framed, Lengths
<1>5. s1 \in Seq(S) /\ Len(s1) = 1 /\ s3 \in Seq(S) /\ Len(s3) = 1
  BY <1>1, <1>2 DEF SentToken
<1>6. s2 \in Seq(S) /\ Len(s2) = n
  <2>1. \A i \in 1..n : [t |-> "header", header |-> p.headers[i]] \in S
    BY <1>1, <1>3 DEF SentToken
  <2>2. s2 \in [1..n -> S]
    BY <2>1, <1>2
  <2> QED BY <2>2, <1>0
<1>7. s4 \in Seq(S) /\ Len(s4) = b
  <2>1. \A i \in 1..b : [t |-> "byte", val |-> p.body[i]] \in S
    BY <1>1, <1>3 DEF SentToken
  <2>2. s4 \in [1..b -> S]
    BY <2>1, <1>2
  <2> QED BY <2>2, <1>0
<1>8. T \in Seq(S) /\ Len(T) \in Nat
  <2>1. PICK N \in Nat : N = Len(p.frames)
    BY FramesAreTyped
  <2>2. N \in 0..Len(p.frames)
    BY <2>1
  <2>3. T \in Seq(FrameToken(p.frames)) /\ Len(T) \in Nat
    BY <2>1, <2>2, FramedTyped DEF Lengths
  <2>4. FrameToken(p.frames) \subseteq S
    BY <1>1 DEF SentToken
  <2> QED BY <2>3, <2>4, SeqMonotonic
<1>9. PICK u2 : u2 = s1 \o s2
  OBVIOUS
<1>10. PICK u3 : u3 = u2 \o s3
  OBVIOUS
<1>11. PICK u4 : u4 = u3 \o s4
  OBVIOUS
<1>12. PICK u : u = u4 \o T
  OBVIOUS
<1>13. /\ u2 \in Seq(S) /\ Len(u2) = 1 + n /\ u2[1] = s1[1]
       /\ \A i \in 1..n : u2[1 + i] = s2[i]
  <2>1. 1 \in Nat /\ 1 \in 1..1
    OBVIOUS
  <2>2. Pieces(S, s1, 1, s2, n, u2)
    BY <2>1, <1>0, <1>5, <1>6, <1>9 DEF Pieces
  <2> QED BY <2>1, <2>2, OnePieceMore
<1>14. PICK m2 \in Nat : m2 = 1 + n
  BY <1>0
<1>15. /\ u3 \in Seq(S) /\ Len(u3) = m2 + 1 /\ \A i \in 1..m2 : u3[i] = u2[i]
       /\ u3[m2 + 1] = s3[1]
  <2>1. 1 \in Nat /\ 1 \in 1..1
    OBVIOUS
  <2>2. Pieces(S, u2, m2, s3, 1, u3)
    BY <2>1, <1>5, <1>10, <1>13, <1>14 DEF Pieces
  <2> QED BY <2>1, <2>2, OnePieceMore
<1>16. PICK m3 \in Nat : m3 = m2 + 1
  OBVIOUS
<1>17. /\ u4 \in Seq(S) /\ Len(u4) = m3 + b /\ \A i \in 1..m3 : u4[i] = u3[i]
       /\ \A i \in 1..b : u4[m3 + i] = s4[i]
  <2>1. Pieces(S, u3, m3, s4, b, u4)
    BY <1>0, <1>7, <1>11, <1>15, <1>16 DEF Pieces
  <2> QED BY <2>1, OnePieceMore
<1>18. PICK m4 \in Nat : m4 = m3 + b
  BY <1>0, <1>16
<1>19. /\ Len(u) = m4 + Len(T) /\ \A i \in 1..m4 : u[i] = u4[i]
       /\ \A i \in 1..Len(T) : u[m4 + i] = T[i]
  <2>1. Pieces(S, u4, m4, T, Len(T), u)
    BY <1>8, <1>12, <1>17, <1>18 DEF Pieces
  <2> QED BY <2>1, OnePieceMore
<1>20. V!Tokens(p) = u
  BY <1>4, <1>9, <1>10, <1>11, <1>12
<1>21. m4 = Base(p) /\ m3 = n + 2 /\ m2 = n + 1
  BY <1>0, <1>14, <1>16, <1>18
<1>22. \A i \in 1..m2 : u[i] = u2[i]
  <2>1. \A i \in 1..m2 : i \in 1..m3 /\ i \in 1..m4
    BY <1>0, <1>16, <1>18
  <2> QED BY <2>1, <1>15, <1>17, <1>19
<1>23. u[1] = [t |-> "line", path |-> p.path, method |-> p.method]
  <2>1. 1 \in 1..m2
    BY <1>0, <1>14
  <2> QED BY <2>1, <1>2, <1>13, <1>22
<1>24. ASSUME NEW i \in 1..n PROVE u[i + 1] = [t |-> "header", header |-> p.headers[i]]
  <2>1. i + 1 \in 1..m2 /\ i + 1 = 1 + i
    BY <1>0, <1>14
  <2>2. u[i + 1] = u2[1 + i]
    BY <2>1, <1>22
  <2> QED BY <2>2, <1>2, <1>13
<1>25. u[n + 2] = [t |-> "blank"]
  <2>1. m2 + 1 \in 1..m3 /\ m2 + 1 \in 1..m4 /\ m2 + 1 = n + 2
    BY <1>0, <1>14, <1>16, <1>18
  <2>2. u[n + 2] = u3[m2 + 1]
    BY <2>1, <1>17, <1>19
  <2> QED BY <2>2, <1>2, <1>15
<1>26. ASSUME NEW i \in 1..b PROVE u[(n + 2) + i] = [t |-> "byte", val |-> p.body[i]]
  <2>1. m3 + i \in 1..m4 /\ m3 + i = (n + 2) + i
    BY <1>0, <1>14, <1>16, <1>18
  <2>2. u[(n + 2) + i] = u4[m3 + i]
    BY <2>1, <1>19
  <2> QED BY <2>2, <1>2, <1>17
<1> QED BY <1>19, <1>20, <1>21, <1>23, <1>24, <1>25, <1>26

\* After the body come tokens of frames only.
LEMMA FrameKinds ==
  ASSUME NEW p, V!Conforms(p), NEW T, T = Framed(p.frames, Len(p.frames)), NEW i \in 1..Len(T)
  PROVE  T[i].t \in {"head", "mask", "data"}
<1>1. PICK N \in Nat : N = Len(p.frames)
  BY FramesAreTyped
<1>2. N \in 0..Len(p.frames)
  BY <1>1
<1>3. T \in Seq(FrameToken(p.frames))
  BY <1>1, <1>2, FramedTyped
<1>4. PICK x \in FrameToken(p.frames) : x = T[i]
  BY <1>3, ElementOfSeq
<1>5. x.t \in {"head", "mask", "data"}
  <2>1. CASE \E j \in DOMAIN p.frames : x = [t |-> "head", frame |-> p.frames[j]]
    BY <2>1
  <2>2. CASE \E j \in DOMAIN p.frames : x = [t |-> "mask", bits |-> p.frames[j].mask]
    BY <2>2
  <2>3. CASE \E j \in DOMAIN p.frames : x = [t |-> "data", bits |-> p.frames[j].wire]
    BY <2>3
  <2> QED BY <2>1, <2>2, <2>3 DEF FrameToken
<1> QED BY <1>4, <1>5

EarlyKinds == {"line", "header", "blank", "byte"}
LateKinds == {"head", "mask", "data"}

\* What kind of token stands where.
LEMMA KindsOfTokens ==
  ASSUME NEW p, V!Conforms(p), ~p.idle, NEW j \in 1..Len(V!Tokens(p))
  PROVE  /\ Base(p) \in Nat /\ Len(V!Tokens(p)) \in Nat /\ Base(p) <= Len(V!Tokens(p))
         /\ IF j <= Base(p) THEN V!Tokens(p)[j].t \in EarlyKinds ELSE V!Tokens(p)[j].t \in LateKinds
<1>1. PICK n, b, T : Lengths(p, n, b, T)
  BY FramesAreTyped DEF Lengths
<1>2. /\ V!Tokens(p)[1] = [t |-> "line", path |-> p.path, method |-> p.method]
      /\ \A i \in 1..n : V!Tokens(p)[i + 1] = [t |-> "header", header |-> p.headers[i]]
      /\ V!Tokens(p)[n + 2] = [t |-> "blank"]
      /\ \A i \in 1..b : V!Tokens(p)[(n + 2) + i] = [t |-> "byte", val |-> p.body[i]]
      /\ \A i \in 1..Len(T) : V!Tokens(p)[Base(p) + i] = T[i]
      /\ Len(V!Tokens(p)) = Base(p) + Len(T)
  BY <1>1, TokensAre
<1>3. n \in Nat /\ b \in Nat /\ Base(p) = n + b + 2
  BY <1>1 DEF Lengths, Base
<1>4. Len(T) \in Nat
  <2>1. PICK N \in Nat : N = Len(p.frames)
    BY FramesAreTyped
  <2>2. N \in 0..Len(p.frames)
    BY <2>1
  <2> QED BY <1>1, <2>1, <2>2, FramedTyped DEF Lengths
<1>5. Base(p) \in Nat /\ Len(V!Tokens(p)) \in Nat /\ Base(p) <= Len(V!Tokens(p))
  BY <1>2, <1>3, <1>4
<1>6. CASE j <= Base(p)
  <2>1. j = 1 \/ (\E i \in 1..n : j = i + 1) \/ j = n + 2 \/ (\E i \in 1..b : j = (n + 2) + i)
    <3>1. CASE j = 1 \/ j = n + 2
      BY <3>1
    <3>2. CASE j \in 2..(n + 1)
      <4>1. j - 1 \in 1..n /\ j = (j - 1) + 1
        BY <3>2, <1>3
      <4> QED BY <4>1
    <3>3. CASE j > n + 2
      <4>1. j - (n + 2) \in 1..b /\ j = (n + 2) + (j - (n + 2))
        BY <3>3, <1>3, <1>5, <1>6
      <4> QED BY <4>1
    <3> QED BY <3>1, <3>2, <3>3, <1>3, <1>5
  <2>2. CASE j = 1
    <3>1. V!Tokens(p)[j] = [t |-> "line", path |-> p.path, method |-> p.method]
      BY <2>2, <1>2
    <3> QED BY <3>1, <1>5, <1>6 DEF EarlyKinds
  <2>3. CASE \E i \in 1..n : j = i + 1
    <3>1. PICK i \in 1..n : j = i + 1
      BY <2>3
    <3>2. V!Tokens(p)[j] = [t |-> "header", header |-> p.headers[i]]
      BY <3>1, <1>2
    <3> QED BY <3>2, <1>5, <1>6 DEF EarlyKinds
  <2>4. CASE j = n + 2
    <3>1. V!Tokens(p)[j] = [t |-> "blank"]
      BY <2>4, <1>2
    <3> QED BY <3>1, <1>5, <1>6 DEF EarlyKinds
  <2>5. CASE \E i \in 1..b : j = (n + 2) + i
    <3>1. PICK i \in 1..b : j = (n + 2) + i
      BY <2>5
    <3>2. V!Tokens(p)[j] = [t |-> "byte", val |-> p.body[i]]
      BY <3>1, <1>2
    <3> QED BY <3>2, <1>5, <1>6 DEF EarlyKinds
  <2> QED BY <2>1, <2>2, <2>3, <2>4, <2>5
<1>7. CASE ~(j <= Base(p))
  <2>1. PICK i \in 1..Len(T) : j = Base(p) + i
    <3>1. j - Base(p) \in 1..Len(T) /\ j = Base(p) + (j - Base(p))
      BY <1>2, <1>4, <1>5, <1>7
    <3> QED BY <3>1
  <2>2. T[i].t \in LateKinds
    BY <1>1, FrameKinds DEF Lengths, LateKinds
  <2> QED BY <2>1, <2>2, <1>2, <1>5, <1>7
<1> QED BY <1>6, <1>7

\* Where the tokens of a frame are.
Offset(p, n) == Len(Framed(p.frames, n))
FramePieces(f) == IF f.masked THEN 3 ELSE 2

\* A token of a frame lies after the body.
LEMMA FramesLast ==
  ASSUME NEW p, V!Conforms(p), ~p.idle
  PROVE  /\ \A i \in 1..Offset(p, Len(p.frames)) :
               V!Tokens(p)[Base(p) + i] = Framed(p.frames, Len(p.frames))[i]
         /\ Base(p) \in Nat /\ Len(V!Tokens(p)) = Base(p) + Offset(p, Len(p.frames))
<1>1. PICK n, b, T : Lengths(p, n, b, T)
  BY FramesAreTyped DEF Lengths
<1>2. /\ V!Tokens(p)[1] = [t |-> "line", path |-> p.path, method |-> p.method]
      /\ \A i \in 1..n : V!Tokens(p)[i + 1] = [t |-> "header", header |-> p.headers[i]]
      /\ V!Tokens(p)[n + 2] = [t |-> "blank"]
      /\ \A i \in 1..b : V!Tokens(p)[(n + 2) + i] = [t |-> "byte", val |-> p.body[i]]
      /\ \A i \in 1..Len(T) : V!Tokens(p)[Base(p) + i] = T[i]
      /\ Len(V!Tokens(p)) = Base(p) + Len(T)
  BY <1>1, TokensAre
<1>3. n \in Nat /\ b \in Nat /\ Base(p) = n + b + 2
  BY <1>1 DEF Lengths, Base
<1>4. T = Framed(p.frames, Len(p.frames)) /\ Len(T) = Offset(p, Len(p.frames))
  BY <1>1 DEF Lengths, Offset
<1> QED BY <1>2, <1>3, <1>4

\* The frame after the first n, whose tokens come after the first o.
FrameHere(p, n, f, o) ==
    /\ V!Conforms(p) /\ ~p.idle /\ n \in Nat /\ n + 1 <= Len(p.frames)
    /\ f = p.frames[n + 1] /\ o = Base(p) + Offset(p, n)

\* Where the tokens of a frame are.
LEMMA FrameAt ==
  ASSUME NEW p, NEW n, NEW f, NEW o, FrameHere(p, n, f, o)
  PROVE  /\ V!Tokens(p)[o + 1] = [t |-> "head", frame |-> f]
         /\ f.masked => V!Tokens(p)[o + 2] = [t |-> "mask", bits |-> f.mask]
         /\ V!Tokens(p)[o + FramePieces(f)] = [t |-> "data", bits |-> f.wire]
         /\ Offset(p, n + 1) = Offset(p, n) + FramePieces(f)
         /\ Offset(p, n) \in Nat /\ Base(p) \in Nat /\ Len(V!Tokens(p)) \in Nat
         /\ Base(p) + Offset(p, n + 1) <= Len(V!Tokens(p))
<1>1. PICK N \in Nat : N = Len(p.frames)
  BY FramesAreTyped DEF FrameHere
<1>2. /\ V!Conforms(p) /\ ~p.idle /\ n \in Nat /\ n + 1 \in 0..Len(p.frames) /\ n \in 0..Len(p.frames)
      /\ n + 1 \in DOMAIN p.frames /\ N \in 0..Len(p.frames)
  BY <1>1, FramesAreTyped DEF FrameHere
<1>3. PICK s, t, u, T, S : /\ s = Framed(p.frames, n) /\ t = V!FrameTokens(f)
                           /\ u = Framed(p.frames, n + 1) /\ T = Framed(p.frames, N)
                           /\ S = FrameToken(p.frames)
  OBVIOUS
<1>4. PICK c : c = Base(p) /\ c \in Nat
  BY <1>2, FramesLast
<1>5. /\ \A i \in 1..Len(T) : V!Tokens(p)[c + i] = T[i]
      /\ Len(V!Tokens(p)) = c + Len(T)
  BY <1>1, <1>2, <1>3, <1>4, FramesLast DEF Offset
<1>6. s \in Seq(S) /\ Len(s) \in Nat
  BY <1>2, <1>3, FramedTyped
<1>7. u \in Seq(S) /\ Len(u) \in Nat
  BY <1>2, <1>3, FramedTyped
<1>8. T \in Seq(S) /\ Len(T) \in Nat
  BY <1>2, <1>3, FramedTyped
<1>9. u = s \o t
  BY <1>2, <1>3, FramedGrows DEF FrameHere
<1>10. f = p.frames[n + 1]
  BY DEF FrameHere
<1>11. /\ t \in Seq(S) /\ Len(t) = FramePieces(f) /\ t[1] = [t |-> "head", frame |-> f]
       /\ f.masked => t[2] = [t |-> "mask", bits |-> f.mask]
       /\ t[FramePieces(f)] = [t |-> "data", bits |-> f.wire]
  <2>1. /\ t \in Seq(S)
        /\ Len(t) = IF f.masked THEN 3 ELSE 2
        /\ t[1] = [t |-> "head", frame |-> f]
        /\ f.masked => t[2] = [t |-> "mask", bits |-> f.mask]
        /\ t[Len(t)] = [t |-> "data", bits |-> f.wire]
    BY <1>2, <1>3, <1>10, FrameTokensAre
  <2>2. Len(t) = FramePieces(f)
    BY <2>1 DEF FramePieces
  <2> QED BY <2>1, <2>2
<1>12. PICK l, k \in Nat : l = Len(s) /\ k = FramePieces(f) /\ k \in {2, 3} /\ (f.masked => k = 3)
  BY <1>6 DEF FramePieces
<1>13. Pieces(S, s, l, t, k, u)
  BY <1>6, <1>9, <1>11, <1>12 DEF Pieces
<1>14. Len(u) = l + k
  BY <1>13, OnePieceMore
<1>15. \A i \in 1..k : u[l + i] = t[i]
  BY <1>13, OnePieceMore
<1>16. ASSUME NEW j \in 1..Len(u) PROVE T[j] = u[j] /\ Len(u) <= Len(T)
  <2>1. j \in 1..Len(Framed(p.frames, n + 1))
    BY <1>3, <1>16
  <2>2. /\ Len(Framed(p.frames, n + 1)) <= Len(Framed(p.frames, Len(p.frames)))
        /\ Framed(p.frames, Len(p.frames))[j] = Framed(p.frames, n + 1)[j]
    BY <1>2, <2>1, FramedFirst
  <2> QED BY <1>1, <1>3, <2>2
<1>17. Len(u) <= Len(T)
  <2>1. 1 \in 1..Len(u)
    <3>1. PICK m \in Nat : m = Len(u)
      BY <1>7
    <3>2. m = l + k /\ k >= 2 /\ l \in Nat /\ k \in Nat
      BY <3>1, <1>12, <1>14
    <3> QED BY <3>1, <3>2
  <2> QED BY <2>1, <1>16
<1>18. ASSUME NEW i \in 1..k PROVE V!Tokens(p)[(c + l) + i] = t[i]
  <2>1. PICK j \in Nat : j = l + i
    BY <1>12
  <2>2. j \in 1..Len(u)
    BY <2>1, <1>12, <1>14
  <2>3. j \in 1..Len(T)
    BY <2>2, <1>7, <1>8, <1>17
  <2>4. T[j] = t[i]
    BY <2>1, <2>2, <1>15, <1>16
  <2>5. V!Tokens(p)[c + j] = T[j]
    BY <2>3, <1>5
  <2>6. c + j = (c + l) + i
    BY <2>1, <1>4, <1>12
  <2> QED BY <2>4, <2>5, <2>6
<1>19. 1 \in 1..k /\ k \in 1..k /\ 2 \in 1..k
  BY <1>12
<1>20. o = c + l
  BY <1>3, <1>4, <1>12 DEF Offset, FrameHere
<1>21. Offset(p, n) = l /\ Offset(p, n + 1) = l + k
  BY <1>3, <1>12, <1>14 DEF Offset
<1>22. /\ V!Tokens(p)[o + 1] = t[1] /\ V!Tokens(p)[o + 2] = t[2] /\ V!Tokens(p)[o + k] = t[k]
  BY <1>18, <1>19, <1>20
<1>23. c + (l + k) <= Len(V!Tokens(p)) /\ Len(V!Tokens(p)) \in Nat
  BY <1>4, <1>5, <1>7, <1>8, <1>12, <1>14, <1>17
<1> QED BY <1>4, <1>11, <1>12, <1>21, <1>22, <1>23

(***************************************************************************)
(* Messages and what they are answered with.                               *)
(***************************************************************************)

StartOf(fs, i, j) == /\ j \in 1..i /\ fs[j].op \in {"text", "binary"}
                     /\ \A k \in j + 1..i : fs[k].op \notin {"text", "binary"}
Part(f) == IF V!IsData(f) THEN V!Clear(f) ELSE <<>>
Bits == {0, 1}

\* A message has one start.
LEMMA OneStart ==
  ASSUME NEW fs, NEW i \in Nat, NEW j, NEW m, StartOf(fs, i, j), StartOf(fs, i, m)
  PROVE  j = m
<1>1. j \in 1..i /\ m \in 1..i
  BY DEF StartOf
<1>2. ~(j < m)
  <2>1. ASSUME j < m PROVE FALSE
    <3>1. m \in j + 1..i
      BY <1>1, <2>1
    <3> QED BY <3>1 DEF StartOf
  <2> QED BY <2>1
<1>3. ~(m < j)
  <2>1. ASSUME m < j PROVE FALSE
    <3>1. j \in m + 1..i
      BY <1>1, <2>1
    <3> QED BY <3>1 DEF StartOf
  <2> QED BY <2>1
<1> QED BY <1>1, <1>2, <1>3

\* The parts of a message that begins at j, up to the frame i.
PartsOf(fs, i, j) == [k \in 1..i - j + 1 |-> Part(fs[j + k - 1])]

\* The message that ends at a frame, without its CHOOSE.
LEMMA MessageIs ==
  ASSUME NEW fs, NEW i \in Nat, NEW j, StartOf(fs, i, j)
  PROVE  /\ V!MessageEndingAt(fs, i).op = fs[j].op
         /\ V!MessageEndingAt(fs, i).data = V!FlattenSeq(PartsOf(fs, i, j))
<1>1. PICK s : s = CHOOSE m \in 1..i : /\ fs[m].op \in {"text", "binary"}
                                       /\ \A k \in m + 1..i : fs[k].op \notin {"text", "binary"}
  OBVIOUS
<1>2. StartOf(fs, i, s)
  BY <1>1 DEF StartOf
<1>3. s = j
  BY <1>2, OneStart
<1>4. V!MessageEndingAt(fs, i) = [op |-> fs[s].op,
        data |-> V!FlattenSeq([k \in 1..i - s + 1 |->
                    IF V!IsData(fs[s + k - 1]) THEN V!Clear(fs[s + k - 1]) ELSE <<>>])]
  BY <1>1 DEF V!MessageEndingAt
<1> QED BY <1>3, <1>4 DEF PartsOf, Part

\* A payload without its mask is bits.
LEMMA UnmaskedBits ==
  ASSUME NEW w \in Seq(Bits), NEW m \in Seq(Bits), Len(m) = 4, NEW i \in 1..Len(w)
  PROVE  (w[i] + m[((i - 1) % 4) + 1]) % 2 \in Bits
<1>1. i \in Nat /\ i >= 1
  BY LenProperties
<1>2. PICK k \in Nat : k = i - 1
  BY <1>1
<1>3. k % 4 \in 0..3
  OBVIOUS
<1>4. PICK j \in 1..4 : j = (k % 4) + 1
  BY <1>3
<1>5. m[j] \in Bits /\ w[i] \in Bits
  BY <1>4, ElementOfSeq
<1>6. PICK x, y \in Nat : x = w[i] /\ y = m[j]
  BY <1>5 DEF Bits
<1>7. (x + y) % 2 \in 0..1
  OBVIOUS
<1> QED BY <1>2, <1>4, <1>6, <1>7 DEF Bits

\* The payload of a frame that conforms is bits.
LEMMA ClearTyped ==
  ASSUME NEW p, V!Conforms(p), NEW i \in DOMAIN p.frames
  PROVE  V!Clear(p.frames[i]) \in Seq(Bits)
<1>1. PICK f : f = p.frames[i]
  OBVIOUS
<1>2. /\ f.wire \in Seq(Bits) /\ f.mask \in Seq(Bits) /\ (f.masked => Len(f.mask) = 4)
      /\ f.masked \in BOOLEAN
  BY <1>1 DEF V!Conforms, V!ConformingFrame, Bits
<1>3. CASE ~f.masked
  <2>1. V!Clear(f) = f.wire
    BY <1>3 DEF V!Clear, V!Unmask
  <2> QED BY <1>1, <1>2, <2>1
<1>4. CASE f.masked
  <2>1. PICK N \in Nat : N = Len(f.wire) /\ DOMAIN f.wire = 1..N
    BY <1>2, LenProperties
  <2>2. V!Clear(f) = [k \in 1..N |-> (f.wire[k] + f.mask[((k - 1) % 4) + 1]) % 2]
    BY <1>4, <2>1 DEF V!Clear, V!Unmask
  <2>3. \A k \in 1..N : (f.wire[k] + f.mask[((k - 1) % 4) + 1]) % 2 \in Bits
    BY <1>2, <1>4, <2>1, UnmaskedBits
  <2>4. V!Clear(f) \in [1..N -> Bits]
    BY <2>2, <2>3
  <2> QED BY <1>1, <2>4
<1> QED BY <1>2, <1>3, <1>4

\* A frame that begins a message is all of it so far.
LEMMA MessageStarts ==
  ASSUME NEW fs, NEW n \in Nat, fs[n + 1].op \in {"text", "binary"},
         V!Clear(fs[n + 1]) \in Seq(Bits)
  PROVE  /\ V!MessageEndingAt(fs, n + 1).op = fs[n + 1].op
         /\ V!MessageEndingAt(fs, n + 1).data = V!Clear(fs[n + 1])
<1>1. PICK i \in Nat : i = n + 1
  OBVIOUS
<1>2. StartOf(fs, i, i)
  BY <1>1 DEF StartOf
<1>3. i - i + 1 = 1 /\ i + 1 - 1 = i
  BY <1>1
<1>4. PICK F : F = PartsOf(fs, i, i)
  OBVIOUS
<1>5. F = [k \in 1..1 |-> Part(fs[i + k - 1])] /\ F[1] = V!Clear(fs[i])
  <2>1. F = [k \in 1..1 |-> Part(fs[i + k - 1])]
    BY <1>3, <1>4 DEF PartsOf
  <2>2. F[1] = Part(fs[i + 1 - 1])
    BY <2>1
  <2>3. F[1] = Part(fs[i])
    BY <2>2, <1>3
  <2> QED BY <1>1, <2>1, <2>3 DEF Part, V!IsData
<1>6. F \in [1..(0 + 1) -> Seq(Bits)] /\ F[0 + 1] = V!Clear(fs[i])
  <2>1. 0 + 1 = 1
    OBVIOUS
  <2>2. \A k \in 1..1 : F[k] \in Seq(Bits)
    BY <1>1, <1>5
  <2>3. F \in [1..1 -> Seq(Bits)]
    BY <1>5, <2>2
  <2> QED BY <2>1, <2>3, <1>5
<1>7. [k \in 1..0 |-> F[k]] = <<>>
  OBVIOUS
<1>8. V!FlattenSeq(F) = V!FlattenSeq([k \in 1..0 |-> F[k]]) \o F[0 + 1]
  BY <1>6, FlattenMore
<1>9. V!FlattenSeq(F) = V!Clear(fs[i])
  BY <1>1, <1>6, <1>7, <1>8, FlattenNone, ConcatEmptySeq
<1> QED BY <1>1, <1>2, <1>4, <1>9, MessageIs

\* A frame that continues a message adds its payload, other frames nothing.
LEMMA MessageGrows ==
  ASSUME NEW p, V!Conforms(p), NEW n \in Nat, n + 1 <= Len(p.frames), NEW j,
         StartOf(p.frames, n, j), p.frames[n + 1].op \notin {"text", "binary"}
  PROVE  /\ V!MessageEndingAt(p.frames, n + 1).op = V!MessageEndingAt(p.frames, n).op
         /\ V!MessageEndingAt(p.frames, n + 1).data
              = V!MessageEndingAt(p.frames, n).data \o Part(p.frames[n + 1])
         /\ V!MessageEndingAt(p.frames, n).data \in Seq(Bits)
<1>1. PICK fs : fs = p.frames
  OBVIOUS
<1>2. PICK i \in Nat : i = n + 1
  OBVIOUS
<1>3. j \in 1..n /\ j \in Nat
  BY DEF StartOf
<1>4. StartOf(fs, n, j) /\ StartOf(fs, i, j)
  <2>1. j \in 1..i
    BY <1>2, <1>3
  <2>2. ASSUME NEW k \in j + 1..i PROVE fs[k].op \notin {"text", "binary"}
    <3>1. k = i \/ k \in j + 1..n
      BY <1>2, <1>3
    <3> QED BY <3>1, <1>1, <1>2 DEF StartOf
  <2> QED BY <1>1, <2>1, <2>2 DEF StartOf
<1>5. PICK m \in Nat : m = n - j + 1
  BY <1>3
<1>6. i - j + 1 = m + 1 /\ j + (m + 1) - 1 = i
  BY <1>2, <1>3, <1>5
<1>7. PICK F, G : F = PartsOf(fs, i, j) /\ G = PartsOf(fs, n, j)
  OBVIOUS
<1>8. F = [k \in 1..(m + 1) |-> Part(fs[j + k - 1])] /\ G = [k \in 1..m |-> Part(fs[j + k - 1])]
  BY <1>5, <1>6, <1>7 DEF PartsOf
<1>9. G = [k \in 1..m |-> F[k]]
  <2>1. \A k \in 1..m : k \in 1..(m + 1)
    OBVIOUS
  <2> QED BY <2>1, <1>8
<1>10. ASSUME NEW k \in 1..(m + 1) PROVE Part(fs[j + k - 1]) \in Seq(Bits)
  <2>1. PICK q \in Nat : q = j + k - 1
    BY <1>3
  <2>2. PICK N \in Nat : N = Len(p.frames) /\ DOMAIN p.frames = 1..N
    BY FramesAreTyped
  <2>3. q \in DOMAIN p.frames
    BY <2>1, <2>2, <1>3, <1>5
  <2>4. V!Clear(fs[q]) \in Seq(Bits)
    BY <2>3, <1>1, ClearTyped
  <2>5. <<>> \in Seq(Bits)
    BY EmptySeq
  <2> QED BY <2>1, <2>4, <2>5 DEF Part
<1>11. F \in [1..(m + 1) -> Seq(Bits)]
  BY <1>8, <1>10
<1>12. /\ V!FlattenSeq(F) = V!FlattenSeq(G) \o F[m + 1]
       /\ V!FlattenSeq(G) \in Seq(Bits)
  BY <1>9, <1>11, FlattenMore
<1>13. F[m + 1] = Part(fs[i])
  <2>1. m + 1 \in 1..(m + 1)
    OBVIOUS
  <2>2. F[m + 1] = Part(fs[j + (m + 1) - 1])
    BY <2>1, <1>8
  <2> QED BY <2>2, <1>6
<1>14. /\ V!MessageEndingAt(fs, n).op = fs[j].op
       /\ V!MessageEndingAt(fs, n).data = V!FlattenSeq(G)
  BY <1>4, <1>7, MessageIs
<1>15. /\ V!MessageEndingAt(fs, i).op = fs[j].op
       /\ V!MessageEndingAt(fs, i).data = V!FlattenSeq(F)
  BY <1>4, <1>7, MessageIs
<1> QED BY <1>1, <1>2, <1>12, <1>13, <1>14, <1>15

\* A message that is begun and not ended has a last start.
LEMMA OpenHas ==
  ASSUME NEW fs, NEW n \in Nat, V!Open(fs, n)
  PROVE  \E j : StartOf(fs, n, j)
<1>1. PICK j \in 1..n : /\ fs[j].op \in {"text", "binary"} /\ ~fs[j].fin
                        /\ \A m \in j + 1..n : V!IsData(fs[m]) => fs[m].op = "more" /\ ~fs[m].fin
  BY DEF V!Open
<1>2. ASSUME NEW m \in j + 1..n PROVE fs[m].op \notin {"text", "binary"}
  BY <1>1, <1>2 DEF V!IsData
<1> QED BY <1>1, <1>2 DEF StartOf

\* What is open after a frame that begins nothing was open before it.
LEMMA OpenBefore ==
  ASSUME NEW fs, NEW n \in Nat, V!Open(fs, n + 1), fs[n + 1].op \notin {"text", "binary"}
  PROVE  V!Open(fs, n) /\ (V!IsData(fs[n + 1]) => ~fs[n + 1].fin)
<1>1. PICK i \in Nat : i = n + 1
  OBVIOUS
<1>2. PICK j \in 1..i : /\ fs[j].op \in {"text", "binary"} /\ ~fs[j].fin
                        /\ \A m \in j + 1..i : V!IsData(fs[m]) => fs[m].op = "more" /\ ~fs[m].fin
  BY <1>1 DEF V!Open
<1>3. j # i
  BY <1>1, <1>2
<1>4. j \in 1..n /\ i \in j + 1..i /\ \A m \in j + 1..n : m \in j + 1..i
  BY <1>1, <1>3
<1>5. V!Open(fs, n)
  BY <1>2, <1>4 DEF V!Open
<1> QED BY <1>1, <1>2, <1>4, <1>5

\* A message that a frame begins is open if the frame does not end it.
LEMMA OpenAtStart ==
  ASSUME NEW fs, NEW n \in Nat, V!Open(fs, n + 1), fs[n + 1].op \in {"text", "binary"}
  PROVE  ~fs[n + 1].fin
<1>1. PICK i \in Nat : i = n + 1
  OBVIOUS
<1>2. PICK j \in 1..i : /\ fs[j].op \in {"text", "binary"} /\ ~fs[j].fin
                        /\ \A m \in j + 1..i : V!IsData(fs[m]) => fs[m].op = "more" /\ ~fs[m].fin
  BY <1>1 DEF V!Open
<1>3. j = i \/ i \in j + 1..i
  BY <1>1
<1> QED BY <1>1, <1>2, <1>3 DEF V!IsData

\* What has been put together of the message that is open.
Collected(fs, n, opcode, message) ==
    /\ message \in Seq(Bits)
    /\ V!Open(fs, n) => /\ opcode = V!MessageEndingAt(fs, n).op
                      /\ message = V!MessageEndingAt(fs, n).data

\* A frame inside a message that is not of it.
LEMMA ControlFrame ==
  ASSUME NEW p, V!Conforms(p), NEW n \in Nat, n + 1 <= Len(p.frames), ~V!IsData(p.frames[n + 1]),
         NEW opcode, NEW message, Collected(p.frames, n, opcode, message)
  PROVE  Collected(p.frames, n + 1, opcode, message)
<1>1. SUFFICES ASSUME V!Open(p.frames, n + 1)
               PROVE  /\ opcode = V!MessageEndingAt(p.frames, n + 1).op
                      /\ message = V!MessageEndingAt(p.frames, n + 1).data
  BY DEF Collected
<1>2. p.frames[n + 1].op \notin {"text", "binary"}
  BY DEF V!IsData
<1>3. V!Open(p.frames, n)
  BY <1>1, <1>2, OpenBefore
<1>4. PICK j : StartOf(p.frames, n, j)
  BY <1>3, OpenHas
<1>5. /\ V!MessageEndingAt(p.frames, n + 1).op = V!MessageEndingAt(p.frames, n).op
      /\ V!MessageEndingAt(p.frames, n + 1).data
           = V!MessageEndingAt(p.frames, n).data \o Part(p.frames[n + 1])
      /\ V!MessageEndingAt(p.frames, n).data \in Seq(Bits)
  BY <1>2, <1>4, MessageGrows
<1>6. Part(p.frames[n + 1]) = <<>>
  BY DEF Part
<1>7. V!MessageEndingAt(p.frames, n + 1).data = V!MessageEndingAt(p.frames, n).data
  BY <1>5, <1>6, ConcatEmptySeq
<1> QED BY <1>3, <1>5, <1>7 DEF Collected

\* A frame of a message is added to what there is of it.
LEMMA DataFrame ==
  ASSUME NEW p, V!Conforms(p), NEW n \in Nat, n + 1 <= Len(p.frames), NEW f,
         f = p.frames[n + 1], V!IsData(f),
         NEW opcode, NEW message, Collected(p.frames, n, opcode, message)
  PROVE  /\ V!MessageEndingAt(p.frames, n + 1).op = IF f.op = "more" THEN opcode ELSE f.op
         /\ V!MessageEndingAt(p.frames, n + 1).data
              = IF f.op = "more" THEN message \o V!Clear(f) ELSE V!Clear(f)
         /\ V!MessageEndingAt(p.frames, n + 1).data \in Seq(Bits)
<1>1. n + 1 \in DOMAIN p.frames
  <2>1. PICK N \in Nat : N = Len(p.frames) /\ DOMAIN p.frames = 1..N
    BY FramesAreTyped
  <2> QED BY <2>1
<1>2. V!Clear(f) \in Seq(Bits)
  BY <1>1, ClearTyped
<1>3. CASE f.op # "more"
  <2>1. p.frames[n + 1].op \in {"text", "binary"}
    BY <1>3 DEF V!IsData
  <2> QED BY <1>2, <1>3, <2>1, MessageStarts
<1>4. CASE f.op = "more"
  <2>1. V!Open(p.frames, n)
    <3>1. PICK i \in Nat : i = n + 1 /\ i - 1 = n
      OBVIOUS
    <3>2. V!ConformingFrame(p.frames, i)
      BY <1>1, <3>1 DEF V!Conforms
    <3> QED BY <1>4, <3>1, <3>2 DEF V!ConformingFrame
  <2>2. PICK j : StartOf(p.frames, n, j)
    BY <2>1, OpenHas
  <2>3. p.frames[n + 1].op \notin {"text", "binary"}
    BY <1>4
  <2>4. /\ V!MessageEndingAt(p.frames, n + 1).op = V!MessageEndingAt(p.frames, n).op
        /\ V!MessageEndingAt(p.frames, n + 1).data
             = V!MessageEndingAt(p.frames, n).data \o Part(p.frames[n + 1])
        /\ V!MessageEndingAt(p.frames, n).data \in Seq(Bits)
    BY <2>2, <2>3, MessageGrows
  <2>5. Part(p.frames[n + 1]) = V!Clear(f)
    BY DEF Part
  <2>6. opcode = V!MessageEndingAt(p.frames, n).op /\ message = V!MessageEndingAt(p.frames, n).data
    BY <2>1 DEF Collected
  <2>7. message \o V!Clear(f) \in Seq(Bits)
    BY <1>2, <2>4, <2>6, ConcatProperties
  <2> QED BY <1>4, <2>4, <2>5, <2>6, <2>7
<1> QED BY <1>3, <1>4

\* After a frame of data the message is what was collected up to it.
LEMMA DataFrameCollected ==
  ASSUME NEW p, V!Conforms(p), NEW n \in Nat, n + 1 <= Len(p.frames), NEW f,
         f = p.frames[n + 1], V!IsData(f), NEW opcode, NEW message,
         IF f.fin THEN message = <<>>
         ELSE /\ opcode = V!MessageEndingAt(p.frames, n + 1).op
              /\ message = V!MessageEndingAt(p.frames, n + 1).data /\ message \in Seq(Bits)
  PROVE  Collected(p.frames, n + 1, opcode, message)
<1>1. <<>> \in Seq(Bits)
  BY EmptySeq
<1>2. CASE f.fin
  <2>1. ~V!Open(p.frames, n + 1)
    <3>1. CASE f.op \in {"text", "binary"}
      BY <1>2, <3>1, OpenAtStart
    <3>2. CASE f.op \notin {"text", "binary"}
      BY <1>2, <3>2, OpenBefore
    <3> QED BY <3>1, <3>2
  <2> QED BY <1>1, <1>2, <2>1 DEF Collected
<1>3. CASE ~f.fin
  BY <1>3 DEF Collected
<1> QED BY <1>2, <1>3

\* Before the first frame nothing is collected.
LEMMA CollectedNone ==
  ASSUME NEW fs, NEW opcode PROVE Collected(fs, 0, opcode, <<>>)
<1>1. <<>> \in Seq(Bits)
  BY EmptySeq
<1>2. ~V!Open(fs, 0)
  BY DEF V!Open
<1> QED BY <1>1, <1>2 DEF Collected

(***************************************************************************)
(* Answers to the frames.                                                  *)
(***************************************************************************)

Replies(fs, n) == V!FlattenSeq([i \in 1..n |-> V!ReplyTo(fs, i)])

\* A frame written for a reply.
Written(x, r) ==
    /\ x.op = r.op /\ x.data = r.data
    /\ x.field = CHOOSE k \in {7, 16, 64} : /\ k = 7 <=> Len(r.data) < Short
                                            /\ k = 64 <=> Len(r.data) > Medium
Echoed(fs, n, e) ==
    /\ e \in Seq({e[i] : i \in DOMAIN e})
    /\ Len(e) = Len(Replies(fs, n)) /\ \A i \in DOMAIN Replies(fs, n) : Written(e[i], Replies(fs, n)[i])

\* The replies to one frame more.
LEMMA RepliesMore ==
  ASSUME NEW fs, NEW n \in Nat
  PROVE  \E S : /\ Replies(fs, n) \in Seq(S) /\ V!ReplyTo(fs, n + 1) \in Seq(S)
                /\ Replies(fs, n + 1) = Replies(fs, n) \o V!ReplyTo(fs, n + 1)
<1>1. PICK F : F = [i \in 1..(n + 1) |-> V!ReplyTo(fs, i)]
  OBVIOUS
<1>2. PICK S : S = {V!ReplyTo(fs, i)[1] : i \in 1..(n + 1)}
  OBVIOUS
<1>3. ASSUME NEW i \in 1..(n + 1) PROVE V!ReplyTo(fs, i) \in Seq(S)
  <2>1. V!ReplyTo(fs, i) = <<>> \/ \E x : V!ReplyTo(fs, i) = <<x>>
    BY DEF V!ReplyTo
  <2>2. CASE V!ReplyTo(fs, i) = <<>>
    BY <2>2, EmptySeq
  <2>3. ASSUME NEW x, V!ReplyTo(fs, i) = <<x>> PROVE V!ReplyTo(fs, i) \in Seq(S)
    <3>1. x = V!ReplyTo(fs, i)[1]
      BY <2>3
    <3>2. x \in S
      BY <1>2, <3>1
    <3> QED BY <2>3, <3>2
  <2> QED BY <2>1, <2>2, <2>3
<1>4. F \in [1..(n + 1) -> Seq(S)] /\ n + 1 \in 1..(n + 1)
  BY <1>1, <1>3
<1>5. [i \in 1..n |-> F[i]] = [i \in 1..n |-> V!ReplyTo(fs, i)]
  <2>1. \A i \in 1..n : i \in 1..(n + 1)
    OBVIOUS
  <2> QED BY <2>1, <1>1
<1>6. PICK G : G = [i \in 1..n |-> F[i]]
  OBVIOUS
<1>7. V!FlattenSeq(F) = V!FlattenSeq(G) \o F[n + 1] /\ V!FlattenSeq(G) \in Seq(S)
  BY <1>4, <1>6, FlattenMore
<1>8. Replies(fs, n) = V!FlattenSeq(G) /\ Replies(fs, n + 1) = V!FlattenSeq(F)
  BY <1>1, <1>5, <1>6 DEF Replies
<1>9. F[n + 1] = V!ReplyTo(fs, n + 1) /\ F[n + 1] \in Seq(S)
  BY <1>1, <1>3, <1>4
<1> QED BY <1>7, <1>8, <1>9

\* A frame without a reply leaves what was echoed exact.
LEMMA EchoesNothing ==
  ASSUME NEW fs, NEW n \in Nat, NEW e, Echoed(fs, n, e), V!ReplyTo(fs, n + 1) = <<>>
  PROVE  Echoed(fs, n + 1, e)
<1>1. PICK S : /\ Replies(fs, n) \in Seq(S)
               /\ Replies(fs, n + 1) = Replies(fs, n) \o V!ReplyTo(fs, n + 1)
  BY RepliesMore
<1>2. Replies(fs, n + 1) = Replies(fs, n)
  BY <1>1, ConcatEmptySeq
<1> QED BY <1>2 DEF Echoed

\* A frame that is replied to adds that reply.
LEMMA EchoesOne ==
  ASSUME NEW fs, NEW n \in Nat, NEW e, Echoed(fs, n, e), NEW r, V!ReplyTo(fs, n + 1) = <<r>>,
         NEW x, Written(x, r)
  PROVE  Echoed(fs, n + 1, Append(e, x))
<1>1. PICK S : /\ Replies(fs, n) \in Seq(S) /\ <<r>> \in Seq(S)
               /\ Replies(fs, n + 1) = Replies(fs, n) \o <<r>>
  BY RepliesMore
<1>2. PICK s, t, u : s = Replies(fs, n) /\ t = Replies(fs, n + 1) /\ u = Append(e, x)
  OBVIOUS
<1>3. PICK m \in Nat : m = Len(s)
  BY <1>1, <1>2, LenProperties
<1>4. t \in Seq(S) /\ Len(t) = m + 1 /\ (\A i \in 1..m : t[i] = s[i]) /\ t[m + 1] = r
  <2>1. Pieces(S, s, m, <<r>>, 1, t)
    BY <1>1, <1>2, <1>3 DEF Pieces
  <2>2. 1 \in 1..1 /\ <<r>>[1] = r
    OBVIOUS
  <2> QED BY <2>1, <2>2, OnePieceMore
<1>5. DOMAIN t = 1..(m + 1) /\ DOMAIN s = 1..m
  BY <1>1, <1>2, <1>3, <1>4, LenProperties
<1>6. PICK A : A = {e[i] : i \in DOMAIN e}
  OBVIOUS
<1>7. PICK Y : Y = A \cup {x}
  OBVIOUS
<1>8. e \in Seq(A) /\ Len(e) = m /\ \A i \in 1..m : Written(e[i], s[i])
  BY <1>2, <1>3, <1>5, <1>6 DEF Echoed
<1>9. e \in Seq(Y) /\ x \in Y
  BY <1>7, <1>8, SeqMonotonic
<1>10. u \in Seq(Y) /\ Len(u) = m + 1 /\ u[m + 1] = x /\ \A i \in 1..m : u[i] = e[i]
  BY <1>2, <1>8, <1>9, AppendProperties
<1>11. u \in Seq({u[i] : i \in DOMAIN u})
  <2>1. PICK D : D = {u[i] : i \in DOMAIN u}
    OBVIOUS
  <2>2. DOMAIN u = 1..(m + 1) /\ u = [i \in 1..(m + 1) |-> u[i]]
    BY <1>10, LenProperties
  <2>3. \A i \in 1..(m + 1) : u[i] \in D
    BY <2>1, <2>2
  <2>4. u \in [1..(m + 1) -> D]
    BY <2>2, <2>3
  <2>5. m + 1 \in Nat
    OBVIOUS
  <2>6. u \in Seq(D)
    BY <2>4, <2>5
  <2> QED BY <2>1, <2>6
<1>12. \A i \in 1..(m + 1) : Written(u[i], t[i])
  <2>1. \A i \in 1..(m + 1) : i \in 1..m \/ i = m + 1
    BY <1>3
  <2> QED BY <2>1, <1>4, <1>8, <1>10
<1> QED BY <1>2, <1>4, <1>5, <1>10, <1>11, <1>12 DEF Echoed

\* Before the first frame nothing is echoed.
LEMMA EchoedNone ==
  ASSUME NEW fs PROVE Echoed(fs, 0, <<>>)
<1>1. [i \in 1..0 |-> V!ReplyTo(fs, i)] = <<>>
  OBVIOUS
<1>2. Replies(fs, 0) = <<>>
  BY <1>1, FlattenNone DEF Replies
<1>3. DOMAIN <<>> = {} /\ Len(<<>>) = 0 /\ <<>> \in Seq({<<>>[i] : i \in DOMAIN <<>>})
  BY EmptySeq
<1> QED BY <1>2, <1>3 DEF Echoed

\* The length field that is written is the one its length needs.
LEMMA FieldIs ==
  ASSUME NEW d \in Seq(Bits), NEW op, NEW x,
         x = [fin |-> TRUE, op |-> op, data |-> d, field |-> V!LengthField(Len(d))]
  PROVE  Written(x, [op |-> op, data |-> d])
<1>1. PICK n \in Nat : n = Len(d)
  BY LenProperties
<1>2. Short \in Nat /\ Medium \in Nat /\ Short <= Medium
  BY ServerAssumption DEF ServerBounds
<1>3. PICK k : k = V!LengthField(n)
  OBVIOUS
<1>4. k \in {7, 16, 64} /\ (k = 7 <=> n < Short) /\ (k = 64 <=> n > Medium)
  BY <1>2, <1>3 DEF V!LengthField
<1>5. \A j \in {7, 16, 64} : (j = 7 <=> n < Short) /\ (j = 64 <=> n > Medium) => j = k
  BY <1>4
<1>6. k = CHOOSE j \in {7, 16, 64} : (j = 7 <=> n < Short) /\ (j = 64 <=> n > Medium)
  BY <1>4, <1>5
<1>7. x.op = op /\ x.data = d /\ x.field = k
  BY <1>1, <1>3
<1>8. PICK r : r = [op |-> op, data |-> d]
  OBVIOUS
<1>9. r.op = op /\ r.data = d
  BY <1>8
<1> QED BY <1>1, <1>6, <1>7, <1>8, <1>9 DEF Written

(***************************************************************************)
(* What a request is answered.                                             *)
(***************************************************************************)

Ranges == [form : {"none", "single", "open"}, from : Nat, to : Nat]

\* The first bytes and one more.
LEMMA FirstMore ==
  ASSUME NEW S, NEW s \in Seq(S), NEW n \in 1..Len(s)
  PROVE  [i \in 1..n |-> s[i]] = Append([i \in 1..n - 1 |-> s[i]], s[n])
<1>1. n \in Nat /\ n - 1 \in Nat
  BY LenProperties
<1>2. PICK m \in Nat : m = n - 1
  BY <1>1
<1>3. PICK u, v : u = [i \in 1..n |-> s[i]] /\ v = [i \in 1..m |-> s[i]]
  OBVIOUS
<1>4. PICK N \in Nat : N = Len(s)
  BY LenProperties
<1>5. \A i \in 1..n : s[i] \in S
  BY <1>1, <1>4, ElementOfSeq
<1>6. n = m + 1
  BY <1>1, <1>2
<1>7. u \in Seq(S) /\ v \in Seq(S) /\ Len(u) = n /\ Len(v) = m /\ s[n] \in S
  <2>1. u \in [1..n -> S] /\ v \in [1..m -> S]
    BY <1>3, <1>5, <1>6
  <2>2. n \in 1..n
    BY <1>6
  <2> QED BY <2>1, <2>2, <1>1, <1>3, <1>5
<1>8. PICK w : w = Append(v, s[n])
  OBVIOUS
<1>9. w \in Seq(S) /\ Len(w) = m + 1 /\ w[m + 1] = s[n] /\ \A i \in 1..m : w[i] = v[i]
  BY <1>7, <1>8, AppendProperties
<1>10. \A i \in 1..n : u[i] = w[i]
  <2>1. \A i \in 1..n : i \in 1..m \/ i = m + 1
    BY <1>6
  <2> QED BY <2>1, <1>3, <1>6, <1>9
<1>11. u = w
  BY <1>6, <1>7, <1>9, <1>10, SeqEqual
<1> QED BY <1>2, <1>3, <1>8, <1>11

\* A path of plain names is the one it names.
Skipped(name) == name \in {"", "."}
\* A path of plain names is its own plain form.
LEMMA PlainIs ==
  ASSUME NEW S, NEW path \in Seq(S), \A i \in DOMAIN path : ~Skipped(path[i])
  PROVE  V!Plain(path) = path
<1>1. PICK N \in Nat : N = Len(path) /\ DOMAIN path = 1..N
  BY LenProperties
<1> DEFINE Body(w) == [n \in 0..N |-> IF n = 0 THEN <<>>
                                      ELSE IF Skipped(path[n]) THEN w[n - 1]
                                      ELSE Append(w[n - 1], path[n])]
<1>2. PICK h : h = [n \in 0..N |-> [i \in 1..n |-> path[i]]]
  OBVIOUS
<1>3. h = Body(h)
  <2>1. ASSUME NEW n \in 0..N
        PROVE  h[n] = IF n = 0 THEN <<>> ELSE IF Skipped(path[n]) THEN h[n - 1]
                      ELSE Append(h[n - 1], path[n])
    <3>1. CASE n = 0
      <4>1. h[0] = [i \in 1..0 |-> path[i]]
        BY <1>2, <3>1
      <4>2. [i \in 1..0 |-> path[i]] = <<>>
        OBVIOUS
      <4> QED BY <3>1, <4>1, <4>2
    <3>2. CASE n # 0
      <4>1. n \in 1..N /\ n - 1 \in 0..N
        BY <3>2
      <4>2. ~Skipped(path[n])
        BY <1>1, <4>1
      <4>3. [i \in 1..n |-> path[i]] = Append([i \in 1..n - 1 |-> path[i]], path[n])
        BY <1>1, <4>1, FirstMore
      <4>4. h[n] = [i \in 1..n |-> path[i]] /\ h[n - 1] = [i \in 1..n - 1 |-> path[i]]
        BY <1>2, <4>1
      <4> QED BY <3>2, <4>2, <4>3, <4>4
    <3> QED BY <3>1, <3>2
  <2> QED BY <2>1, <1>2
<1>4. PICK w : w = Body(w) /\ V!Plain(path) = w[N]
  <2>1. V!Plain(path) = (CHOOSE w : w = Body(w))[N]
    BY <1>1 DEF V!Plain, Skipped
  <2> QED BY <2>1, <1>3
<1>5. \A n \in 0..N : w[n] = IF n = 0 THEN <<>> ELSE IF Skipped(path[n]) THEN w[n - 1]
                             ELSE Append(w[n - 1], path[n])
  BY <1>4
<1>6. \A n \in 0..N : h[n] = IF n = 0 THEN <<>> ELSE IF Skipped(path[n]) THEN h[n - 1]
                             ELSE Append(h[n - 1], path[n])
  BY <1>3
<1> DEFINE Q == {n \in Nat : n <= N => w[n] = h[n]}
<1>7. 0 \in Q
  <2>1. 0 \in 0..N
    BY <1>1
  <2> QED BY <2>1, <1>5, <1>6
<1>8. ASSUME NEW n \in Nat, n \in Q PROVE n + 1 \in Q
  <2> SUFFICES ASSUME n + 1 <= N PROVE w[n + 1] = h[n + 1]
    OBVIOUS
  <2>1. PICK m \in Nat : m = n + 1
    OBVIOUS
  <2>2. m \in 0..N /\ m # 0 /\ m - 1 = n /\ n <= N
    BY <2>1
  <2>3. w[n] = h[n]
    BY <1>8, <2>2
  <2> QED BY <2>1, <2>2, <2>3, <1>5, <1>6
<1> HIDE DEF Q
<1>9. Nat \subseteq Q
  BY <1>7, <1>8, SetInduction
<1>10. w[N] = h[N]
  <2>1. N \in Q /\ N <= N
    BY <1>9
  <2> QED BY <2>1 DEF Q
<1>11. h[N] = path
  <2>1. h[N] = [i \in 1..N |-> path[i]]
    BY <1>2
  <2> QED BY <2>1, <1>1
<1> QED BY <1>4, <1>10, <1>11

\* A path leads to one file at most.
LEMMA FoundIs ==
  ASSUME NEW path, V!Found(path) # {}
  PROVE  \E x : /\ V!Found(path) = {x} /\ V!IsSeq(x.body)
                /\ path \in DOMAIN Routes => x = Routes[path]
                /\ path \notin DOMAIN Routes =>
                     /\ V!Plain(path) \in DOMAIN Disk /\ Disk[V!Plain(path)].inside
                     /\ \A i \in DOMAIN path : path[i] # ".."
                     /\ x.type = V!ContentTypeFor(Disk[V!Plain(path)].ext)
                     /\ x.body = Disk[V!Plain(path)].body
<1>1. CASE path \in DOMAIN Routes
  <2>1. V!Found(path) = {Routes[path]}
    BY <1>1 DEF V!Found
  <2>2. V!IsSeq(Routes[path].body)
    BY <1>1, ServerAssumption DEF ServerBounds
  <2> QED BY <1>1, <2>1, <2>2
<1>2. CASE path \notin DOMAIN Routes
  <2>1. PICK full : full = V!Plain(path)
    OBVIOUS
  <2>2. V!StaticFile(path) # {}
    BY <1>2 DEF V!Found
  <2>3. /\ full \in DOMAIN Disk /\ Disk[full].inside /\ \A i \in DOMAIN path : path[i] # ".."
        /\ V!StaticFile(path) = {[type |-> V!ContentTypeFor(Disk[full].ext), body |-> Disk[full].body]}
    BY <2>1, <2>2 DEF V!StaticFile
  <2>4. PICK x : x = [type |-> V!ContentTypeFor(Disk[full].ext), body |-> Disk[full].body]
    OBVIOUS
  <2>5. V!Found(path) = {x}
    BY <1>2, <2>3, <2>4 DEF V!Found
  <2>6. x.type = V!ContentTypeFor(Disk[full].ext) /\ x.body = Disk[full].body
    BY <2>4
  <2>7. V!IsSeq(Disk[full].body)
    BY <2>3, ServerAssumption DEF ServerBounds
  <2> QED BY <1>2, <2>1, <2>3, <2>5, <2>6, <2>7
<1> QED BY <1>1, <1>2

\* What is not found is no route, and no file of the directory.
LEMMA NotFoundIs ==
  ASSUME NEW path, V!Found(path) = {}
  PROVE  path \notin DOMAIN Routes /\ (path \in DOMAIN Disk => ~Disk[path].inside)
<1>1. path \notin DOMAIN Routes
  BY DEF V!Found
<1>2. ASSUME path \in DOMAIN Disk, Disk[path].inside PROVE FALSE
  <2>1. /\ V!IsSeq(path) /\ \A i \in DOMAIN path : path[i] \notin {"", "."} /\ path[i] # ".."
    BY <1>2, ServerAssumption DEF ServerBounds
  <2>2. \A i \in DOMAIN path : ~Skipped(path[i])
    BY <2>1 DEF Skipped
  <2>3. V!Plain(path) = path
    BY <2>1, <2>2, PlainIs DEF V!IsSeq
  <2>4. V!StaticFile(path) # {}
    BY <1>2, <2>1, <2>3 DEF V!StaticFile
  <2> QED BY <1>1, <2>4 DEF V!Found
<1> QED BY <1>1, <1>2

\* The answer to a range: as many bytes of the file as there are, or none.
RangeAnswer(req, file, a) ==
    /\ a.status \in {206, 416} /\ a.type = file.type
    /\ a.status = 416 => a.total = Len(file.body)
                         /\ (req.range.from >= a.total \/ req.range.to < req.range.from)
    /\ a.status = 206 =>
         /\ a.range.from = req.range.from /\ a.range.from \in Nat /\ a.range.to \in Nat
         /\ a.range.to >= a.range.from /\ a.range.to < Len(file.body) /\ a.total = Len(file.body)
         /\ req.range.form # "open" => /\ a.range.to <= req.range.to
                                       /\ a.range.to \in {req.range.to, Len(file.body) - 1}
         /\ a.length = a.range.to - a.range.from + 1
         /\ ~req.head => a.body = SubSeq(file.body, a.range.from + 1, a.range.to + 1)
    /\ req.head => a.body = <<>>

\* What a range is answered.
LEMMA RangedIs ==
  ASSUME NEW req, NEW file, req.range \in Ranges, req.head \in BOOLEAN, V!IsSeq(file.body)
  PROVE  RangeAnswer(req, file, V!Ranged(req, file))
<1>1. PICK S, b : b = file.body /\ b \in Seq(S)
  BY DEF V!IsSeq
<1>2. PICK len \in Nat : len = Len(b)
  BY <1>1, LenProperties
<1>3. PICK from, to \in Nat : from = req.range.from /\ to = req.range.to
  BY DEF Ranges
<1>4. PICK open \in BOOLEAN : open <=> req.range.form = "open"
  OBVIOUS
<1>5. PICK last : last = IF open THEN len - 1 ELSE V!Least(to, len - 1)
  OBVIOUS
<1>6. PICK a : a = V!Ranged(req, file)
  OBVIOUS
<1>7. a = IF from >= len \/ (~open /\ to < from)
          THEN V!Response(req, 416, file.type, <<>>, V!NoRange, len)
          ELSE V!Response(req, 206, file.type, SubSeq(b, from + 1, last + 1),
                        [form |-> "sent", from |-> from, to |-> last], len)
  BY <1>1, <1>2, <1>3, <1>4, <1>5, <1>6 DEF V!Ranged
<1>8. CASE from >= len \/ (~open /\ to < from)
  <2>1. a = [status |-> 416, type |-> file.type, range |-> V!NoRange, total |-> len,
             length |-> Len(<<>>), body |-> IF req.head THEN <<>> ELSE <<>>]
    BY <1>7, <1>8 DEF V!Response
  <2>2. a.status = 416 /\ a.type = file.type /\ a.total = len /\ (req.head => a.body = <<>>)
    BY <2>1
  <2> QED BY <2>2, <1>1, <1>2, <1>3, <1>6, <1>8 DEF RangeAnswer
<1>9. CASE ~(from >= len \/ (~open /\ to < from))
  <2>1. last \in Nat /\ last >= from /\ last < len /\ (~open => last <= to /\ last \in {to, len - 1})
    BY <1>2, <1>3, <1>5, <1>9 DEF V!Least
  <2>2. PICK x : x = SubSeq(b, from + 1, last + 1)
    OBVIOUS
  <2>3. Len(x) = last - from + 1
    <3>1. PICK m, n \in Nat : m = from + 1 /\ n = last + 1
      <4>1. from + 1 \in Nat /\ last + 1 \in Nat
        BY <2>1, <1>3
      <4> QED BY <4>1
    <3>2. \A i \in m..n : b[i] \in S
      <4>1. \A i \in m..n : i \in 1..len
        BY <3>1, <2>1
      <4> QED BY <4>1, <1>1, <1>2, ElementOfSeq
    <3>3. Len(SubSeq(b, m, n)) = IF m <= n THEN n - m + 1 ELSE 0
      BY <3>2, SubSeqProperties
    <3>4. m <= n /\ n - m + 1 = last - from + 1
      BY <3>1, <2>1
    <3> QED BY <3>1, <3>3, <3>4, <2>2
  <2>4. PICK r : r = [form |-> "sent", from |-> from, to |-> last]
    OBVIOUS
  <2>5. a = [status |-> 206, type |-> file.type, range |-> r, total |-> len,
             length |-> Len(x), body |-> IF req.head THEN <<>> ELSE x]
    BY <1>7, <1>9, <2>2, <2>4 DEF V!Response
  <2>6. /\ a.status = 206 /\ a.type = file.type /\ a.range = r /\ a.total = len
        /\ a.length = Len(x) /\ a.body = IF req.head THEN <<>> ELSE x
    BY <2>5
  <2>7. r.from = from /\ r.to = last
    BY <2>4
  <2>8. /\ a.range.from = req.range.from /\ a.range.from \in Nat /\ a.range.to \in Nat
        /\ a.range.to >= a.range.from /\ a.range.to < Len(file.body) /\ a.total = Len(file.body)
    BY <2>1, <2>6, <2>7, <1>1, <1>2, <1>3
  <2>9. req.range.form # "open" => /\ a.range.to <= req.range.to
                                   /\ a.range.to \in {req.range.to, Len(file.body) - 1}
    BY <2>1, <2>6, <2>7, <1>1, <1>2, <1>3, <1>4
  <2>10. a.length = a.range.to - a.range.from + 1
    BY <2>3, <2>6, <2>7
  <2>11. ~req.head => a.body = SubSeq(file.body, a.range.from + 1, a.range.to + 1)
    BY <2>2, <2>6, <2>7, <1>1
  <2>12. req.head => a.body = <<>>
    BY <2>6
  <2>13. RangeAnswer(req, file, a)
    BY <2>6, <2>8, <2>9, <2>10, <2>11, <2>12 DEF RangeAnswer
  <2> QED BY <2>13, <1>6
<1> QED BY <1>6, <1>8, <1>9

(***************************************************************************)
(* A connection: what its thread has of what its client sent, and what it  *)
(* has answered.                                                           *)
(***************************************************************************)

Places == {"new", "line", "headers", "body", "handle", "frames", "ended"}
Requests(p) ==
    [path : {<<>>, p.path}, head : BOOLEAN, post : BOOLEAN,
     body : Seq({p.body[i] : i \in DOMAIN p.body}), range : Ranges,
     key : {"none"} \cup {p.headers[i].value : i \in DOMAIN p.headers}, length : Nat]
FrameParts(p) ==
    {<<>>} \cup {<<p.frames[i]>> : i \in DOMAIN p.frames}
    \cup {<<p.frames[i], p.frames[i].mask>> : i \in DOMAIN p.frames}
Opcodes(p) == {"none"} \cup {p.frames[i].op : i \in DOMAIN p.frames}
Connections(p) ==
    [at : Places, req : Requests(p), frame : FrameParts(p), message : Seq(Bits),
     opcode : Opcodes(p), frames : 0..Len(p.frames)]
Upgraded == [V!Unanswered EXCEPT !.status = 101]

\* What the first m headers say of the length of the body.
Promised(p, m, l) ==
    /\ l # 0 => \E i \in DOMAIN p.headers : p.headers[i].name = "length" /\ p.headers[i].value = l
    /\ \A i \in 1..m : p.headers[i].name = "length" => l >= Len(p.body)
Begins(b, w) == Len(b) <= Len(w) /\ \A i \in 1..Len(b) : b[i] = w[i]
Cut(p, sh) == \E i \in DOMAIN p.headers : /\ p.headers[i].name = "length"
                                          /\ p.headers[i].value > MaxRequest \/ sh
Received(p, b, sh) == Begins(b, p.body) /\ (Cut(p, sh) \/ b = p.body)
AtBody(p, req, tk, sn, sh) ==
    \/ sh /\ tk = sn /\ req.body = <<>>
    \/ /\ tk = (Len(p.headers) + 2) + Len(req.body) /\ Begins(req.body, p.body)
       /\ Promised(p, Len(p.headers), req.length)
       /\ Len(req.body) < V!Least(req.length, MaxRequest)
Reading(p, place, req, tk, sn, sh) ==
    /\ place \in {"new", "line"} => tk = 0 /\ req = V!NoRequest
    /\ place \in {"headers", "body", "handle", "frames"} => ~p.idle
    /\ place \in {"headers", "body", "handle"} => tk <= Base(p)
    /\ place = "headers" => /\ tk - 1 \in 0..Len(p.headers) /\ req.body = <<>>
                         /\ Promised(p, tk - 1, req.length)
    /\ place = "body" => AtBody(p, req, tk, sn, sh)
    /\ place = "handle" => Received(p, req.body, sh)

AtFrame(p, n, frame, tk) ==
    \/ tk < Base(p) /\ n = 0 /\ frame = <<>>
    \/ tk = Base(p) + Offset(p, n) /\ frame = <<>>
    \/ /\ n < Len(p.frames) /\ tk = Base(p) + Offset(p, n) + 1
       /\ frame = <<p.frames[n + 1]>>
    \/ /\ n < Len(p.frames) /\ tk = Base(p) + Offset(p, n) + 2 /\ p.frames[n + 1].masked
       /\ frame = <<p.frames[n + 1], p.frames[n + 1].mask>>
Framing(p, place, n, frame, tk) ==
    /\ place \notin {"frames", "ended"} => n = 0 /\ frame = <<>>
    /\ place = "frames" => AtFrame(p, n, frame, tk)
Answered(place, req, a) ==
    /\ place \notin {"frames", "ended"} => a = V!Unanswered
    /\ place = "frames" => a = Upgraded
    /\ place = "ended" => a \in {V!Unanswered, Upgraded} \/ a = V!Answer(req)

Counted(p, tk, sn, sh) ==
    tk \in Nat /\ sn \in Nat /\ tk <= sn /\ sn <= Len(V!Tokens(p)) /\ sh \in BOOLEAN
Client(p) == V!Conforms(p) /\ p.idle \in BOOLEAN
ConnOK(p, k, tk, sn, sh, a, e) ==
    /\ k \in Connections(p) /\ Counted(p, tk, sn, sh)
    /\ Reading(p, k.at, k.req, tk, sn, sh)
    /\ Framing(p, k.at, k.frames, k.frame, tk)
    /\ Answered(k.at, k.req, a)
    /\ Collected(p.frames, k.frames, k.opcode, k.message)
    /\ Echoed(p.frames, k.frames, e)

\* The tokens of a plan are counted.
LEMMA TokensCounted ==
  ASSUME NEW p, Client(p)
  PROVE  Len(V!Tokens(p)) \in Nat
<1>1. CASE p.idle
  <2>1. V!Tokens(p) = <<>>
    BY <1>1 DEF V!Tokens
  <2> QED BY <2>1
<1>2. CASE ~p.idle
  <2>1. V!Conforms(p)
    BY DEF Client
  <2>2. Base(p) \in Nat /\ Len(V!Tokens(p)) = Base(p) + Offset(p, Len(p.frames))
    BY <1>2, <2>1, FramesLast
  <2>3. PICK N \in Nat : N = Len(p.frames)
    BY <2>1, FramesAreTyped
  <2>4. N \in 0..Len(p.frames)
    BY <2>3
  <2>5. Offset(p, Len(p.frames)) \in Nat
    BY <2>1, <2>3, <2>4, FramedTyped DEF Offset
  <2> QED BY <2>2, <2>5
<1> QED BY <1>1, <1>2 DEF Client

\* The lengths in a plan are numbers.
LEMMA PlanLengths ==
  ASSUME NEW p, Client(p)
  PROVE  /\ Len(p.headers) \in Nat /\ Len(p.body) \in Nat /\ Len(p.frames) \in Nat
         /\ Base(p) \in Nat /\ Base(p) = Len(p.headers) + Len(p.body) + 2
         /\ DOMAIN p.headers = 1..Len(p.headers) /\ DOMAIN p.body = 1..Len(p.body)
         /\ DOMAIN p.frames = 1..Len(p.frames)
<1>1. V!Conforms(p)
  BY DEF Client
<1>2. Len(p.headers) \in Nat /\ Len(p.body) \in Nat /\ Len(p.frames) \in Nat
  BY <1>1, FramesAreTyped
<1>3. PICK n, b \in Nat : n = Len(p.headers) /\ b = Len(p.body)
  BY <1>2
<1>4. Base(p) = n + b + 2
  BY <1>3 DEF Base
<1>5. Base(p) \in Nat
  BY <1>4
<1> QED BY <1>1, <1>2, <1>3, <1>4, <1>5, FramesAreTyped

\* A body is a sequence of what is in it.
LEMMA BodyIs ==
  ASSUME NEW p, Client(p)
  PROVE  \E Y : Y = {p.body[i] : i \in DOMAIN p.body} /\ p.body \in Seq(Y)
<1>1. PICK n \in Nat : n = Len(p.body) /\ DOMAIN p.body = 1..n
  BY PlanLengths
<1>2. PICK S : p.body \in Seq(S)
  BY DEF Client, V!Conforms, V!IsSeq
<1>3. PICK Y : Y = {p.body[i] : i \in DOMAIN p.body}
  OBVIOUS
<1>4. p.body = [i \in 1..n |-> p.body[i]] /\ \A i \in 1..n : p.body[i] \in Y
  BY <1>1, <1>2, <1>3
<1>5. p.body \in [1..n -> Y]
  BY <1>4
<1>6. p.body \in Seq(Y)
  BY <1>5
<1> QED BY <1>3, <1>6

\* A connection that is at another place.
LEMMA Moved ==
  ASSUME NEW p, NEW k \in Connections(p), NEW x \in Places, NEW k2, k2 = [k EXCEPT !.at = x]
  PROVE  /\ k2 \in Connections(p) /\ k2.at = x /\ k2.req = k.req /\ k2.frame = k.frame
         /\ k2.message = k.message /\ k2.opcode = k.opcode /\ k2.frames = k.frames
BY DEF Connections

\* A connection with another request at another place.
LEMMA Asked ==
  ASSUME NEW p, NEW k \in Connections(p), NEW x \in Places, NEW r \in Requests(p), NEW k2,
         k2 = [k EXCEPT !.at = x, !.req = r]
  PROVE  /\ k2 \in Connections(p) /\ k2.at = x /\ k2.req = r /\ k2.frame = k.frame
         /\ k2.message = k.message /\ k2.opcode = k.opcode /\ k2.frames = k.frames
BY DEF Connections

\* What a connection is made of.
LEMMA Fields ==
  ASSUME NEW p, NEW k \in Connections(p)
  PROVE  /\ k.at \in Places /\ k.req \in Requests(p) /\ k.frame \in FrameParts(p)
         /\ k.message \in Seq(Bits) /\ k.opcode \in Opcodes(p) /\ k.frames \in 0..Len(p.frames)
BY DEF Connections

\* What a request is made of.
LEMMA RequestFields ==
  ASSUME NEW p, NEW r \in Requests(p)
  PROVE  /\ r.head \in BOOLEAN /\ r.post \in BOOLEAN /\ r.range \in Ranges /\ r.length \in Nat
         /\ r.body \in Seq({p.body[i] : i \in DOMAIN p.body}) /\ Len(r.body) \in Nat
         /\ r.path \in {<<>>, p.path}
<1>1. r.body \in Seq({p.body[i] : i \in DOMAIN p.body})
  BY DEF Requests
<1> QED BY <1>1, LenProperties DEF Requests

(***************************************************************************)
(* The client's steps.                                                     *)
(***************************************************************************)

\* A token that arrives is not read yet.
LEMMA DeliverOK ==
  ASSUME NEW p, Client(p), NEW k, NEW tk, NEW sn, NEW sh, NEW a, NEW e,
         ConnOK(p, k, tk, sn, sh, a, e), ~sh, sn < Len(V!Tokens(p))
  PROVE  ConnOK(p, k, tk, sn + 1, sh, a, e)
<1>1. Counted(p, tk, sn + 1, sh)
  BY TokensCounted DEF ConnOK, Counted
<1>2. Reading(p, k.at, k.req, tk, sn + 1, sh)
  <2>1. AtBody(p, k.req, tk, sn, sh) => AtBody(p, k.req, tk, sn + 1, sh)
    BY DEF AtBody
  <2> QED BY <2>1 DEF ConnOK, Reading
<1> QED BY <1>1, <1>2 DEF ConnOK

\* A client that leaves has sent what it has sent.
LEMMA CloseOK ==
  ASSUME NEW p, Client(p), NEW k, NEW tk, NEW sn, NEW sh, NEW a, NEW e,
         ConnOK(p, k, tk, sn, sh, a, e), sh = FALSE, NEW y, y = TRUE
  PROVE  ConnOK(p, k, tk, sn, y, a, e)
<1>1. Counted(p, tk, sn, TRUE)
  BY DEF ConnOK, Counted
<1>2. Reading(p, k.at, k.req, tk, sn, TRUE)
  <2>1. AtBody(p, k.req, tk, sn, sh) => AtBody(p, k.req, tk, sn, TRUE)
    BY DEF AtBody
  <2>2. Received(p, k.req.body, sh) => Received(p, k.req.body, TRUE)
    BY DEF Received, Cut
  <2> QED BY <2>1, <2>2 DEF ConnOK, Reading
<1> QED BY <1>1, <1>2 DEF ConnOK

(***************************************************************************)
(* The thread reads.                                                       *)
(***************************************************************************)

\* Nothing is read when a connection is accepted.
LEMMA AcceptOK ==
  ASSUME NEW p, Client(p), NEW k, NEW tk, NEW sn, NEW sh, NEW a, NEW e,
         ConnOK(p, k, tk, sn, sh, a, e), k.at = "new"
  PROVE  ConnOK(p, [k EXCEPT !.at = "line"], tk, sn, sh, a, e)
<1>1. PICK k2 : k2 = [k EXCEPT !.at = "line"]
  OBVIOUS
<1>2. k \in Connections(p) /\ "line" \in Places
  BY DEF ConnOK, Places
<1>3. /\ k2 \in Connections(p) /\ k2.at = "line" /\ k2.req = k.req /\ k2.frame = k.frame
      /\ k2.message = k.message /\ k2.opcode = k.opcode /\ k2.frames = k.frames
  BY <1>1, <1>2, Moved
<1>4. Reading(p, "line", k.req, tk, sn, sh)
  BY DEF ConnOK, Reading
<1>5. Framing(p, "line", k.frames, k.frame, tk) /\ Answered("line", k.req, a)
  BY DEF ConnOK, Framing, Answered
<1>6. ConnOK(p, k2, tk, sn, sh, a, e)
  BY <1>3, <1>4, <1>5 DEF ConnOK
<1> QED BY <1>1, <1>6

\* A connection that ends, as it is or with an answer.
LEMMA EndsOK ==
  ASSUME NEW p, Client(p), NEW k, NEW tk, NEW sn, NEW sh, NEW a, NEW e,
         ConnOK(p, k, tk, sn, sh, a, e), k.at # "ended", NEW tk2, Counted(p, tk2, sn, sh),
         NEW b, b = a \/ b = V!Answer(k.req)
  PROVE  ConnOK(p, [k EXCEPT !.at = "ended"], tk2, sn, sh, b, e)
<1>1. PICK k2 : k2 = [k EXCEPT !.at = "ended"]
  OBVIOUS
<1>2. k \in Connections(p) /\ "ended" \in Places
  BY DEF ConnOK, Places
<1>3. /\ k2 \in Connections(p) /\ k2.at = "ended" /\ k2.req = k.req /\ k2.frame = k.frame
      /\ k2.message = k.message /\ k2.opcode = k.opcode /\ k2.frames = k.frames
  BY <1>1, <1>2, Moved
<1>4. Reading(p, "ended", k.req, tk2, sn, sh)
  BY DEF Reading
<1>5. Framing(p, "ended", k.frames, k.frame, tk2) /\ Answered("ended", k.req, b)
  BY DEF ConnOK, Framing, Answered
<1>6. ConnOK(p, k2, tk2, sn, sh, b, e)
  BY <1>3, <1>4, <1>5 DEF ConnOK
<1> QED BY <1>1, <1>6

\* The tokens before the frames, one by one.
LEMMA EarlyAre ==
  ASSUME NEW p, Client(p), ~p.idle
  PROVE  \E n, b \in Nat :
           /\ n = Len(p.headers) /\ b = Len(p.body) /\ Base(p) = n + b + 2
           /\ V!Tokens(p)[1] = [t |-> "line", path |-> p.path, method |-> p.method]
           /\ \A i \in 1..n : V!Tokens(p)[i + 1] = [t |-> "header", header |-> p.headers[i]]
           /\ V!Tokens(p)[n + 2] = [t |-> "blank"]
           /\ \A i \in 1..b : V!Tokens(p)[(n + 2) + i] = [t |-> "byte", val |-> p.body[i]]
<1>1. V!Conforms(p)
  BY DEF Client
<1>2. PICK n, b, T : Lengths(p, n, b, T)
  BY <1>1, FramesAreTyped DEF Lengths
<1>3. /\ V!Tokens(p)[1] = [t |-> "line", path |-> p.path, method |-> p.method]
      /\ \A i \in 1..n : V!Tokens(p)[i + 1] = [t |-> "header", header |-> p.headers[i]]
      /\ V!Tokens(p)[n + 2] = [t |-> "blank"]
      /\ \A i \in 1..b : V!Tokens(p)[(n + 2) + i] = [t |-> "byte", val |-> p.body[i]]
      /\ \A i \in 1..Len(T) : V!Tokens(p)[Base(p) + i] = T[i]
      /\ Len(V!Tokens(p)) = Base(p) + Len(T)
  BY <1>1, <1>2, TokensAre
<1>4. n \in Nat /\ b \in Nat /\ n = Len(p.headers) /\ b = Len(p.body) /\ Base(p) = n + b + 2
  BY <1>2 DEF Lengths, Base
<1> QED BY <1>3, <1>4

\* A client that has sent something has not been idle.
LEMMA NotIdle ==
  ASSUME NEW p, Client(p), NEW tk, NEW sn, NEW sh, Counted(p, tk, sn, sh), tk < sn
  PROVE  ~p.idle /\ tk + 1 \in 1..Len(V!Tokens(p)) /\ Counted(p, tk + 1, sn, sh)
<1>1. PICK N \in Nat : N = Len(V!Tokens(p))
  BY TokensCounted
<1>2. tk \in Nat /\ sn \in Nat /\ sn <= N /\ sh \in BOOLEAN
  BY <1>1 DEF Counted
<1>3. tk + 1 \in 1..N /\ N # 0 /\ tk + 1 \in Nat /\ tk + 1 <= sn
  BY <1>2
<1>4. p.idle => V!Tokens(p) = <<>>
  BY DEF V!Tokens
<1>5. ~p.idle
  BY <1>1, <1>3, <1>4
<1> QED BY <1>1, <1>2, <1>3, <1>5 DEF Counted

\* The request of the first line, and of a header.
LineRead(q, item, r) == r = [q EXCEPT !.path = item.path, !.head = item.method = "HEAD",
                                       !.post = item.method = "POST"]
HeaderRead(q, h, r) ==
    r = CASE h.name = "range" -> [q EXCEPT !.range = V!ParseRange(h.value)]
          [] h.name = "length" -> [q EXCEPT !.length = h.value]
          [] h.name = "key" -> [q EXCEPT !.key = h.value]
          [] OTHER -> q

\* The request after its line.
LEMMA LineRequest ==
  ASSUME NEW p, NEW q \in Requests(p), NEW item, item.path = p.path,
         NEW r, LineRead(q, item, r)
  PROVE  r \in Requests(p) /\ r.body = q.body /\ r.length = q.length
<1>1. PICK x, y \in BOOLEAN : (x <=> item.method = "HEAD") /\ (y <=> item.method = "POST")
  OBVIOUS
<1>2. r = [q EXCEPT !.path = p.path, !.head = x, !.post = y]
  BY <1>1 DEF LineRead
<1> QED BY <1>2 DEF Requests

\* The request after a header.
LEMMA HeaderRequest ==
  ASSUME NEW p, NEW q \in Requests(p), NEW i \in DOMAIN p.headers, NEW h, h = p.headers[i],
         V!ConformingHeader(p, h), NEW r, HeaderRead(q, h, r)
  PROVE  /\ r \in Requests(p) /\ r.body = q.body
         /\ h.name # "length" => r.length = q.length
         /\ h.name = "length" => r.length = h.value /\ r.length \in Nat /\ r.length >= Len(p.body)
<1>1. CASE h.name = "range"
  <2>1. PICK v : v = V!ParseRange(h.value)
    OBVIOUS
  <2>2. v \in Ranges
    <3>1. h.value \in [form : {"single", "open", "suffix", "multi"}, from : Nat, to : Nat]
      BY <1>1 DEF V!ConformingHeader
    <3>2. CASE h.value.form \in {"suffix", "multi"}
      BY <2>1, <3>2 DEF V!ParseRange, V!NoRange, Ranges
    <3>3. CASE h.value.form \notin {"suffix", "multi"}
      BY <2>1, <3>1, <3>3 DEF V!ParseRange, Ranges
    <3> QED BY <3>2, <3>3
  <2>3. r = [q EXCEPT !.range = v]
    BY <1>1, <2>1 DEF HeaderRead
  <2>4. r \in Requests(p) /\ r.body = q.body /\ r.length = q.length
    BY <2>2, <2>3 DEF Requests
  <2> QED BY <2>4, <1>1
<1>2. CASE h.name = "length"
  <2>1. PICK v \in Nat : v = h.value /\ v >= Len(p.body)
    BY <1>2 DEF V!ConformingHeader
  <2>2. r = [q EXCEPT !.length = v]
    BY <1>2, <2>1 DEF HeaderRead
  <2>3. r \in Requests(p) /\ r.body = q.body /\ r.length = v
    BY <2>2 DEF Requests
  <2> QED BY <2>1, <2>3, <1>2
<1>3. CASE h.name = "key"
  <2>1. PICK v : v = h.value /\ v \in {p.headers[j].value : j \in DOMAIN p.headers}
    OBVIOUS
  <2>2. r = [q EXCEPT !.key = v]
    BY <1>3, <2>1 DEF HeaderRead
  <2>3. r \in Requests(p) /\ r.body = q.body /\ r.length = q.length
    BY <2>1, <2>2 DEF Requests
  <2> QED BY <2>3, <1>3
<1>4. CASE h.name \notin {"range", "length", "key"}
  <2>1. r = q
    BY <1>4 DEF HeaderRead
  <2> QED BY <2>1, <1>4
<1> QED BY <1>1, <1>2, <1>3, <1>4

\* A line read, or one that is junk.
LEMMA ReadLineOK ==
  ASSUME NEW p, Client(p), NEW k, NEW tk, NEW sn, NEW sh, NEW a, NEW e,
         ConnOK(p, k, tk, sn, sh, a, e), k.at = "line", tk < sn,
         NEW r, LineRead(k.req, V!Tokens(p)[tk + 1], r)
  PROVE  ConnOK(p, [k EXCEPT !.at = "headers", !.req = r], tk + 1, sn, sh, a, e)
<1>1. PICK k2 : k2 = [k EXCEPT !.at = "headers", !.req = r]
  OBVIOUS
<1>2. k \in Connections(p) /\ "headers" \in Places /\ Counted(p, tk, sn, sh)
  BY DEF ConnOK, Places
<1>3. ~p.idle /\ Counted(p, tk + 1, sn, sh)
  BY <1>2, NotIdle
<1>4. tk = 0 /\ k.req = V!NoRequest
  BY DEF ConnOK, Reading
<1>5. PICK n, b \in Nat :
           /\ n = Len(p.headers) /\ b = Len(p.body) /\ Base(p) = n + b + 2
           /\ V!Tokens(p)[1] = [t |-> "line", path |-> p.path, method |-> p.method]
  BY <1>3, EarlyAre
<1>6. PICK item : item = V!Tokens(p)[tk + 1] /\ LineRead(k.req, item, r)
  OBVIOUS
<1>7. item.path = p.path
  BY <1>4, <1>5, <1>6
<1>8. k.req \in Requests(p)
  BY <1>2, Fields
<1>9. r \in Requests(p) /\ r.body = k.req.body /\ r.length = k.req.length
  BY <1>6, <1>7, <1>8, LineRequest
<1>10. r.body = <<>> /\ r.length = 0
  BY <1>4, <1>9 DEF V!NoRequest
<1>11. /\ k2 \in Connections(p) /\ k2.at = "headers" /\ k2.req = r /\ k2.frame = k.frame
       /\ k2.message = k.message /\ k2.opcode = k.opcode /\ k2.frames = k.frames
  BY <1>1, <1>2, <1>9 DEF Connections
<1>12. Promised(p, 0, r.length)
  BY <1>10 DEF Promised
<1>13. Reading(p, "headers", r, tk + 1, sn, sh)
  <2>1. (tk + 1) - 1 = 0 /\ 0 \in 0..n /\ tk + 1 <= n + b + 2
    BY <1>4
  <2> QED BY <2>1, <1>3, <1>5, <1>10, <1>12 DEF Reading
<1>14. Framing(p, "headers", k.frames, k.frame, tk + 1) /\ Answered("headers", r, a)
  BY DEF ConnOK, Framing, Answered
<1>15. ConnOK(p, k2, tk + 1, sn, sh, a, e)
  BY <1>3, <1>11, <1>13, <1>14 DEF ConnOK
<1> QED BY <1>1, <1>15

\* How headers end: at the blank line or with the client.
LEMMA HeadersEnd ==
  ASSUME NEW p, Client(p), ~p.idle, NEW tk \in Nat, tk - 1 \in 0..Len(p.headers)
  PROVE  IF tk - 1 = Len(p.headers) THEN V!Tokens(p)[tk + 1] = [t |-> "blank"]
         ELSE /\ tk \in 1..Len(p.headers)
              /\ V!Tokens(p)[tk + 1] = [t |-> "header", header |-> p.headers[tk]]
<1>1. PICK n, b \in Nat :
           /\ n = Len(p.headers)
           /\ \A i \in 1..n : V!Tokens(p)[i + 1] = [t |-> "header", header |-> p.headers[i]]
           /\ V!Tokens(p)[n + 2] = [t |-> "blank"]
  BY EarlyAre
<1>2. CASE tk - 1 = n
  <2>1. tk + 1 = n + 2
    BY <1>2
  <2> QED BY <2>1, <1>1, <1>2
<1>3. CASE tk - 1 # n
  <2>1. tk \in 1..n
    BY <1>1, <1>3
  <2> QED BY <2>1, <1>1, <1>3
<1> QED BY <1>1, <1>2, <1>3

\* A header read.
LEMMA ReadHeaderOK ==
  ASSUME NEW p, Client(p), NEW k, NEW tk, NEW sn, NEW sh, NEW a, NEW e,
         ConnOK(p, k, tk, sn, sh, a, e), k.at = "headers", tk < sn,
         V!Tokens(p)[tk + 1].t = "header", NEW r, HeaderRead(k.req, V!Tokens(p)[tk + 1].header, r)
  PROVE  ConnOK(p, [k EXCEPT !.req = r], tk + 1, sn, sh, a, e)
<1>1. PICK k2 : k2 = [k EXCEPT !.req = r]
  OBVIOUS
<1>2. k \in Connections(p) /\ Counted(p, tk, sn, sh)
  BY DEF ConnOK
<1>3. ~p.idle /\ Counted(p, tk + 1, sn, sh) /\ tk \in Nat
  BY <1>2, NotIdle DEF Counted
<1>4. /\ tk - 1 \in 0..Len(p.headers) /\ k.req.body = <<>>
      /\ Promised(p, tk - 1, k.req.length)
  BY DEF ConnOK, Reading
<1>5. PICK h : h = V!Tokens(p)[tk + 1].header /\ HeaderRead(k.req, h, r)
  OBVIOUS
<1>6. tk \in 1..Len(p.headers) /\ h = p.headers[tk]
  <2>1. tk - 1 # Len(p.headers)
    <3>1. ASSUME tk - 1 = Len(p.headers) PROVE FALSE
      <4>1. V!Tokens(p)[tk + 1] = [t |-> "blank"]
        BY <3>1, <1>3, <1>4, HeadersEnd
      <4> QED BY <4>1
    <3> QED BY <3>1
  <2>2. /\ tk \in 1..Len(p.headers)
        /\ V!Tokens(p)[tk + 1] = [t |-> "header", header |-> p.headers[tk]]
    BY <2>1, <1>3, <1>4, HeadersEnd
  <2> QED BY <2>2, <1>5
<1>7. tk \in DOMAIN p.headers /\ tk - 1 \in 0..Len(p.headers) /\ tk \in 0..Len(p.headers)
      /\ tk + 1 <= Base(p)
  <2>1. PICK n, b \in Nat : n = Len(p.headers) /\ b = Len(p.body) /\ Base(p) = n + b + 2
                           /\ DOMAIN p.headers = 1..n
    BY PlanLengths
  <2>2. tk \in 1..n
    BY <2>1, <1>6
  <2>3. tk - 1 \in 0..n /\ tk \in 0..n /\ tk + 1 <= n + b + 2
    BY <2>2
  <2> QED BY <2>1, <2>2, <2>3
<1>8. V!ConformingHeader(p, h)
  <2>1. h \in V!ToSet(p.headers)
    BY <1>6, <1>7 DEF V!ToSet
  <2> QED BY <2>1 DEF Client, V!Conforms
<1>9. k.req \in Requests(p)
  BY <1>2, Fields
<1>10. /\ r \in Requests(p) /\ r.body = k.req.body
       /\ h.name # "length" => r.length = k.req.length
       /\ h.name = "length" => r.length = h.value /\ r.length \in Nat /\ r.length >= Len(p.body)
  BY <1>5, <1>6, <1>7, <1>8, <1>9, HeaderRequest
<1>11. /\ k2 \in Connections(p) /\ k2.at = k.at /\ k2.req = r /\ k2.frame = k.frame
       /\ k2.message = k.message /\ k2.opcode = k.opcode /\ k2.frames = k.frames
  BY <1>1, <1>2, <1>10 DEF Connections
<1>12. Promised(p, tk, r.length)
  <2>1. \A i \in 1..tk : i \in 1..tk - 1 \/ i = tk
    BY <1>3
  <2> QED BY <2>1, <1>4, <1>6, <1>7, <1>10 DEF Promised
<1>13. Reading(p, "headers", r, tk + 1, sn, sh)
  <2>1. (tk + 1) - 1 = tk
    BY <1>3
  <2> QED BY <2>1, <1>3, <1>4, <1>7, <1>10, <1>12 DEF Reading
<1>14. Framing(p, "headers", k.frames, k.frame, tk + 1) /\ Answered("headers", r, a)
  BY DEF ConnOK, Framing, Answered
<1>15. ConnOK(p, k2, tk + 1, sn, sh, a, e)
  BY <1>3, <1>11, <1>13, <1>14 DEF ConnOK
<1> QED BY <1>1, <1>15

\* A body that is as long as was promised is whole, or was cut.
LEMMA BodyDone ==
  ASSUME NEW p, Client(p), NEW b, NEW l \in Nat, NEW sh, Begins(b, p.body),
         Promised(p, Len(p.headers), l), NEW S, b \in Seq(S), ~(Len(b) < V!Least(l, MaxRequest))
  PROVE  Received(p, b, sh)
<1>1. PICK n, m \in Nat : n = Len(p.body) /\ m = Len(p.headers) /\ DOMAIN p.headers = 1..m
  BY PlanLengths
<1>2. PICK i \in Nat : i = Len(b)
  BY LenProperties
<1>3. MaxRequest \in Nat
  BY ServerAssumption DEF ServerBounds
<1>4. i <= n /\ \A j \in 1..i : b[j] = p.body[j]
  BY <1>1, <1>2 DEF Begins
<1>5. CASE l > MaxRequest
  <2>1. l # 0
    BY <1>3, <1>5
  <2>2. PICK j \in DOMAIN p.headers : p.headers[j].name = "length" /\ p.headers[j].value = l
    BY <2>1 DEF Promised
  <2>3. Cut(p, sh)
    BY <2>2, <1>5 DEF Cut
  <2> QED BY <2>3 DEF Received
<1>6. CASE ~(l > MaxRequest)
  <2>1. i >= l
    BY <1>2, <1>3, <1>6 DEF V!Least
  <2>2. i = n
    <3>1. CASE n = 0
      BY <3>1, <1>4
    <3>2. CASE n # 0
      <4>1. p.body # <<>>
        BY <3>2, <1>1
      <4>2. PICK h \in V!ToSet(p.headers) : h.name = "length"
        BY <4>1 DEF Client, V!Conforms
      <4>3. PICK j \in DOMAIN p.headers : p.headers[j].name = "length"
        BY <4>2 DEF V!ToSet
      <4>4. l >= n
        BY <4>3, <1>1 DEF Promised
      <4> QED BY <4>4, <2>1, <1>4
    <3> QED BY <3>1, <3>2
  <2>3. PICK Y : p.body \in Seq(Y)
    BY BodyIs
  <2>4. b = p.body
    <3>1. Len(b) = Len(p.body) /\ \A j \in 1..Len(b) : b[j] = p.body[j]
      BY <1>1, <1>2, <1>4, <2>2
    <3> QED BY <3>1, <2>3, SeqEqual
  <2> QED BY <2>4 DEF Received
<1> QED BY <1>5, <1>6

\* A body that a client has left is whole, or was cut.
LEMMA BodyLeft ==
  ASSUME NEW p, Client(p), NEW b, Begins(b, p.body), NEW S, b \in Seq(S)
  PROVE  Received(p, b, TRUE)
<1>1. CASE p.body = <<>>
  <2>1. Len(b) \in Nat /\ Len(b) <= 0
    <3>1. Len(p.body) = 0
      BY <1>1
    <3> QED BY <3>1, LenProperties DEF Begins
  <2>2. b = <<>>
    BY <2>1, EmptySeq
  <2> QED BY <2>2, <1>1 DEF Received
<1>2. CASE p.body # <<>>
  <2>1. PICK h \in V!ToSet(p.headers) : h.name = "length"
    BY <1>2 DEF Client, V!Conforms
  <2>2. PICK j \in DOMAIN p.headers : p.headers[j].name = "length"
    BY <2>1 DEF V!ToSet
  <2>3. Cut(p, TRUE)
    BY <2>2 DEF Cut
  <2> QED BY <2>3 DEF Received
<1> QED BY <1>1, <1>2

\* The empty body is a prefix of any, a sequence of length nought.
LEMMA NothingBegins ==
  ASSUME NEW p, Client(p)
  PROVE  Begins(<<>>, p.body) /\ <<>> \in Seq({}) /\ Len(<<>>) = 0
<1>1. Len(p.body) \in Nat
  BY PlanLengths
<1>2. <<>> \in Seq({}) /\ Len(<<>>) = 0
  BY EmptySeq
<1> QED BY <1>1, <1>2 DEF Begins

\* Where the thread goes when it knows what body to wait for.
After(req) == IF V!Least(req.length, MaxRequest) > 0 THEN "body" ELSE "handle"

\* The steps from headers to a body or a request have one shape.
LEMMA PlaceOK ==
  ASSUME NEW p, Client(p), NEW k, NEW tk, NEW sn, NEW sh, NEW a, NEW e,
         ConnOK(p, k, tk, sn, sh, a, e), k.at \in {"headers", "body"},
         NEW x \in {"body", "handle"}, NEW r \in Requests(p),
         NEW tk2, Counted(p, tk2, sn, sh), Reading(p, x, r, tk2, sn, sh)
  PROVE  ConnOK(p, [k EXCEPT !.at = x, !.req = r], tk2, sn, sh, a, e)
<1>1. PICK k2 : k2 = [k EXCEPT !.at = x, !.req = r]
  OBVIOUS
<1>2. k \in Connections(p) /\ x \in Places
  BY DEF ConnOK, Places
<1>3. /\ k2 \in Connections(p) /\ k2.at = x /\ k2.req = r /\ k2.frame = k.frame
      /\ k2.message = k.message /\ k2.opcode = k.opcode /\ k2.frames = k.frames
  BY <1>1, <1>2 DEF Connections
<1>4. Framing(p, x, k.frames, k.frame, tk2) /\ Answered(x, r, a)
  BY DEF ConnOK, Framing, Answered
<1>5. ConnOK(p, k2, tk2, sn, sh, a, e)
  BY <1>3, <1>4 DEF ConnOK
<1> QED BY <1>1, <1>5

\* The headers have ended.
LEMMA EndHeadersOK ==
  ASSUME NEW p, Client(p), NEW k, NEW tk, NEW sn, NEW sh, NEW a, NEW e,
         ConnOK(p, k, tk, sn, sh, a, e), k.at = "headers",
         NEW tk2, \/ tk < sn /\ V!Tokens(p)[tk + 1].t = "blank" /\ tk2 = tk + 1
                  \/ tk = sn /\ sh /\ tk2 = tk
  PROVE  ConnOK(p, [k EXCEPT !.at = After(k.req), !.req = k.req], tk2, sn, sh, a, e)
<1>1. k \in Connections(p) /\ Counted(p, tk, sn, sh) /\ tk \in Nat /\ ~p.idle
  BY DEF ConnOK, Counted, Reading
<1>2. /\ tk - 1 \in 0..Len(p.headers) /\ k.req.body = <<>> /\ tk <= Base(p)
      /\ Promised(p, tk - 1, k.req.length)
  BY DEF ConnOK, Reading
<1>3. PICK n, b \in Nat : /\ n = Len(p.headers) /\ b = Len(p.body) /\ Base(p) = n + b + 2
                          /\ DOMAIN p.headers = 1..n
  BY PlanLengths
<1>4. k.req \in Requests(p) /\ k.req.length \in Nat
  BY <1>1, Fields, RequestFields
<1>5. /\ Begins(<<>>, p.body) /\ <<>> \in Seq({}) /\ Len(<<>>) = 0 /\ MaxRequest \in Nat
  BY NothingBegins, ServerAssumption DEF ServerBounds
<1>6. PICK l \in Nat : l = k.req.length
  BY <1>4
<1>7. V!Least(l, MaxRequest) \in Nat
  BY <1>5 DEF V!Least
<1>8. After(k.req) = (IF V!Least(l, MaxRequest) > 0 THEN "body" ELSE "handle")
  BY <1>6 DEF After
<1>9. CASE tk < sn /\ V!Tokens(p)[tk + 1].t = "blank" /\ tk2 = tk + 1
  <2>1. tk - 1 = n
    <3>1. ASSUME tk - 1 # Len(p.headers) PROVE FALSE
      <4>1. V!Tokens(p)[tk + 1] = [t |-> "header", header |-> p.headers[tk]]
        BY <3>1, <1>1, <1>2, HeadersEnd
      <4> QED BY <4>1, <1>9
    <3> QED BY <3>1, <1>3
  <2>2. Counted(p, tk2, sn, sh) /\ tk2 = n + 2 /\ tk2 = n + 2 + 0 /\ tk2 <= n + b + 2
    <3>1. Counted(p, tk + 1, sn, sh)
      BY <1>1, <1>9, NotIdle
    <3> QED BY <3>1, <2>1, <1>1, <1>9
  <2>3. Promised(p, Len(p.headers), l)
    BY <1>2, <1>3, <1>6, <2>1
  <2>4. CASE V!Least(l, MaxRequest) > 0
    <3>1. AtBody(p, k.req, tk2, sn, sh)
      <4>1. Len(k.req.body) = 0 /\ 0 < V!Least(l, MaxRequest)
        BY <1>2, <1>5, <2>4, <1>7
      <4> QED BY <4>1, <1>2, <1>3, <1>5, <1>6, <2>2, <2>3 DEF AtBody
    <3>2. Reading(p, "body", k.req, tk2, sn, sh)
      BY <3>1, <1>1, <1>3, <2>2 DEF Reading
    <3> QED BY <3>2, <2>2, <2>4, <1>4, <1>8, PlaceOK
  <2>5. CASE ~(V!Least(l, MaxRequest) > 0)
    <3>1. ~(Len(<<>>) < V!Least(l, MaxRequest))
      BY <1>5, <2>5, <1>7
    <3>2. Received(p, <<>>, sh)
      BY <3>1, <2>3, <1>5, BodyDone
    <3>3. Reading(p, "handle", k.req, tk2, sn, sh)
      BY <3>2, <1>1, <1>2, <1>3, <2>2 DEF Reading
    <3> QED BY <3>3, <2>2, <2>5, <1>4, <1>8, PlaceOK
  <2> QED BY <2>4, <2>5
<1>10. CASE tk = sn /\ sh /\ tk2 = tk
  <2>1. Counted(p, tk2, sn, sh) /\ sh = TRUE
    BY <1>1, <1>10 DEF Counted
  <2>2. Received(p, <<>>, TRUE)
    BY <1>5, BodyLeft
  <2>3. AtBody(p, k.req, tk2, sn, sh)
    BY <1>2, <1>10 DEF AtBody
  <2>4. Reading(p, "body", k.req, tk2, sn, sh) /\ Reading(p, "handle", k.req, tk2, sn, sh)
    BY <2>1, <2>2, <2>3, <1>1, <1>2, <1>10 DEF Reading
  <2> QED BY <2>1, <2>4, <1>4, <1>8, PlaceOK
<1> QED BY <1>9, <1>10

\* A client that leaves in its body has sent a part of it.
LEMMA LeaveBodyOK ==
  ASSUME NEW p, Client(p), NEW k, NEW tk, NEW sn, NEW sh, NEW a, NEW e,
         ConnOK(p, k, tk, sn, sh, a, e), k.at = "body", tk = sn, sh
  PROVE  ConnOK(p, [k EXCEPT !.at = "handle", !.req = k.req], tk, sn, sh, a, e)
<1>1. k \in Connections(p) /\ Counted(p, tk, sn, sh) /\ ~p.idle /\ tk <= Base(p) /\ sh = TRUE
      /\ AtBody(p, k.req, tk, sn, sh)
  BY DEF ConnOK, Counted, Reading
<1>2. k.req \in Requests(p) /\ k.req.body \in Seq({p.body[i] : i \in DOMAIN p.body})
  BY <1>1, Fields, RequestFields
<1>3. Begins(k.req.body, p.body)
  BY <1>1, NothingBegins DEF AtBody
<1>4. Received(p, k.req.body, sh)
  BY <1>1, <1>2, <1>3, BodyLeft
<1>5. Reading(p, "handle", k.req, tk, sn, sh)
  BY <1>1, <1>4 DEF Reading
<1> QED BY <1>1, <1>2, <1>5, PlaceOK

\* A byte of the body is the one after those before it.
ByteHere(p, tk, m) ==
    /\ Client(p) /\ ~p.idle /\ tk \in Nat /\ m \in Nat /\ tk = (Len(p.headers) + 2) + m
    /\ tk + 1 \in 1..Len(V!Tokens(p)) /\ V!Tokens(p)[tk + 1].t = "byte"
\* The token that is read in a body is its next byte.
LEMMA ByteAt ==
  ASSUME NEW p, NEW tk, NEW m, ByteHere(p, tk, m)
  PROVE  /\ m + 1 \in 1..Len(p.body) /\ V!Tokens(p)[tk + 1].val = p.body[m + 1]
         /\ tk + 1 <= Base(p) /\ tk + 1 = (Len(p.headers) + 2) + (m + 1)
<1>1. Client(p) /\ ~p.idle /\ tk \in Nat /\ m \in Nat
  BY DEF ByteHere
<1>2. PICK n, b \in Nat :
           /\ n = Len(p.headers) /\ b = Len(p.body) /\ Base(p) = n + b + 2
           /\ V!Tokens(p)[1] = [t |-> "line", path |-> p.path, method |-> p.method]
           /\ \A i \in 1..n : V!Tokens(p)[i + 1] = [t |-> "header", header |-> p.headers[i]]
           /\ V!Tokens(p)[n + 2] = [t |-> "blank"]
           /\ \A i \in 1..b : V!Tokens(p)[(n + 2) + i] = [t |-> "byte", val |-> p.body[i]]
  BY <1>1, EarlyAre
<1>3. PICK c \in Nat : c = Base(p) /\ c = n + b + 2
  <2>1. Base(p) \in Nat
    BY <1>1, PlanLengths
  <2>2. Base(p) = n + b + 2
    BY <1>2
  <2> QED BY <2>1, <2>2
<1>4. PICK j \in Nat : j = tk + 1
  BY <1>1
<1>5. tk = (n + 2) + m /\ j \in 1..Len(V!Tokens(p)) /\ V!Tokens(p)[j].t = "byte"
  BY <1>2, <1>4 DEF ByteHere
<1>6. j = (n + 2) + (m + 1)
  BY <1>1, <1>4, <1>5
<1>7. j <= c
  <2>1. ASSUME ~(j <= Base(p)) PROVE FALSE
    <3>1. V!Conforms(p)
      BY <1>1 DEF Client
    <3>2. V!Tokens(p)[j].t \in LateKinds
      BY <2>1, <3>1, <1>1, <1>5, KindsOfTokens
    <3> QED BY <3>2, <1>5 DEF LateKinds
  <2> QED BY <2>1, <1>3
<1>8. m + 1 \in 1..b
  BY <1>1, <1>3, <1>6, <1>7
<1>9. V!Tokens(p)[j] = [t |-> "byte", val |-> p.body[m + 1]]
  BY <1>2, <1>6, <1>8
<1>10. V!Tokens(p)[j].val = p.body[m + 1]
  BY <1>9
<1> QED BY <1>2, <1>3, <1>4, <1>6, <1>7, <1>8, <1>10

ByteRead(q, item, r) == r = [q EXCEPT !.body = Append(q.body, item.val)]
NextPlace(q, x) == x = IF Len(q.body) + 1 = V!Least(q.length, MaxRequest) THEN "handle" ELSE "body"

\* A byte of the body read.
LEMMA ReadByteOK ==
  ASSUME NEW p, Client(p), NEW k, NEW tk, NEW sn, NEW sh, NEW a, NEW e,
         ConnOK(p, k, tk, sn, sh, a, e), k.at = "body", tk < sn,
         V!Tokens(p)[tk + 1].t = "byte",
         NEW r, ByteRead(k.req, V!Tokens(p)[tk + 1], r), NEW x, NextPlace(k.req, x)
  PROVE  ConnOK(p, [k EXCEPT !.at = x, !.req = r], tk + 1, sn, sh, a, e)
<1>1. k \in Connections(p) /\ Counted(p, tk, sn, sh) /\ ~p.idle
      /\ AtBody(p, k.req, tk, sn, sh)
  BY DEF ConnOK, Reading
<1>2. PICK Y : Y = {p.body[i] : i \in DOMAIN p.body} /\ p.body \in Seq(Y)
  BY BodyIs
<1>3. PICK q : q = k.req
  OBVIOUS
<1>4. q \in Requests(p) /\ q.body \in Seq(Y) /\ q.length \in Nat
  BY <1>1, <1>2, <1>3, Fields, RequestFields
<1>5. PICK n, b \in Nat : n = Len(p.headers) /\ b = Len(p.body)
  BY PlanLengths
<1>6. PICK l, m \in Nat : l = q.length /\ m = Len(q.body)
  BY <1>4, LenProperties
<1>7. tk = (n + 2) + m /\ Begins(q.body, p.body) /\ Promised(p, Len(p.headers), l)
      /\ m < V!Least(l, MaxRequest) /\ tk \in Nat /\ sn \in Nat
  <2>1. tk # sn /\ tk \in Nat /\ sn \in Nat
    BY <1>1 DEF Counted
  <2> QED BY <2>1, <1>1, <1>3, <1>5, <1>6 DEF AtBody
<1>8. MaxRequest \in Nat
  BY ServerAssumption DEF ServerBounds
<1>9. tk + 1 \in 1..Len(V!Tokens(p)) /\ Counted(p, tk + 1, sn, sh)
  BY <1>1, NotIdle
<1>10. /\ m + 1 \in 1..Len(p.body) /\ V!Tokens(p)[tk + 1].val = p.body[m + 1]
       /\ tk + 1 <= Base(p) /\ tk + 1 = (Len(p.headers) + 2) + (m + 1)
  <2>1. ByteHere(p, tk, m)
    BY <1>1, <1>5, <1>7, <1>9 DEF ByteHere
  <2> QED BY <2>1, ByteAt
<1>11. PICK v : v = p.body[m + 1] /\ v \in Y
  BY <1>2, <1>10, ElementOfSeq
<1>12. PICK w : w = Append(q.body, v)
  OBVIOUS
<1>13. w \in Seq(Y) /\ Len(w) = m + 1 /\ w[m + 1] = v /\ \A i \in 1..m : w[i] = q.body[i]
  BY <1>4, <1>6, <1>11, <1>12, AppendProperties
<1>14. r = [q EXCEPT !.body = w]
  BY <1>3, <1>10, <1>11, <1>12 DEF ByteRead
<1>15. r \in Requests(p) /\ r.body = w /\ r.length = l
  BY <1>2, <1>4, <1>6, <1>13, <1>14 DEF Requests
<1>16. Begins(w, p.body)
  <2>1. \A i \in 1..(m + 1) : i \in 1..m \/ i = m + 1
    OBVIOUS
  <2>2. \A i \in 1..m : q.body[i] = p.body[i]
    BY <1>6, <1>7 DEF Begins
  <2>3. m + 1 <= Len(p.body)
    BY <1>5, <1>10
  <2> QED BY <2>1, <2>2, <2>3, <1>11, <1>13 DEF Begins
<1>17. Counted(p, tk + 1, sn, sh) /\ tk + 1 <= Base(p)
       /\ tk + 1 = (Len(p.headers) + 2) + (m + 1)
  BY <1>9, <1>10
<1>18. PICK c \in Nat : c = V!Least(l, MaxRequest)
  BY <1>8 DEF V!Least
<1>19. CASE m + 1 = c
  <2>1. Received(p, w, sh)
    <3>1. ~(Len(w) < V!Least(l, MaxRequest))
      BY <1>13, <1>18, <1>19
    <3> QED BY <3>1, <1>7, <1>13, <1>16, BodyDone
  <2>2. Reading(p, "handle", r, tk + 1, sn, sh)
    BY <2>1, <1>1, <1>15, <1>17 DEF Reading
  <2>3. x = "handle"
    BY <1>3, <1>6, <1>18, <1>19 DEF NextPlace
  <2> QED BY <2>2, <2>3, <1>15, <1>17, PlaceOK
<1>20. CASE m + 1 # c
  <2>1. Len(w) < V!Least(l, MaxRequest)
    BY <1>7, <1>13, <1>18, <1>20
  <2>2. AtBody(p, r, tk + 1, sn, sh)
    BY <2>1, <1>5, <1>7, <1>13, <1>15, <1>16, <1>17 DEF AtBody
  <2>3. Reading(p, "body", r, tk + 1, sn, sh)
    BY <2>2, <1>1, <1>17 DEF Reading
  <2>4. x = "body"
    BY <1>3, <1>6, <1>18, <1>20 DEF NextPlace
  <2> QED BY <2>3, <2>4, <1>15, <1>17, PlaceOK
<1> QED BY <1>19, <1>20

(***************************************************************************)
(* The thread answers, or echoes.                                          *)
(***************************************************************************)

\* A handshake that is answered.
LEMMA UpgradeOK ==
  ASSUME NEW p, Client(p), NEW k, NEW tk, NEW sn, NEW sh, NEW a, NEW e,
         ConnOK(p, k, tk, sn, sh, a, e), k.at = "handle"
  PROVE  ConnOK(p, [k EXCEPT !.at = "frames"], tk, sn, sh, Upgraded, e)
<1>1. PICK k2 : k2 = [k EXCEPT !.at = "frames"]
  OBVIOUS
<1>2. k \in Connections(p) /\ "frames" \in Places
  BY DEF ConnOK, Places
<1>3. /\ k2 \in Connections(p) /\ k2.at = "frames" /\ k2.req = k.req /\ k2.frame = k.frame
      /\ k2.message = k.message /\ k2.opcode = k.opcode /\ k2.frames = k.frames
  BY <1>1, <1>2, Moved
<1>4. /\ Reading(p, "frames", k.req, tk, sn, sh) /\ tk <= Base(p) /\ tk \in Nat
      /\ k.frames = 0 /\ k.frame = <<>>
  BY DEF ConnOK, Reading, Framing, Counted
<1>5. AtFrame(p, k.frames, k.frame, tk)
  <2>1. PICK c \in Nat : c = Base(p)
    BY PlanLengths
  <2>2. Offset(p, 0) = 0
    BY NothingFramed DEF Offset
  <2>3. tk < c \/ tk = c + 0
    BY <2>1, <1>4
  <2> QED BY <2>1, <2>2, <2>3, <1>4 DEF AtFrame
<1>6. Framing(p, "frames", k.frames, k.frame, tk) /\ Answered("frames", k.req, Upgraded)
  BY <1>5 DEF Framing, Answered
<1>7. ConnOK(p, k2, tk, sn, sh, Upgraded, e)
  BY <1>3, <1>4, <1>6 DEF ConnOK
<1> QED BY <1>1, <1>7

\* What comes next of the frame after the first n, of which there is `frame`.
FrameToCome(p, n, frame, tk) ==
    LET f == p.frames[n + 1]
        item == V!Tokens(p)[tk + 1]
    IN /\ n \in Nat /\ n + 1 <= Len(p.frames)
       /\ \/ frame = <<>> /\ tk = Base(p) + Offset(p, n) /\ item = [t |-> "head", frame |-> f]
          \/ /\ frame = <<f>> /\ tk = Base(p) + Offset(p, n) + 1 /\ f.masked
             /\ item = [t |-> "mask", bits |-> f.mask]
          \/ /\ frame = <<f>> /\ tk = Base(p) + Offset(p, n) + 1 /\ ~f.masked
             /\ item = [t |-> "data", bits |-> f.wire]
          \/ /\ frame = <<f, f.mask>> /\ tk = Base(p) + Offset(p, n) + 2 /\ f.masked
             /\ item = [t |-> "data", bits |-> f.wire]

\* Which token of which frame comes next.
LEMMA FrameComes ==
  ASSUME NEW p, Client(p), ~p.idle, NEW n \in 0..Len(p.frames), NEW frame, NEW tk \in Nat,
         AtFrame(p, n, frame, tk), tk + 1 \in 1..Len(V!Tokens(p))
  PROVE  V!Tokens(p)[tk + 1].t \in EarlyKinds \/ FrameToCome(p, n, frame, tk)
<1>1. V!Conforms(p)
  BY DEF Client
<1>2. PICK N, c \in Nat : N = Len(p.frames) /\ c = Base(p)
  BY PlanLengths
<1>3. n \in Nat
  BY <1>2
<1>4. CASE tk < Base(p)
  <2>1. tk + 1 <= Base(p)
    BY <1>2, <1>4
  <2> QED BY <2>1, <1>1, KindsOfTokens
<1>5. CASE ~(tk < Base(p))
  <2>1. n # N
    <3>1. ASSUME n = N PROVE FALSE
      <4>1. tk = Base(p) + Offset(p, N)
        BY <3>1, <1>2, <1>5 DEF AtFrame
      <4>2. Len(V!Tokens(p)) = Base(p) + Offset(p, N)
        BY <1>1, <1>2, FramesLast
      <4> QED BY <4>1, <4>2
    <3> QED BY <3>1
  <2>2. n + 1 <= Len(p.frames)
    BY <2>1, <1>2
  <2>3. PICK f, o : f = p.frames[n + 1] /\ o = Base(p) + Offset(p, n)
    OBVIOUS
  <2>4. FrameHere(p, n, f, o)
    BY <2>2, <2>3, <1>1, <1>3 DEF FrameHere
  <2>5. /\ V!Tokens(p)[o + 1] = [t |-> "head", frame |-> f]
        /\ f.masked => V!Tokens(p)[o + 2] = [t |-> "mask", bits |-> f.mask]
        /\ V!Tokens(p)[o + FramePieces(f)] = [t |-> "data", bits |-> f.wire]
        /\ Offset(p, n + 1) = Offset(p, n) + FramePieces(f)
        /\ Offset(p, n) \in Nat /\ Base(p) \in Nat /\ Len(V!Tokens(p)) \in Nat
        /\ Base(p) + Offset(p, n + 1) <= Len(V!Tokens(p))
    BY <2>4, FrameAt
  <2>6. PICK q \in Nat : q = o /\ q = Base(p) + Offset(p, n)
    BY <2>3, <2>5
  <2>7. CASE tk = Base(p) + Offset(p, n) /\ frame = <<>>
    BY <2>2, <2>3, <2>5, <2>7, <1>3 DEF FrameToCome
  <2>8. CASE tk = Base(p) + Offset(p, n) + 1 /\ frame = <<f>>
    <3>1. tk + 1 = o + 2 /\ (~f.masked => FramePieces(f) = 2)
      BY <2>6, <2>8 DEF FramePieces
    <3>2. IF f.masked THEN V!Tokens(p)[tk + 1] = [t |-> "mask", bits |-> f.mask]
          ELSE V!Tokens(p)[tk + 1] = [t |-> "data", bits |-> f.wire]
      BY <3>1, <2>5
    <3> QED BY <3>2, <2>2, <2>3, <2>8, <1>3 DEF FrameToCome
  <2>9. CASE tk = Base(p) + Offset(p, n) + 2 /\ f.masked /\ frame = <<f, f.mask>>
    <3>1. tk + 1 = o + 3 /\ FramePieces(f) = 3
      BY <2>6, <2>9 DEF FramePieces
    <3>2. V!Tokens(p)[tk + 1] = [t |-> "data", bits |-> f.wire]
      BY <3>1, <2>5
    <3> QED BY <3>2, <2>2, <2>3, <2>9, <1>3 DEF FrameToCome
  <2> QED BY <2>3, <2>7, <2>8, <2>9, <1>5 DEF AtFrame
<1> QED BY <1>4, <1>5

\* Frames that come are in their places.
LEMMA AtFrames ==
  ASSUME NEW p, Client(p), NEW k, NEW tk, NEW sn, NEW sh, NEW a, NEW e,
         ConnOK(p, k, tk, sn, sh, a, e), k.at = "frames", tk < sn,
         V!Tokens(p)[tk + 1].t \in LateKinds
  PROVE  /\ k \in Connections(p) /\ ~p.idle /\ FrameToCome(p, k.frames, k.frame, tk)
         /\ a = Upgraded /\ Counted(p, tk + 1, sn, sh) /\ tk \in Nat
         /\ k.frames \in Nat /\ k.frames + 1 \in DOMAIN p.frames
         /\ Collected(p.frames, k.frames, k.opcode, k.message)
         /\ Echoed(p.frames, k.frames, e)
<1>1. k \in Connections(p) /\ Counted(p, tk, sn, sh) /\ a = Upgraded /\ ~p.idle
      /\ AtFrame(p, k.frames, k.frame, tk) /\ tk \in Nat
  BY DEF ConnOK, Answered, Reading, Framing, Counted
<1>2. tk + 1 \in 1..Len(V!Tokens(p)) /\ Counted(p, tk + 1, sn, sh)
  BY <1>1, NotIdle
<1>3. k.frames \in 0..Len(p.frames)
  BY <1>1, Fields
<1>4. V!Tokens(p)[tk + 1].t \in EarlyKinds \/ FrameToCome(p, k.frames, k.frame, tk)
  BY <1>1, <1>2, <1>3, FrameComes
<1>5. FrameToCome(p, k.frames, k.frame, tk)
  BY <1>4 DEF EarlyKinds, LateKinds
<1>6. k.frames \in Nat /\ k.frames + 1 \in DOMAIN p.frames
  <2>1. PICK N \in Nat : N = Len(p.frames) /\ DOMAIN p.frames = 1..N
    BY PlanLengths
  <2>2. PICK n \in Nat : n = k.frames /\ n + 1 <= N
    BY <1>5, <2>1 DEF FrameToCome
  <2> QED BY <2>1, <2>2
<1> QED BY <1>1, <1>2, <1>5, <1>6 DEF ConnOK

\* A piece of a frame read.
LEMMA FrameReadOK ==
  ASSUME NEW p, Client(p), NEW k, NEW tk, NEW sn, NEW sh, NEW a, NEW e,
         ConnOK(p, k, tk, sn, sh, a, e), k.at = "frames", NEW frame \in FrameParts(p),
         Counted(p, tk + 1, sn, sh), AtFrame(p, k.frames, frame, tk + 1)
  PROVE  ConnOK(p, [k EXCEPT !.frame = frame], tk + 1, sn, sh, a, e)
<1>1. PICK k2 : k2 = [k EXCEPT !.frame = frame]
  OBVIOUS
<1>2. k \in Connections(p) /\ ~p.idle
  BY DEF ConnOK, Reading
<1>3. /\ k2 \in Connections(p) /\ k2.at = "frames" /\ k2.req = k.req /\ k2.frame = frame
      /\ k2.message = k.message /\ k2.opcode = k.opcode /\ k2.frames = k.frames
  BY <1>1, <1>2 DEF Connections
<1>4. Reading(p, "frames", k.req, tk + 1, sn, sh)
  BY <1>2 DEF Reading
<1>5. Framing(p, "frames", k.frames, frame, tk + 1) /\ Answered("frames", k.req, a)
  BY DEF ConnOK, Framing, Answered
<1>6. ConnOK(p, k2, tk + 1, sn, sh, a, e)
  BY <1>3, <1>4, <1>5 DEF ConnOK
<1> QED BY <1>1, <1>6

\* The head of a frame read.
LEMMA ReadHeadOK ==
  ASSUME NEW p, Client(p), NEW k, NEW tk, NEW sn, NEW sh, NEW a, NEW e,
         ConnOK(p, k, tk, sn, sh, a, e), k.at = "frames", tk < sn,
         V!Tokens(p)[tk + 1].t = "head", k.frame = <<>>
  PROVE  ConnOK(p, [k EXCEPT !.frame = <<V!Tokens(p)[tk + 1].frame>>], tk + 1, sn, sh, a, e)
<1>1. V!Tokens(p)[tk + 1].t \in LateKinds
  BY DEF LateKinds
<1>2. /\ FrameToCome(p, k.frames, k.frame, tk) /\ Counted(p, tk + 1, sn, sh) /\ tk \in Nat
      /\ k.frames + 1 \in DOMAIN p.frames
  BY <1>1, AtFrames
<1>3. PICK f : f = p.frames[k.frames + 1]
  OBVIOUS
<1>4. /\ k.frames \in Nat /\ k.frames + 1 <= Len(p.frames)
      /\ tk = Base(p) + Offset(p, k.frames)
      /\ V!Tokens(p)[tk + 1] = [t |-> "head", frame |-> f]
  <2>1. <<>> # <<f>> /\ <<>> # <<f, f.mask>>
    OBVIOUS
  <2> QED BY <2>1, <1>2, <1>3 DEF FrameToCome
<1>5. V!Tokens(p)[tk + 1].frame = f
  BY <1>4
<1>6. <<f>> \in FrameParts(p)
  BY <1>2, <1>3 DEF FrameParts
<1>7. AtFrame(p, k.frames, <<f>>, tk + 1)
  <2>1. PICK N, n \in Nat : N = Len(p.frames) /\ n = k.frames
    BY <1>4, PlanLengths
  <2>2. n < N
    BY <2>1, <1>4
  <2> QED BY <2>1, <2>2, <1>3, <1>4 DEF AtFrame
<1> QED BY <1>2, <1>5, <1>6, <1>7, FrameReadOK

\* The two pieces of a frame that has a mask.
LEMMA TwoOf ==
  ASSUME NEW x, NEW y PROVE Append(<<x>>, y) = <<x, y>>
<1>1. PICK S : S = {x, y}
  OBVIOUS
<1>2. <<x>> \in Seq(S) /\ y \in S /\ Len(<<x>>) = 1 /\ <<x>>[1] = x
  BY <1>1
<1>3. PICK u : u = Append(<<x>>, y)
  OBVIOUS
<1>4. u \in Seq(S) /\ Len(u) = 2 /\ u[1] = x /\ u[2] = y
  BY <1>2, <1>3
<1>5. <<x, y>> \in Seq(S) /\ Len(u) = Len(<<x, y>>) /\ \A i \in 1..Len(u) : u[i] = <<x, y>>[i]
  BY <1>1, <1>4
<1> QED BY <1>3, <1>4, <1>5, SeqEqual

\* The mask of a frame read.
LEMMA ReadMaskOK ==
  ASSUME NEW p, Client(p), NEW k, NEW tk, NEW sn, NEW sh, NEW a, NEW e,
         ConnOK(p, k, tk, sn, sh, a, e), k.at = "frames", tk < sn,
         V!Tokens(p)[tk + 1].t = "mask"
  PROVE  ConnOK(p, [k EXCEPT !.frame = Append(k.frame, V!Tokens(p)[tk + 1].bits)],
                tk + 1, sn, sh, a, e)
<1>1. V!Tokens(p)[tk + 1].t \in LateKinds
  BY DEF LateKinds
<1>2. /\ FrameToCome(p, k.frames, k.frame, tk) /\ Counted(p, tk + 1, sn, sh) /\ tk \in Nat
      /\ k.frames + 1 \in DOMAIN p.frames
  BY <1>1, AtFrames
<1>3. PICK f : f = p.frames[k.frames + 1]
  OBVIOUS
<1>4. /\ k.frames \in Nat /\ k.frames + 1 <= Len(p.frames)
      /\ tk = Base(p) + Offset(p, k.frames) + 1 /\ f.masked /\ k.frame = <<f>>
      /\ V!Tokens(p)[tk + 1] = [t |-> "mask", bits |-> f.mask]
  BY <1>2, <1>3 DEF FrameToCome
<1>5. Append(k.frame, V!Tokens(p)[tk + 1].bits) = <<f, f.mask>>
  <2>1. k.frame = <<f>> /\ V!Tokens(p)[tk + 1].bits = f.mask
    BY <1>4
  <2>2. Append(<<f>>, f.mask) = <<f, f.mask>>
    BY TwoOf
  <2> QED BY <2>1, <2>2
<1>6. <<f, f.mask>> \in FrameParts(p)
  BY <1>2, <1>3 DEF FrameParts
<1>7. AtFrame(p, k.frames, <<f, f.mask>>, tk + 1)
  <2>1. PICK N, n \in Nat : N = Len(p.frames) /\ n = k.frames
    BY <1>4, PlanLengths
  <2>2. n < N
    BY <2>1, <1>4
  <2>3. FrameHere(p, n, f, Base(p) + Offset(p, n))
    BY <2>1, <1>3, <1>4, AtFrames, <1>1 DEF FrameHere, Client
  <2>4. Offset(p, n) \in Nat /\ Base(p) \in Nat
    BY <2>3, FrameAt
  <2>5. tk + 1 = Base(p) + Offset(p, n) + 2
    BY <2>1, <2>4, <1>4
  <2> QED BY <2>1, <2>2, <2>5, <1>3, <1>4 DEF AtFrame
<1> QED BY <1>2, <1>5, <1>6, <1>7, FrameReadOK

\* The frame that is there when its data come is the next one.
LEMMA PayloadComes ==
  ASSUME NEW p, Client(p), NEW k, NEW tk, NEW sn, NEW sh, NEW a, NEW e,
         ConnOK(p, k, tk, sn, sh, a, e), k.at = "frames", tk < sn,
         V!Tokens(p)[tk + 1].t = "data"
  PROVE  \E f : /\ f = p.frames[k.frames + 1] /\ k.frame # <<>> /\ k.frame[1] = f
                /\ V!Unmask(k.frame, V!Tokens(p)[tk + 1].bits) = V!Clear(f)
                /\ AtFrame(p, k.frames + 1, <<>>, tk + 1)
<1>1. V!Tokens(p)[tk + 1].t \in LateKinds
  BY DEF LateKinds
<1>2. FrameToCome(p, k.frames, k.frame, tk) /\ tk \in Nat /\ ~p.idle
  BY <1>1, AtFrames
<1>3. PICK f : f = p.frames[k.frames + 1]
  OBVIOUS
<1>4. PICK n \in Nat : n = k.frames /\ n + 1 <= Len(p.frames)
  BY <1>2 DEF FrameToCome
<1>5. V!Tokens(p)[tk + 1] = [t |-> "data", bits |-> f.wire]
      /\ IF f.masked THEN tk = Base(p) + Offset(p, n) + 2 /\ k.frame = <<f, f.mask>>
         ELSE tk = Base(p) + Offset(p, n) + 1 /\ k.frame = <<f>>
  BY <1>2, <1>3, <1>4 DEF FrameToCome
<1>6. V!Unmask(k.frame, V!Tokens(p)[tk + 1].bits) = V!Clear(f)
  <2>1. V!Tokens(p)[tk + 1].bits = f.wire
    BY <1>5
  <2>2. CASE f.masked
    BY <2>1, <2>2, <1>5 DEF V!Clear
  <2>3. CASE ~f.masked
    <3>1. k.frame[1] = f /\ <<f, f.mask>>[1] = f
      BY <2>3, <1>5
    <3>2. V!Unmask(k.frame, f.wire) = f.wire /\ V!Unmask(<<f, f.mask>>, f.wire) = f.wire
      BY <2>3, <3>1 DEF V!Unmask
    <3> QED BY <3>2, <2>1 DEF V!Clear
  <2> QED BY <2>2, <2>3
<1>7. tk + 1 = Base(p) + Offset(p, n + 1)
  <2>1. PICK o : o = Base(p) + Offset(p, n)
    OBVIOUS
  <2>2. FrameHere(p, n, f, o)
    BY <2>1, <1>2, <1>3, <1>4 DEF FrameHere, Client
  <2>3. /\ V!Tokens(p)[o + 1] = [t |-> "head", frame |-> f]
        /\ f.masked => V!Tokens(p)[o + 2] = [t |-> "mask", bits |-> f.mask]
        /\ V!Tokens(p)[o + FramePieces(f)] = [t |-> "data", bits |-> f.wire]
        /\ Offset(p, n + 1) = Offset(p, n) + FramePieces(f)
        /\ Offset(p, n) \in Nat /\ Base(p) \in Nat /\ Len(V!Tokens(p)) \in Nat
        /\ Base(p) + Offset(p, n + 1) <= Len(V!Tokens(p))
    BY <2>2, FrameAt
  <2>4. PICK b, q \in Nat : b = Base(p) /\ q = Offset(p, n)
    BY <2>3
  <2>5. FramePieces(f) = IF f.masked THEN 3 ELSE 2
    BY DEF FramePieces
  <2>6. CASE f.masked
    <3>1. tk = b + q + 2 /\ Offset(p, n + 1) = q + 3
      BY <2>3, <2>4, <2>5, <2>6, <1>5
    <3> QED BY <3>1, <2>4
  <2>7. CASE ~f.masked
    <3>1. tk = b + q + 1 /\ Offset(p, n + 1) = q + 2
      BY <2>3, <2>4, <2>5, <2>7, <1>5
    <3> QED BY <3>1, <2>4
  <2> QED BY <2>6, <2>7
<1>8. AtFrame(p, k.frames + 1, <<>>, tk + 1)
  BY <1>4, <1>7 DEF AtFrame
<1>9. k.frame # <<>> /\ k.frame[1] = f
  <2>1. k.frame = <<f, f.mask>> \/ k.frame = <<f>>
    BY <1>5
  <2>2. CASE k.frame = <<f, f.mask>>
    <3>1. <<f, f.mask>> # <<>> /\ <<f, f.mask>>[1] = f
      OBVIOUS
    <3> QED BY <3>1, <2>2
  <2>3. CASE k.frame = <<f>>
    <3>1. <<f>> # <<>> /\ <<f>>[1] = f
      OBVIOUS
    <3> QED BY <3>1, <2>3
  <2> QED BY <2>1, <2>2, <2>3
<1> QED BY <1>3, <1>6, <1>8, <1>9

\* The connection k after one frame more, with what is put together of a message.
FrameDone(p, k, x, message, opcode, k2) ==
    /\ k2 \in Connections(p) /\ k2.at = x /\ k2.req = k.req /\ k2.frame = <<>>
    /\ k2.frames = k.frames + 1 /\ k2.message = message /\ k2.opcode = opcode

\* A frame that is read whole and replied to.
LEMMA FrameDoneOK ==
  ASSUME NEW p, Client(p), NEW k, NEW tk, NEW sn, NEW sh, NEW a, NEW e,
         ConnOK(p, k, tk, sn, sh, a, e), k.at = "frames", Counted(p, tk + 1, sn, sh),
         AtFrame(p, k.frames + 1, <<>>, tk + 1),
         NEW x \in {"frames", "ended"}, NEW message, NEW opcode, NEW k2,
         FrameDone(p, k, x, message, opcode, k2),
         Collected(p.frames, k.frames + 1, opcode, message),
         NEW e2, Echoed(p.frames, k.frames + 1, e2)
  PROVE  ConnOK(p, k2, tk + 1, sn, sh, a, e2)
<1>1. /\ k2 \in Connections(p) /\ k2.at = x /\ k2.req = k.req /\ k2.frame = <<>>
      /\ k2.frames = k.frames + 1 /\ k2.message = message /\ k2.opcode = opcode
  BY DEF FrameDone
<1>2. ~p.idle /\ a = Upgraded
  BY DEF ConnOK, Reading, Answered
<1>3. Reading(p, x, k.req, tk + 1, sn, sh)
  BY <1>2 DEF Reading
<1>4. Framing(p, x, k.frames + 1, <<>>, tk + 1) /\ Answered(x, k.req, a)
  BY <1>2 DEF Framing, Answered
<1> QED BY <1>1, <1>3, <1>4 DEF ConnOK

\* What a frame's data make of the connection k and of the frames e written to it:
\* the right-hand sides of ReadPayload.
FrameWritten(op, d) == [fin |-> TRUE, op |-> op, data |-> d, field |-> V!LengthField(Len(d))]
Passed(k, k1) == k1 = [k EXCEPT !.frame = <<>>, !.frames = k.frames + 1]
PayloadRead(k, f, d, joined, opcode, e, k2, e2) ==
    LET next == [k EXCEPT !.frame = <<>>, !.frames = k.frames + 1]
    IN CASE f.op = "close" -> /\ e2 = Append(e, FrameWritten("close", d))
                              /\ k2 = [next EXCEPT !.at = "ended"]
         [] f.op = "ping" -> e2 = Append(e, FrameWritten("pong", d)) /\ k2 = next
         [] f.op = "pong" -> e2 = e /\ k2 = next
         [] OTHER ->
              IF f.fin THEN /\ e2 = Append(e, FrameWritten(opcode, joined))
                            /\ k2 = [next EXCEPT !.message = <<>>, !.opcode = opcode]
              ELSE e2 = e /\ k2 = [next EXCEPT !.message = joined, !.opcode = opcode]
Opcode(k, f) == IF f.op = "more" THEN k.opcode ELSE f.op
Joined(k, f, d) == IF f.op = "more" THEN k.message \o d ELSE d

\* A frame that is no data leaves the message as it is.
LEMMA ControlRead ==
  ASSUME NEW p, Client(p), NEW k, NEW tk, NEW sn, NEW sh, NEW a, NEW e,
         ConnOK(p, k, tk, sn, sh, a, e), k.at = "frames", Counted(p, tk + 1, sn, sh),
         AtFrame(p, k.frames + 1, <<>>, tk + 1),
         k.frames \in Nat, k.frames + 1 \in DOMAIN p.frames,
         ~V!IsData(p.frames[k.frames + 1]), NEW x \in {"frames", "ended"}, NEW k2,
         NEW k1, Passed(k, k1), k2 = [k1 EXCEPT !.at = x], NEW e2, Echoed(p.frames, k.frames + 1, e2)
  PROVE  ConnOK(p, k2, tk + 1, sn, sh, a, e2)
<1>1. k \in Connections(p) /\ Collected(p.frames, k.frames, k.opcode, k.message)
  BY DEF ConnOK
<1>2. PICK n \in Nat, N \in Nat : n = k.frames /\ N = Len(p.frames) /\ n + 1 \in 1..N
  BY PlanLengths
<1>3. FrameDone(p, k, x, k.message, k.opcode, k2)
  <2>1. x \in Places /\ <<>> \in FrameParts(p) /\ n + 1 \in 0..Len(p.frames)
    BY <1>2 DEF Places, FrameParts
  <2>2. k1 = [k EXCEPT !.frame = <<>>, !.frames = n + 1]
    BY <1>2 DEF Passed
  <2>3. /\ k1 \in Connections(p) /\ k1.req = k.req /\ k1.frame = <<>> /\ k1.frames = n + 1
        /\ k1.message = k.message /\ k1.opcode = k.opcode
    BY <2>1, <2>2, <1>1 DEF Connections
  <2>5. /\ k2 \in Connections(p) /\ k2.at = x /\ k2.req = k1.req /\ k2.frame = k1.frame
        /\ k2.message = k1.message /\ k2.opcode = k1.opcode /\ k2.frames = k1.frames
    BY <2>1, <2>3, Moved
  <2> QED BY <2>3, <2>5, <1>2 DEF FrameDone
<1>4. Collected(p.frames, n + 1, k.opcode, k.message)
  <2>1. n + 1 <= Len(p.frames) /\ ~V!IsData(p.frames[n + 1]) /\ V!Conforms(p)
        /\ Collected(p.frames, n, k.opcode, k.message)
    BY <1>1, <1>2 DEF Client
  <2> QED BY <2>1, ControlFrame
<1> QED BY <1>2, <1>3, <1>4, FrameDoneOK

\* A frame of data begins a message or goes on with the one that is open.
LEMMA DataRead ==
  ASSUME NEW p, Client(p), NEW k, NEW tk, NEW sn, NEW sh, NEW a, NEW e,
         ConnOK(p, k, tk, sn, sh, a, e), k.at = "frames", Counted(p, tk + 1, sn, sh),
         AtFrame(p, k.frames + 1, <<>>, tk + 1),
         k.frames \in Nat, k.frames + 1 \in DOMAIN p.frames,
         NEW message \in Seq(Bits), NEW opcode \in Opcodes(p),
         Collected(p.frames, k.frames + 1, opcode, message),
         NEW k1, Passed(k, k1), NEW k2, k2 = [k1 EXCEPT !.message = message, !.opcode = opcode],
         NEW e2, Echoed(p.frames, k.frames + 1, e2)
  PROVE  ConnOK(p, k2, tk + 1, sn, sh, a, e2)
<1>1. k \in Connections(p)
  BY DEF ConnOK
<1>2. PICK n \in Nat, N \in Nat : n = k.frames /\ N = Len(p.frames) /\ n + 1 \in 1..N
  BY PlanLengths
<1>3. FrameDone(p, k, "frames", message, opcode, k2)
  <2>1. <<>> \in FrameParts(p) /\ n + 1 \in 0..Len(p.frames)
    BY <1>2 DEF FrameParts
  <2>2. k1 = [k EXCEPT !.frame = <<>>, !.frames = n + 1]
    BY <1>2 DEF Passed
  <2>3. /\ k1 \in Connections(p) /\ k1.req = k.req /\ k1.frame = <<>> /\ k1.frames = n + 1
        /\ k1.at = k.at
    BY <2>1, <2>2, <1>1 DEF Connections
  <2>5. /\ k2 \in Connections(p) /\ k2.at = k1.at /\ k2.req = k1.req /\ k2.frame = k1.frame
        /\ k2.message = message /\ k2.opcode = opcode /\ k2.frames = k1.frames
    BY <2>3 DEF Connections
  <2> QED BY <2>3, <2>5, <1>2 DEF FrameDone
<1> QED BY <1>3, FrameDoneOK

\* The reply to each kind of frame.
LEMMA ReplyIs ==
  ASSUME NEW fs, NEW i, NEW op, fs[i].op = op
  PROVE  /\ op = "close" => V!ReplyTo(fs, i) = <<[op |-> "close", data |-> V!Clear(fs[i])]>>
         /\ op = "ping" => V!ReplyTo(fs, i) = <<[op |-> "pong", data |-> V!Clear(fs[i])]>>
         /\ op = "pong" => V!ReplyTo(fs, i) = <<>>
         /\ op \notin {"close", "ping", "pong"} =>
              V!ReplyTo(fs, i) = IF fs[i].fin THEN <<V!MessageEndingAt(fs, i)>> ELSE <<>>
<1>1. PICK r : r = [op |-> "close", data |-> V!Clear(fs[i])]
  OBVIOUS
<1>2. PICK q : q = [op |-> "pong", data |-> V!Clear(fs[i])]
  OBVIOUS
<1>3. V!ReplyTo(fs, i) = CASE op = "ping" -> <<q>> [] op = "close" -> <<r>>
                         [] op = "pong" -> <<>>
                         [] OTHER -> IF fs[i].fin THEN <<V!MessageEndingAt(fs, i)>> ELSE <<>>
  BY <1>1, <1>2, Zenon DEF V!ReplyTo
<1>4. PICK z, x, y : /\ x = <<q>> /\ y = <<r>>
                     /\ z = IF fs[i].fin THEN <<V!MessageEndingAt(fs, i)>> ELSE <<>>
  OBVIOUS
<1>5. V!ReplyTo(fs, i) = CASE op = "ping" -> x [] op = "close" -> y
                         [] op = "pong" -> <<>> [] OTHER -> z
  BY <1>3, <1>4, Zenon
<1>6. CASE op = "close"
  <2>1. V!ReplyTo(fs, i) = y
    BY <1>5, <1>6
  <2> QED BY <2>1, <1>1, <1>4, <1>6, Zenon
<1>7. CASE op = "ping"
  <2>1. V!ReplyTo(fs, i) = x
    BY <1>5, <1>7
  <2> QED BY <2>1, <1>2, <1>4, <1>7, Zenon
<1>8. CASE op = "pong"
  BY <1>5, <1>8
<1>9. CASE op \notin {"close", "ping", "pong"}
  BY <1>4, <1>5, <1>9
<1> QED BY <1>6, <1>7, <1>8, <1>9

\* The payload of a frame read: echoed, answered or collected.
LEMMA ReadPayloadOK ==
  ASSUME NEW p, Client(p), NEW k, NEW tk, NEW sn, NEW sh, NEW a, NEW e,
         ConnOK(p, k, tk, sn, sh, a, e), k.at = "frames", tk < sn,
         V!Tokens(p)[tk + 1].t = "data", NEW d, d = V!Unmask(k.frame, V!Tokens(p)[tk + 1].bits),
         NEW k2, NEW e2,
         PayloadRead(k, k.frame[1], d, Joined(k, k.frame[1], d), Opcode(k, k.frame[1]), e, k2, e2)
  PROVE  ConnOK(p, k2, tk + 1, sn, sh, a, e2)
<1>1. V!Tokens(p)[tk + 1].t \in LateKinds
  BY DEF LateKinds
<1>2. /\ k \in Connections(p) /\ ~p.idle /\ FrameToCome(p, k.frames, k.frame, tk)
      /\ a = Upgraded /\ Counted(p, tk + 1, sn, sh) /\ tk \in Nat
      /\ k.frames \in Nat /\ k.frames + 1 \in DOMAIN p.frames
      /\ Collected(p.frames, k.frames, k.opcode, k.message)
      /\ Echoed(p.frames, k.frames, e)
  BY <1>1, AtFrames
<1>3. PICK f : /\ f = p.frames[k.frames + 1] /\ k.frame # <<>> /\ k.frame[1] = f
               /\ V!Unmask(k.frame, V!Tokens(p)[tk + 1].bits) = V!Clear(f)
               /\ AtFrame(p, k.frames + 1, <<>>, tk + 1)
  BY PayloadComes
<1>4. V!ConformingFrame(p.frames, k.frames + 1) /\ V!Clear(f) \in Seq(Bits) /\ f.op \in Opcodes(p)
  BY <1>2, <1>3, ClearTyped DEF Client, V!Conforms, Opcodes
<1>5. f.op \in {"text", "binary", "more", "ping", "pong", "close"} /\ f.fin \in BOOLEAN
  BY <1>3, <1>4 DEF V!ConformingFrame
<1>6. PICK n \in Nat : n = k.frames /\ n + 1 <= Len(p.frames)
  BY <1>2, PlanLengths
<1>7. PICK next : Passed(k, next)
  BY DEF Passed
<1>8. d = V!Clear(f) /\ PayloadRead(k, f, d, Joined(k, f, d), Opcode(k, f), e, k2, e2)
  BY <1>3
<1>9. CASE f.op = "close"
  <2>1. /\ e2 = Append(e, FrameWritten("close", d)) /\ k2 = [next EXCEPT !.at = "ended"]
    BY <1>7, <1>8, <1>9 DEF PayloadRead, Passed
  <2>2. V!ReplyTo(p.frames, n + 1) = <<[op |-> "close", data |-> d]>> /\ ~V!IsData(f)
    BY <1>3, <1>6, <1>8, <1>9, ReplyIs DEF V!IsData
  <2>3. Written(FrameWritten("close", d), [op |-> "close", data |-> d])
    BY <1>4, <1>8, FieldIs DEF FrameWritten
  <2>4. Echoed(p.frames, n + 1, e2)
    BY <2>1, <2>2, <2>3, <1>2, <1>6, EchoesOne
  <2> QED BY <2>1, <2>2, <2>4, <1>2, <1>3, <1>6, <1>7, ControlRead
<1>10. CASE f.op = "ping"
  <2>1. /\ e2 = Append(e, FrameWritten("pong", d)) /\ k2 = next
    BY <1>7, <1>8, <1>10 DEF PayloadRead, Passed
  <2>2. V!ReplyTo(p.frames, n + 1) = <<[op |-> "pong", data |-> d]>> /\ ~V!IsData(f)
    BY <1>3, <1>6, <1>8, <1>10, ReplyIs DEF V!IsData
  <2>3. Written(FrameWritten("pong", d), [op |-> "pong", data |-> d])
    BY <1>4, <1>8, FieldIs DEF FrameWritten
  <2>4. Echoed(p.frames, n + 1, e2)
    BY <2>1, <2>2, <2>3, <1>2, <1>6, EchoesOne
  <2>5. k2 = [next EXCEPT !.at = "frames"]
    BY <2>1, <1>2, <1>7 DEF Connections, Passed
  <2> QED BY <2>2, <2>4, <2>5, <1>2, <1>3, <1>6, <1>7, ControlRead
<1>11. CASE f.op = "pong"
  <2>1. e2 = e /\ k2 = next
    BY <1>7, <1>8, <1>11 DEF PayloadRead, Passed
  <2>2. V!ReplyTo(p.frames, n + 1) = <<>> /\ ~V!IsData(f)
    BY <1>3, <1>6, <1>8, <1>11, ReplyIs DEF V!IsData
  <2>3. Echoed(p.frames, n + 1, e2)
    BY <2>1, <2>2, <1>2, <1>6, EchoesNothing
  <2>4. k2 = [next EXCEPT !.at = "frames"]
    BY <2>1, <1>2, <1>7 DEF Connections, Passed
  <2> QED BY <2>2, <2>3, <2>4, <1>2, <1>3, <1>6, <1>7, ControlRead
<1>12. CASE V!IsData(f)
  <2>1. f.op \notin {"close", "ping", "pong"}
    BY <1>12 DEF V!IsData
  <2>2. PICK joined, opcode : joined = Joined(k, f, d) /\ opcode = Opcode(k, f)
    OBVIOUS
  <2>3. /\ V!MessageEndingAt(p.frames, n + 1).op = opcode
        /\ V!MessageEndingAt(p.frames, n + 1).data = joined /\ joined \in Seq(Bits)
    <3>1. /\ V!MessageEndingAt(p.frames, n + 1).op = IF f.op = "more" THEN k.opcode ELSE f.op
          /\ V!MessageEndingAt(p.frames, n + 1).data
               = IF f.op = "more" THEN k.message \o V!Clear(f) ELSE V!Clear(f)
          /\ V!MessageEndingAt(p.frames, n + 1).data \in Seq(Bits)
      BY <1>2, <1>3, <1>6, <1>12, DataFrame DEF Client
    <3> QED BY <3>1, <2>2, <1>8 DEF Joined, Opcode
  <2>4. opcode \in Opcodes(p)
    BY <2>2, <1>2, <1>4, Fields DEF Opcode
  <2>5. CASE f.fin
    <3>1. /\ e2 = Append(e, FrameWritten(opcode, joined))
          /\ k2 = [next EXCEPT !.message = <<>>, !.opcode = opcode]
      BY <2>1, <2>2, <2>5, <1>7, <1>8 DEF PayloadRead, Passed
    <3>2. V!ReplyTo(p.frames, n + 1) = <<V!MessageEndingAt(p.frames, n + 1)>>
      BY <2>1, <2>5, <1>3, <1>6, ReplyIs
    <3>3. Written(FrameWritten(opcode, joined), [op |-> opcode, data |-> joined])
      BY <2>3, FieldIs DEF FrameWritten
    <3>4. Written(FrameWritten(opcode, joined), V!MessageEndingAt(p.frames, n + 1))
      BY <3>3, <2>3 DEF Written
    <3>5. Echoed(p.frames, n + 1, e2)
      BY <3>1, <3>2, <3>4, <1>2, <1>6, EchoesOne
    <3>6. <<>> \in Seq(Bits)
      OBVIOUS
    <3>7. Collected(p.frames, n + 1, opcode, <<>>)
      BY <2>5, <1>3, <1>6, <1>12, DataFrameCollected DEF Client
    <3> QED BY <3>1, <3>5, <3>6, <3>7, <2>4, <1>2, <1>3, <1>6, <1>7, DataRead
  <2>6. CASE ~f.fin
    <3>1. e2 = e /\ k2 = [next EXCEPT !.message = joined, !.opcode = opcode]
      BY <2>1, <2>2, <2>6, <1>7, <1>8 DEF PayloadRead, Passed
    <3>2. V!ReplyTo(p.frames, n + 1) = <<>>
      BY <2>1, <2>6, <1>3, <1>6, ReplyIs
    <3>3. Echoed(p.frames, n + 1, e2)
      BY <3>1, <3>2, <1>2, <1>6, EchoesNothing
    <3>4. Collected(p.frames, n + 1, opcode, joined)
      BY <2>3, <2>6, <1>3, <1>6, <1>12, DataFrameCollected DEF Client
    <3> QED BY <3>1, <3>3, <3>4, <2>3, <2>4, <1>2, <1>3, <1>6, <1>7, DataRead
  <2> QED BY <2>5, <2>6, <1>5
<1> QED BY <1>5, <1>9, <1>10, <1>11, <1>12 DEF V!IsData

(***************************************************************************)
(* The server: each connection is in order, and the batches that were      *)
(* printed are those of connections that have ended.                       *)
(***************************************************************************)

Everyone(v) == v = [x \in Conns |-> v[x]]
InOrder(c) == ConnOK(plan[c], conn[c], taken[c], sent[c], shut[c], answer[c], echoed[c])
IsList(s) == s \in Seq({s[i] : i \in DOMAIN s})
Batch(c, b) == /\ c \in Conns /\ conn[c].at = "ended" /\ answer[c].status = 200
               /\ IsList(b) /\ Received(plan[c], b, shut[c])
BatchesOK ==
    /\ IsList(batches) /\ \A i \in DOMAIN batches : Batch(batches[i].conn, batches[i].body)
    /\ \A i, j \in DOMAIN batches : batches[i].conn = batches[j].conn => i = j
AllFunctions ==
    /\ Everyone(sent) /\ Everyone(shut) /\ Everyone(taken) /\ Everyone(conn)
    /\ Everyone(answer) /\ Everyone(echoed)
ServerInvariant ==
    plan \in Plans /\ AllFunctions /\ (\A c \in Conns : InOrder(c)) /\ BatchesOK

\* A step of the connection c: what is c's afterwards, and what it prints.
Becomes(v, w, c, x) == w = [y \in Conns |-> IF y = c THEN x ELSE v[y]]
Step(c, k, tk, sn, sh, a, e) ==
    /\ plan' = plan /\ Becomes(conn, conn', c, k) /\ Becomes(taken, taken', c, tk)
    /\ Becomes(sent, sent', c, sn) /\ Becomes(shut, shut', c, sh)
    /\ Becomes(answer, answer', c, a) /\ Becomes(echoed, echoed', c, e)
Prints(c, k, sh, a) ==
    \/ batches' = batches
    \/ \E b : /\ batches' = Append(batches, [conn |-> c, body |-> b])
              /\ conn[c].at # "ended" /\ k.at = "ended" /\ a.status = 200
              /\ IsList(b) /\ Received(plan[c], b, sh)

\* A sequence is a sequence of what is in it.
LEMMA ListOf ==
  ASSUME NEW S, NEW b \in Seq(S) PROVE IsList(b)
<1>1. PICK T : T = {b[i] : i \in DOMAIN b}
  OBVIOUS
<1>2. PICK n \in Nat : n = Len(b) /\ DOMAIN b = 1..n
  OBVIOUS
<1>3. \A i \in 1..n : b[i] \in T
  BY <1>1, <1>2
<1>4. b = [i \in 1..n |-> b[i]]
  BY <1>2
<1>5. b \in Seq(T)
  <2>1. b \in [1..n -> T]
    BY <1>3, <1>4
  <2> QED BY <2>1, SeqDef
<1> QED BY <1>1, <1>5 DEF IsList

\* One value of a function changes.
LEMMA BecomesExcept ==
  ASSUME NEW v, Everyone(v), NEW c \in Conns, NEW x
  PROVE  Becomes(v, [v EXCEPT ![c] = x], c, x) /\ Becomes(v, v, c, v[c])
<1>1. PICK w : w = [y \in Conns |-> v[y]]
  OBVIOUS
<1>2. v = w
  BY <1>1 DEF Everyone
<1>3. DOMAIN v = Conns
  BY <1>1, <1>2
<1>4. Becomes(v, [v EXCEPT ![c] = x], c, x)
  BY <1>3 DEF Becomes
<1>5. [y \in Conns |-> IF y = c THEN v[c] ELSE v[y]] = w
  BY <1>1
<1> QED BY <1>2, <1>4, <1>5 DEF Becomes

\* The values of a function one of which changes.
LEMMA BecomesAt ==
  ASSUME NEW v, NEW w, NEW c \in Conns, NEW x, Becomes(v, w, c, x)
  PROVE  Everyone(w) /\ w[c] = x /\ \A y \in Conns : y # c => w[y] = v[y]
BY DEF Becomes, Everyone

\* What a step of one connection leaves of the others.
LEMMA StepAt ==
  ASSUME NEW c \in Conns, NEW k, NEW tk, NEW sn, NEW sh, NEW a, NEW e,
         Step(c, k, tk, sn, sh, a, e)
  PROVE  /\ plan' = plan /\ AllFunctions'
         /\ conn'[c] = k /\ taken'[c] = tk /\ sent'[c] = sn /\ shut'[c] = sh
         /\ answer'[c] = a /\ echoed'[c] = e
         /\ \A d \in Conns \ {c} :
              /\ conn'[d] = conn[d] /\ taken'[d] = taken[d] /\ sent'[d] = sent[d]
              /\ shut'[d] = shut[d] /\ answer'[d] = answer[d] /\ echoed'[d] = echoed[d]
<1>1. plan' = plan
  BY DEF Step
<1>2. Everyone(conn') /\ conn'[c] = k /\ \A d \in Conns : d # c => conn'[d] = conn[d]
  <2>1. Becomes(conn, conn', c, k)
    BY DEF Step
  <2>2. Everyone(conn')
    BY <2>1, BecomesAt
  <2>3. conn'[c] = k
    BY <2>1, BecomesAt
  <2>4. \A d \in Conns : d # c => conn'[d] = conn[d]
    BY <2>1 DEF Becomes
  <2> QED BY <2>2, <2>3, <2>4
<1>3. Everyone(taken') /\ taken'[c] = tk /\ \A d \in Conns : d # c => taken'[d] = taken[d]
  <2>1. Becomes(taken, taken', c, tk)
    BY DEF Step
  <2> QED BY <2>1, BecomesAt
<1>4. Everyone(sent') /\ sent'[c] = sn /\ \A d \in Conns : d # c => sent'[d] = sent[d]
  <2>1. Becomes(sent, sent', c, sn)
    BY DEF Step
  <2> QED BY <2>1, BecomesAt
<1>5. Everyone(shut') /\ shut'[c] = sh /\ \A d \in Conns : d # c => shut'[d] = shut[d]
  <2>1. Becomes(shut, shut', c, sh)
    BY DEF Step
  <2> QED BY <2>1, BecomesAt
<1>6. Everyone(answer') /\ answer'[c] = a /\ \A d \in Conns : d # c => answer'[d] = answer[d]
  <2>1. Becomes(answer, answer', c, a)
    BY DEF Step
  <2> QED BY <2>1, BecomesAt
<1>7. Everyone(echoed') /\ echoed'[c] = e /\ \A d \in Conns : d # c => echoed'[d] = echoed[d]
  <2>1. Becomes(echoed, echoed', c, e)
    BY DEF Step
  <2> QED BY <2>1, BecomesAt
<1>8. AllFunctions'
  BY <1>2, <1>3, <1>4, <1>5, <1>6, <1>7 DEF AllFunctions, Everyone
<1> QED BY <1>1, <1>2, <1>3, <1>4, <1>5, <1>6, <1>7, <1>8

\* Clients follow the protocols.
LEMMA ClientsConform == ServerInvariant => \A c \in Conns : Client(plan[c])
BY ServerAssumption, Zenon DEF ServerInvariant, ServerBounds, Client

\* What was received of a body stays so when the client leaves.
LEMMA ReceivedOnceShut ==
  ASSUME NEW p, NEW b, Received(p, b, FALSE)
  PROVE  Received(p, b, TRUE)
BY DEF Received, Cut

\* A printed batch stays what it was in the step of another connection.
LEMMA BatchKept ==
  ASSUME NEW c \in Conns, NEW k, NEW tk, NEW sn, NEW sh \in BOOLEAN, NEW a, NEW e,
         Step(c, k, tk, sn, sh, a, e), shut[c] \in BOOLEAN, shut[c] => sh,
         conn[c].at = "ended" => k.at = "ended" /\ a = answer[c],
         NEW d, NEW b, Batch(d, b)
  PROVE  Batch(d, b)'
<1>1. /\ d \in Conns /\ conn[d].at = "ended" /\ answer[d].status = 200
      /\ IsList(b) /\ Received(plan[d], b, shut[d])
  BY DEF Batch
<1>2. plan' = plan
  BY StepAt
<1>3. CASE d # c
  <2>1. conn'[d] = conn[d] /\ shut'[d] = shut[d] /\ answer'[d] = answer[d]
    BY <1>1, <1>3, StepAt
  <2> QED BY <2>1, <1>1, <1>2 DEF Batch
<1>4. CASE d = c
  <2>1. conn'[c] = k /\ shut'[c] = sh /\ answer'[c] = a
    BY StepAt
  <2>2. Received(plan[c], b, sh)
    BY <1>1, <1>4, ReceivedOnceShut
  <2> QED BY <2>1, <2>2, <1>1, <1>2, <1>4 DEF Batch
<1> QED BY <1>3, <1>4

\* A step of one connection that leaves it in order keeps the invariant.
LEMMA StepKeeps ==
  ASSUME ServerInvariant, NEW c \in Conns, NEW k, NEW tk, NEW sn, NEW sh, NEW a, NEW e,
         Step(c, k, tk, sn, sh, a, e), ConnOK(plan[c], k, tk, sn, sh, a, e),
         shut[c] => sh, conn[c].at = "ended" => k.at = "ended" /\ a = answer[c],
         Prints(c, k, sh, a)
  PROVE  ServerInvariant'
<1>1. plan' = plan
  BY StepAt
<1>2. AllFunctions'
  BY StepAt
<1>3. ASSUME NEW d \in Conns PROVE InOrder(d)'
  <2>1. CASE d = c
    <3>1. /\ conn'[c] = k /\ taken'[c] = tk /\ sent'[c] = sn /\ shut'[c] = sh
          /\ answer'[c] = a /\ echoed'[c] = e
      BY StepAt
    <3> QED BY <2>1, <3>1, <1>1 DEF InOrder
  <2>2. CASE d # c
    <3>1. /\ conn'[d] = conn[d] /\ taken'[d] = taken[d] /\ sent'[d] = sent[d]
          /\ shut'[d] = shut[d] /\ answer'[d] = answer[d] /\ echoed'[d] = echoed[d]
      BY <2>2, StepAt
    <3>2. InOrder(d)
      BY DEF ServerInvariant
    <3> QED BY <3>1, <3>2, <1>1 DEF InOrder
  <2> QED BY <2>1, <2>2
<1>4. sh \in BOOLEAN /\ shut[c] \in BOOLEAN
  BY DEF ServerInvariant, InOrder, ConnOK, Counted
<1>5. \A d, b : Batch(d, b) => Batch(d, b)'
  <2> SUFFICES ASSUME NEW d, NEW b, Batch(d, b) PROVE Batch(d, b)'
    OBVIOUS
  <2> QED BY <1>4, BatchKept
<1>6. BatchesOK
  BY DEF ServerInvariant
<1>7. BatchesOK'
  <2>1. CASE batches' = batches
    BY <2>1, <1>5, <1>6 DEF BatchesOK, IsList
  <2>2. CASE batches' # batches
    <3>1. PICK b : /\ batches' = Append(batches, [conn |-> c, body |-> b])
                   /\ conn[c].at # "ended" /\ k.at = "ended" /\ a.status = 200
                   /\ IsList(b) /\ Received(plan[c], b, sh)
      BY <2>2 DEF Prints
    <3>2. PICK r : r = [conn |-> c, body |-> b]
      OBVIOUS
    <3>3. PICK N \in Nat : N = Len(batches) /\ DOMAIN batches = 1..N
      BY <1>6 DEF BatchesOK, IsList
    <3>4. /\ DOMAIN batches' = 1..N + 1 /\ batches'[N + 1] = r
          /\ \A i \in 1..N : batches'[i] = batches[i]
      BY <1>6, <3>1, <3>2, <3>3 DEF BatchesOK, IsList
    <3>5. IsList(batches')
      <4>1. PICK T : T = {batches'[i] : i \in DOMAIN batches'}
        OBVIOUS
      <4>2. batches \in Seq(T) /\ r \in T
        <5>1. \A i \in 1..N : batches[i] \in T
          BY <4>1, <3>4
        <5>2. r \in T
          BY <4>1, <3>4
        <5>3. batches \in Seq({batches[i] : i \in DOMAIN batches})
          BY <1>6 DEF BatchesOK, IsList
        <5>4. {batches[i] : i \in DOMAIN batches} \subseteq T
          BY <5>1, <3>3
        <5> QED BY <5>2, <5>3, <5>4
      <4>3. batches' \in Seq(T)
        BY <4>2, <3>1, <3>2
      <4> QED BY <4>1, <4>3 DEF IsList
    <3>6. \A i \in 1..N : batches[i].conn # c
      BY <1>6, <3>1, <3>3 DEF BatchesOK, Batch
    <3>7. Batch(c, b)'
      <4>1. conn'[c] = k /\ shut'[c] = sh /\ answer'[c] = a
        BY StepAt
      <4> QED BY <4>1, <3>1, <1>1 DEF Batch
    <3>8. \A i \in DOMAIN batches' : Batch(batches[i].conn, batches[i].body)'
      <4> SUFFICES ASSUME NEW i \in 1..N + 1 PROVE Batch(batches[i].conn, batches[i].body)'
        BY <3>4
      <4>1. CASE i = N + 1
        <5>1. batches'[i].conn = c /\ batches'[i].body = b
          BY <4>1, <3>2, <3>4
        <5> QED BY <5>1, <3>7 DEF Batch
      <4>2. CASE i # N + 1
        <5>1. i \in 1..N
          BY <4>2, <3>3
        <5>2. PICK x : x = batches[i]
          OBVIOUS
        <5>3. Batch(x.conn, x.body)
          BY <5>1, <5>2, <1>6, <3>3 DEF BatchesOK
        <5>4. Batch(x.conn, x.body)'
          BY <5>3, <1>5
        <5>5. batches'[i] = x
          BY <5>1, <5>2, <3>4
        <5> QED BY <5>4, <5>5 DEF Batch
      <4> QED BY <4>1, <4>2
    <3>9. \A i, j \in DOMAIN batches' : batches'[i].conn = batches'[j].conn => i = j
      <4> SUFFICES ASSUME NEW i \in 1..N + 1, NEW j \in 1..N + 1,
                          batches'[i].conn = batches'[j].conn
                   PROVE  i = j
        BY <3>4
      <4>1. r.conn = c /\ (i = N + 1 \/ i \in 1..N) /\ (j = N + 1 \/ j \in 1..N)
        BY <3>2, <3>3
      <4>2. CASE i \in 1..N /\ j \in 1..N
        BY <4>2, <1>6, <3>3, <3>4 DEF BatchesOK
      <4>3. CASE i = N + 1 \/ j = N + 1
        BY <4>1, <4>3, <3>4, <3>6
      <4> QED BY <4>1, <4>2, <4>3
    <3> QED BY <3>5, <3>8, <3>9 DEF BatchesOK, IsList
  <2> QED BY <2>1, <2>2
<1> QED BY <1>1, <1>2, <1>3, <1>7 DEF ServerInvariant

\* What the invariant says of one connection.
LEMMA Here ==
  ASSUME ServerInvariant, NEW c \in Conns
  PROVE  /\ Client(plan[c]) /\ InOrder(c) /\ AllFunctions
         /\ Counted(plan[c], taken[c], sent[c], shut[c])
         /\ ~V!Waiting(c) => taken[c] < sent[c]
<1>1. Client(plan[c]) /\ InOrder(c) /\ AllFunctions
  BY ClientsConform DEF ServerInvariant
<1>2. Counted(plan[c], taken[c], sent[c], shut[c])
  BY <1>1 DEF InOrder, ConnOK
<1> QED BY <1>1, <1>2 DEF V!Waiting, Counted

\* A step that only reads: it takes a token or none.
LEMMA ReadKeeps ==
  ASSUME ServerInvariant, NEW c \in Conns, conn[c].at # "ended",
         NEW k, V!To(c, k), NEW tk,
         taken' = [taken EXCEPT ![c] = tk] \/ (taken' = taken /\ tk = taken[c]),
         UNCHANGED <<V!clientVars, answer, echoed, batches>>,
         ConnOK(plan[c], k, tk, sent[c], shut[c], answer[c], echoed[c])
  PROVE  ServerInvariant'
<1>1. AllFunctions
  BY DEF ServerInvariant
<1>2. Becomes(conn, conn', c, k)
  BY <1>1, BecomesExcept DEF V!To, AllFunctions
<1>5. Becomes(taken, taken', c, tk)
  <2>1. CASE taken' = [taken EXCEPT ![c] = tk]
    BY <2>1, <1>1, BecomesExcept DEF AllFunctions
  <2>2. CASE taken' = taken /\ tk = taken[c]
    BY <2>2, <1>1, BecomesExcept DEF AllFunctions
  <2> QED BY <2>1, <2>2
<1>3. Step(c, k, tk, sent[c], shut[c], answer[c], echoed[c])
  BY <1>1, <1>2, <1>5, BecomesExcept DEF Step, AllFunctions, V!clientVars
<1>4. Prints(c, k, shut[c], answer[c])
  BY DEF Prints
<1> QED BY <1>3, <1>4, StepKeeps

\* Each action keeps the invariant; first the client's.
LEMMA DeliverStep ==
  ASSUME ServerInvariant, NEW c \in Conns, V!Deliver(c) PROVE ServerInvariant'
<1>1. Client(plan[c]) /\ InOrder(c) /\ AllFunctions
  BY Here
<1>2. /\ ~shut[c] /\ sent[c] < Len(V!Tokens(plan[c])) /\ sent' = [sent EXCEPT ![c] = sent[c] + 1]
      /\ UNCHANGED <<plan, shut, taken, conn, answer, echoed, batches>>
  BY DEF V!Deliver
<1>3. ConnOK(plan[c], conn[c], taken[c], sent[c] + 1, shut[c], answer[c], echoed[c])
  BY <1>1, <1>2, DeliverOK DEF InOrder
<1>4. Becomes(sent, sent', c, sent[c] + 1)
  BY <1>1, <1>2, BecomesExcept DEF AllFunctions
<1>5. Step(c, conn[c], taken[c], sent[c] + 1, shut[c], answer[c], echoed[c])
  BY <1>1, <1>2, <1>4, BecomesExcept DEF Step, AllFunctions
<1>6. Prints(c, conn[c], shut[c], answer[c])
  BY <1>2 DEF Prints
<1> QED BY <1>3, <1>5, <1>6, StepKeeps

LEMMA CloseStep ==
  ASSUME ServerInvariant, NEW c \in Conns, V!Close(c) PROVE ServerInvariant'
<1>1. Client(plan[c]) /\ InOrder(c) /\ AllFunctions
  BY Here
<1>2. /\ ~shut[c] /\ shut' = [shut EXCEPT ![c] = TRUE]
      /\ UNCHANGED <<plan, sent, taken, conn, answer, echoed, batches>>
  BY DEF V!Close
<1>3. ConnOK(plan[c], conn[c], taken[c], sent[c], TRUE, answer[c], echoed[c])
  <2>1. ConnOK(plan[c], conn[c], taken[c], sent[c], shut[c], answer[c], echoed[c]) /\ ~shut[c]
    BY <1>1, <1>2 DEF InOrder
  <2>2. PICK y : y = TRUE
    OBVIOUS
  <2>4. shut[c] = FALSE
    <3>1. shut[c] \in BOOLEAN
      BY <2>1 DEF ConnOK, Counted
    <3> QED BY <3>1, <2>1
  <2>5. PICK x : x = shut[c] /\ x = FALSE /\ ConnOK(plan[c], conn[c], taken[c], sent[c], x, answer[c], echoed[c])
    BY <2>1, <2>4
  <2>3. ConnOK(plan[c], conn[c], taken[c], sent[c], y, answer[c], echoed[c])
    BY <2>2, <2>5, <1>1, CloseOK
  <2> QED BY <2>2, <2>3
<1>4. Becomes(shut, shut', c, TRUE)
  BY <1>1, <1>2, BecomesExcept DEF AllFunctions
<1>5. Step(c, conn[c], taken[c], sent[c], TRUE, answer[c], echoed[c])
  BY <1>1, <1>2, <1>4, BecomesExcept DEF Step, AllFunctions
<1>6. Prints(c, conn[c], TRUE, answer[c])
  BY <1>2 DEF Prints
<1> QED BY <1>3, <1>5, <1>6, StepKeeps

LEMMA AcceptStep ==
  ASSUME ServerInvariant, NEW c \in Conns, V!Accept(c) PROVE ServerInvariant'
<1>1. Client(plan[c]) /\ InOrder(c)
  BY Here
<1>2. /\ conn[c].at = "new" /\ V!To(c, [conn[c] EXCEPT !.at = "line"]) /\ taken' = taken
      /\ UNCHANGED <<V!clientVars, answer, echoed, batches>>
  BY DEF V!Accept
<1>3. PICK k : k = [conn[c] EXCEPT !.at = "line"]
  OBVIOUS
<1>4. ConnOK(plan[c], k, taken[c], sent[c], shut[c], answer[c], echoed[c])
  BY <1>1, <1>2, <1>3, AcceptOK DEF InOrder
<1> QED BY <1>2, <1>3, <1>4, ReadKeeps

\* The connection ends, unanswered.
LEMMA EndKeeps ==
  ASSUME ServerInvariant, NEW c \in Conns, conn[c].at # "ended", V!End(c),
         NEW tk, Counted(plan[c], tk, sent[c], shut[c]),
         taken' = [taken EXCEPT ![c] = tk] \/ (taken' = taken /\ tk = taken[c]),
         UNCHANGED <<V!clientVars, answer, echoed, batches>>
  PROVE  ServerInvariant'
<1>1. Client(plan[c]) /\ InOrder(c)
  BY Here
<1>2. PICK k : k = [conn[c] EXCEPT !.at = "ended"]
  OBVIOUS
<1>3. ConnOK(plan[c], k, tk, sent[c], shut[c], answer[c], echoed[c])
  BY <1>1, <1>2, EndsOK DEF InOrder
<1>4. V!To(c, k)
  BY <1>2 DEF V!End
<1> QED BY <1>3, <1>4, ReadKeeps

LEMMA GiveUpStep ==
  ASSUME ServerInvariant, NEW c \in Conns, V!GiveUp(c) PROVE ServerInvariant'
<1>1. Counted(plan[c], taken[c], sent[c], shut[c])
  BY Here
<1>2. /\ conn[c].at # "ended" /\ V!End(c) /\ taken' = taken
      /\ UNCHANGED <<V!clientVars, answer, echoed, batches>>
  BY DEF V!GiveUp
<1> QED BY <1>1, <1>2, EndKeeps

\* What a step that reads a token has.
LEMMA TokenRead ==
  ASSUME ServerInvariant, NEW c \in Conns, NEW kinds, V!Reads(c, kinds)
  PROVE  /\ taken[c] < sent[c] /\ V!Tokens(plan[c])[taken[c] + 1].t \in kinds
         /\ V!Token(c) = V!Tokens(plan[c])[taken[c] + 1]
         /\ taken' = [taken EXCEPT ![c] = taken[c] + 1]
         /\ Counted(plan[c], taken[c] + 1, sent[c], shut[c])
         /\ Client(plan[c]) /\ InOrder(c)
<1>1. /\ ~V!Waiting(c) /\ V!Token(c).t \in kinds /\ taken' = [taken EXCEPT ![c] = taken[c] + 1]
  BY DEF V!Reads
<1>2. /\ taken[c] < sent[c] /\ Client(plan[c]) /\ InOrder(c)
      /\ Counted(plan[c], taken[c], sent[c], shut[c])
  BY <1>1, Here
<1>3. Counted(plan[c], taken[c] + 1, sent[c], shut[c])
  BY <1>2, NotIdle
<1> QED BY <1>1, <1>2, <1>3 DEF V!Token

\* The thread's.
LEMMA ReadLineStep ==
  ASSUME ServerInvariant, NEW c \in Conns, V!ReadLine(c) PROVE ServerInvariant'
<1>1. conn[c].at = "line" /\ V!Reads(c, {"line"}) /\ UNCHANGED <<V!clientVars, answer, echoed, batches>>
  BY DEF V!ReadLine
<1>2. /\ taken[c] < sent[c] /\ V!Token(c) = V!Tokens(plan[c])[taken[c] + 1]
      /\ taken' = [taken EXCEPT ![c] = taken[c] + 1]
      /\ Counted(plan[c], taken[c] + 1, sent[c], shut[c]) /\ Client(plan[c]) /\ InOrder(c)
  BY <1>1, TokenRead
<1>3. CASE V!Token(c).path = <<"junk">>
  <2>1. V!End(c)
    BY <1>3 DEF V!ReadLine
  <2> QED BY <2>1, <1>1, <1>2, EndKeeps
<1>4. CASE V!Token(c).path # <<"junk">>
  <2>1. PICK k : k = [conn[c] EXCEPT !.at = "headers", !.req.path = V!Token(c).path,
                                     !.req.head = V!Token(c).method = "HEAD",
                                     !.req.post = V!Token(c).method = "POST"]
    OBVIOUS
  <2>2. V!To(c, k)
    BY <2>1, <1>4 DEF V!ReadLine
  <2>3. PICK r : LineRead(conn[c].req, V!Token(c), r)
    BY DEF LineRead
  <2>4. k = [conn[c] EXCEPT !.at = "headers", !.req = r]
    BY <2>1, <2>3, <1>2 DEF LineRead, InOrder, ConnOK, Connections, Requests
  <2>5. ConnOK(plan[c], k, taken[c] + 1, sent[c], shut[c], answer[c], echoed[c])
    BY <2>3, <2>4, <1>1, <1>2, ReadLineOK DEF InOrder
  <2> QED BY <2>2, <2>5, <1>1, <1>2, ReadKeeps
<1> QED BY <1>3, <1>4

LEMMA ReadHeaderStep ==
  ASSUME ServerInvariant, NEW c \in Conns, V!ReadHeader(c) PROVE ServerInvariant'
<1>1. conn[c].at = "headers" /\ V!Reads(c, {"header"})
      /\ UNCHANGED <<V!clientVars, answer, echoed, batches>>
  BY DEF V!ReadHeader
<1>2. /\ taken[c] < sent[c] /\ V!Token(c) = V!Tokens(plan[c])[taken[c] + 1]
      /\ V!Tokens(plan[c])[taken[c] + 1].t \in {"header"}
      /\ taken' = [taken EXCEPT ![c] = taken[c] + 1]
      /\ Counted(plan[c], taken[c] + 1, sent[c], shut[c]) /\ Client(plan[c]) /\ InOrder(c)
  BY <1>1, TokenRead
<1>3. PICK r : HeaderRead(conn[c].req, V!Token(c).header, r)
  BY DEF HeaderRead
<1>4. PICK k : k = [conn[c] EXCEPT !.req = r]
  OBVIOUS
<1>5. V!To(c, k)
  BY <1>3, <1>4 DEF V!ReadHeader, HeaderRead
<1>6. ConnOK(plan[c], k, taken[c] + 1, sent[c], shut[c], answer[c], echoed[c])
  BY <1>1, <1>2, <1>3, <1>4, ReadHeaderOK DEF InOrder
<1> QED BY <1>1, <1>2, <1>5, <1>6, ReadKeeps

LEMMA EndHeadersStep ==
  ASSUME ServerInvariant, NEW c \in Conns, V!EndHeaders(c) PROVE ServerInvariant'
<1>1. conn[c].at = "headers" /\ UNCHANGED <<V!clientVars, answer, echoed, batches>>
      /\ (V!Reads(c, {"blank"}) \/ (V!Waiting(c) /\ shut[c] /\ UNCHANGED taken))
      /\ V!To(c, [conn[c] EXCEPT !.at = After(conn[c].req)])
  BY DEF V!EndHeaders, V!Wanted, After
<1>2. Client(plan[c]) /\ InOrder(c)
  BY Here
<1>3. PICK k : k = [conn[c] EXCEPT !.at = After(conn[c].req), !.req = conn[c].req]
  OBVIOUS
<1>4. V!To(c, k)
  <2>1. k = [conn[c] EXCEPT !.at = After(conn[c].req)]
    BY <1>2, <1>3 DEF InOrder, ConnOK, Connections
  <2> QED BY <2>1, <1>1
<1>5. CASE V!Reads(c, {"blank"})
  <2>1. /\ taken[c] < sent[c] /\ V!Tokens(plan[c])[taken[c] + 1].t \in {"blank"}
        /\ V!Token(c) = V!Tokens(plan[c])[taken[c] + 1]
        /\ taken' = [taken EXCEPT ![c] = taken[c] + 1]
        /\ Counted(plan[c], taken[c] + 1, sent[c], shut[c])
    BY <1>5, TokenRead
  <2>2. ConnOK(plan[c], k, taken[c] + 1, sent[c], shut[c], answer[c], echoed[c])
    BY <2>1, <1>1, <1>2, <1>3, EndHeadersOK DEF InOrder
  <2> QED BY <2>1, <2>2, <1>1, <1>4, ReadKeeps
<1>6. CASE V!Waiting(c) /\ shut[c] /\ UNCHANGED taken
  <2>1. ConnOK(plan[c], k, taken[c], sent[c], shut[c], answer[c], echoed[c])
    BY <1>1, <1>2, <1>3, <1>6, EndHeadersOK DEF InOrder, V!Waiting
  <2> QED BY <2>1, <1>1, <1>4, <1>6, ReadKeeps
<1> QED BY <1>1, <1>5, <1>6

LEMMA ReadBodyStep ==
  ASSUME ServerInvariant, NEW c \in Conns, V!ReadBody(c) PROVE ServerInvariant'
<1>1. conn[c].at = "body" /\ UNCHANGED <<V!clientVars, answer, echoed, batches>>
  BY DEF V!ReadBody
<1>2. Client(plan[c]) /\ InOrder(c)
  BY Here
<1>3. CASE V!Reads(c, {"byte"})
           /\ V!To(c, [conn[c] EXCEPT !.req.body = Append(conn[c].req.body, V!Token(c).val),
                       !.at = IF Len(conn[c].req.body) + 1 = V!Wanted(c) THEN "handle" ELSE "body"])
  <2>1. /\ taken[c] < sent[c] /\ V!Tokens(plan[c])[taken[c] + 1].t \in {"byte"}
        /\ V!Token(c) = V!Tokens(plan[c])[taken[c] + 1]
        /\ taken' = [taken EXCEPT ![c] = taken[c] + 1]
        /\ Counted(plan[c], taken[c] + 1, sent[c], shut[c])
    BY <1>3, TokenRead
  <2>2. PICK r : ByteRead(conn[c].req, V!Token(c), r)
    BY DEF ByteRead
  <2>3. PICK x : NextPlace(conn[c].req, x)
    BY DEF NextPlace
  <2>4. PICK k : k = [conn[c] EXCEPT !.at = x, !.req = r]
    OBVIOUS
  <2>5. PICK k1 : k1 = [conn[c] EXCEPT !.req.body = Append(conn[c].req.body, V!Token(c).val), !.at = x]
    OBVIOUS
  <2>6. k1 = k
    <3>1. conn[c] \in Connections(plan[c]) /\ r = [conn[c].req EXCEPT !.body = Append(conn[c].req.body, V!Token(c).val)]
      BY <1>2, <2>2 DEF InOrder, ConnOK, ByteRead
    <3>2. k1 = [conn[c] EXCEPT !.req = r, !.at = x]
      BY <3>1, <2>5
    <3> QED BY <3>1, <3>2, <2>4 DEF Connections
  <2>7. V!To(c, k)
    BY <1>3, <2>3, <2>5, <2>6 DEF NextPlace, V!Wanted
  <2>8. ConnOK(plan[c], k, taken[c] + 1, sent[c], shut[c], answer[c], echoed[c])
    BY <2>1, <2>2, <2>3, <2>4, <1>1, <1>2, ReadByteOK DEF InOrder
  <2> QED BY <2>1, <2>7, <2>8, <1>1, ReadKeeps
<1>4. CASE V!Waiting(c) /\ shut[c] /\ UNCHANGED taken /\ V!To(c, [conn[c] EXCEPT !.at = "handle"])
  <2>1. PICK k : k = [conn[c] EXCEPT !.at = "handle", !.req = conn[c].req]
    OBVIOUS
  <2>2. V!To(c, k)
    <3>1. k = [conn[c] EXCEPT !.at = "handle"]
      BY <1>2, <2>1 DEF InOrder, ConnOK, Connections
    <3> QED BY <3>1, <1>4
  <2>3. ConnOK(plan[c], k, taken[c], sent[c], shut[c], answer[c], echoed[c])
    BY <2>1, <1>1, <1>2, <1>4, LeaveBodyOK DEF InOrder, V!Waiting
  <2> QED BY <2>2, <2>3, <1>1, <1>4, ReadKeeps
<1> QED BY <1>3, <1>4 DEF V!ReadBody

LEMMA UpgradeStep ==
  ASSUME ServerInvariant, NEW c \in Conns, conn[c].at = "handle",
         answer' = [answer EXCEPT ![c] = Upgraded], V!To(c, [conn[c] EXCEPT !.at = "frames"]),
         UNCHANGED <<V!clientVars, taken, echoed, batches>>
  PROVE  ServerInvariant'
<1>1. Client(plan[c]) /\ InOrder(c) /\ AllFunctions
  BY Here
<1>2. PICK k : k = [conn[c] EXCEPT !.at = "frames"]
  OBVIOUS
<1>3. ConnOK(plan[c], k, taken[c], sent[c], shut[c], Upgraded, echoed[c])
  BY <1>1, <1>2, UpgradeOK DEF InOrder
<1>4. Becomes(conn, conn', c, k) /\ Becomes(answer, answer', c, Upgraded)
  BY <1>1, <1>2, BecomesExcept DEF V!To, AllFunctions
<1>5. Step(c, k, taken[c], sent[c], shut[c], Upgraded, echoed[c])
  BY <1>1, <1>4, BecomesExcept DEF Step, AllFunctions, V!clientVars
<1>6. Prints(c, k, shut[c], Upgraded)
  BY DEF Prints
<1> QED BY <1>3, <1>5, <1>6, StepKeeps

LEMMA AnswerStep ==
  ASSUME ServerInvariant, NEW c \in Conns, conn[c].at = "handle",
         answer' = [answer EXCEPT ![c] = V!Answer(conn[c].req)], V!End(c),
         UNCHANGED <<V!clientVars, taken, echoed>>,
         batches' = IF conn[c].req.path = V!Log /\ conn[c].req.post
                    THEN Append(batches, [conn |-> c, body |-> conn[c].req.body]) ELSE batches
  PROVE  ServerInvariant'
<1>1. Client(plan[c]) /\ InOrder(c) /\ AllFunctions
      /\ Counted(plan[c], taken[c], sent[c], shut[c])
  BY Here
<1>2. PICK a : a = V!Answer(conn[c].req)
  OBVIOUS
<1>3. PICK k : k = [conn[c] EXCEPT !.at = "ended"]
  OBVIOUS
<1>4. ConnOK(plan[c], k, taken[c], sent[c], shut[c], a, echoed[c])
  BY <1>1, <1>2, <1>3, EndsOK DEF InOrder
<1>5. Becomes(conn, conn', c, k) /\ Becomes(answer, answer', c, a)
  BY <1>1, <1>2, <1>3, BecomesExcept DEF V!End, V!To, AllFunctions
<1>6. Step(c, k, taken[c], sent[c], shut[c], a, echoed[c])
  BY <1>1, <1>5, BecomesExcept DEF Step, AllFunctions, V!clientVars
<1>7. Prints(c, k, shut[c], a)
  <2>1. CASE conn[c].req.path = V!Log /\ conn[c].req.post
    <3>1. batches' = Append(batches, [conn |-> c, body |-> conn[c].req.body])
      BY <2>1
    <3>2. Received(plan[c], conn[c].req.body, shut[c])
      BY <1>1 DEF InOrder, ConnOK, Reading
    <3>5. IsList(conn[c].req.body)
      <4>1. conn[c].req \in Requests(plan[c])
        BY <1>1, Fields DEF InOrder, ConnOK
      <4>2. PICK b, S : b = conn[c].req.body /\ b \in Seq(S)
        BY <4>1, RequestFields
      <4> QED BY <4>2, ListOf
    <3>3. a.status = 200
      BY <1>2, <2>1 DEF V!Answer, V!Response
    <3>4. k.at = "ended"
      BY <1>1, <1>3, Moved DEF InOrder, ConnOK, Places
    <3> QED BY <3>1, <3>2, <3>3, <3>4, <3>5 DEF Prints
  <2>2. CASE ~(conn[c].req.path = V!Log /\ conn[c].req.post)
    BY <2>2 DEF Prints
  <2> QED BY <2>1, <2>2
<1> QED BY <1>4, <1>6, <1>7, StepKeeps

LEMMA HandleStep ==
  ASSUME ServerInvariant, NEW c \in Conns, V!Handle(c) PROVE ServerInvariant'
<1>1. conn[c].at = "handle" /\ UNCHANGED <<V!clientVars, taken, echoed>>
  BY DEF V!Handle
<1>2. CASE conn[c].req.path = V!Echo /\ conn[c].req.key # "none"
  <2>1. answer' = [answer EXCEPT ![c] = Upgraded] /\ V!To(c, [conn[c] EXCEPT !.at = "frames"])
        /\ UNCHANGED batches
    BY <1>2 DEF V!Handle, Upgraded
  <2> QED BY <2>1, <1>1, UpgradeStep
<1>3. CASE ~(conn[c].req.path = V!Echo /\ conn[c].req.key # "none")
  <2>1. /\ answer' = [answer EXCEPT ![c] = V!Answer(conn[c].req)] /\ V!End(c)
        /\ batches' = IF conn[c].req.path = V!Log /\ conn[c].req.post
                      THEN Append(batches, [conn |-> c, body |-> conn[c].req.body]) ELSE batches
    BY <1>3 DEF V!Handle
  <2> QED BY <2>1, <1>1, AnswerStep
<1> QED BY <1>2, <1>3

LEMMA ReadHeadStep ==
  ASSUME ServerInvariant, NEW c \in Conns, V!ReadHead(c) PROVE ServerInvariant'
<1>1. conn[c].at = "frames" /\ conn[c].frame = <<>> /\ V!Reads(c, {"head"})
      /\ UNCHANGED <<V!clientVars, answer, echoed, batches>>
  BY DEF V!ReadHead
<1>2. /\ taken[c] < sent[c] /\ V!Token(c) = V!Tokens(plan[c])[taken[c] + 1]
      /\ V!Tokens(plan[c])[taken[c] + 1].t \in {"head"}
      /\ taken' = [taken EXCEPT ![c] = taken[c] + 1]
      /\ Counted(plan[c], taken[c] + 1, sent[c], shut[c]) /\ Client(plan[c]) /\ InOrder(c)
  BY <1>1, TokenRead
<1>3. CASE V!End(c)
  BY <1>1, <1>2, <1>3, EndKeeps
<1>4. CASE V!To(c, [conn[c] EXCEPT !.frame = <<V!Token(c).frame>>])
  <2>1. PICK k : k = [conn[c] EXCEPT !.frame = <<V!Token(c).frame>>]
    OBVIOUS
  <2>2. ConnOK(plan[c], k, taken[c] + 1, sent[c], shut[c], answer[c], echoed[c])
    BY <2>1, <1>1, <1>2, ReadHeadOK DEF InOrder
  <2> QED BY <2>1, <2>2, <1>1, <1>2, <1>4, ReadKeeps
<1> QED BY <1>3, <1>4 DEF V!ReadHead

LEMMA ReadMaskStep ==
  ASSUME ServerInvariant, NEW c \in Conns, V!ReadMask(c) PROVE ServerInvariant'
<1>1. conn[c].at = "frames" /\ V!Reads(c, {"mask"})
      /\ V!To(c, [conn[c] EXCEPT !.frame = Append(conn[c].frame, V!Token(c).bits)])
      /\ UNCHANGED <<V!clientVars, answer, echoed, batches>>
  BY DEF V!ReadMask
<1>2. /\ taken[c] < sent[c] /\ V!Token(c) = V!Tokens(plan[c])[taken[c] + 1]
      /\ V!Tokens(plan[c])[taken[c] + 1].t \in {"mask"}
      /\ taken' = [taken EXCEPT ![c] = taken[c] + 1]
      /\ Counted(plan[c], taken[c] + 1, sent[c], shut[c]) /\ Client(plan[c]) /\ InOrder(c)
  BY <1>1, TokenRead
<1>3. PICK k : k = [conn[c] EXCEPT !.frame = Append(conn[c].frame, V!Token(c).bits)]
  OBVIOUS
<1>4. ConnOK(plan[c], k, taken[c] + 1, sent[c], shut[c], answer[c], echoed[c])
  BY <1>1, <1>2, <1>3, ReadMaskOK DEF InOrder
<1> QED BY <1>1, <1>2, <1>3, <1>4, ReadKeeps

LEMMA ReadPayloadStep ==
  ASSUME ServerInvariant, NEW c \in Conns, V!ReadPayload(c) PROVE ServerInvariant'
<1>1. conn[c].at = "frames" /\ V!Reads(c, {"data"}) /\ UNCHANGED <<V!clientVars, answer, batches>>
  BY DEF V!ReadPayload
<1>2. /\ taken[c] < sent[c] /\ V!Token(c) = V!Tokens(plan[c])[taken[c] + 1]
      /\ V!Tokens(plan[c])[taken[c] + 1].t \in {"data"}
      /\ taken' = [taken EXCEPT ![c] = taken[c] + 1]
      /\ Counted(plan[c], taken[c] + 1, sent[c], shut[c]) /\ Client(plan[c]) /\ InOrder(c)
  BY <1>1, TokenRead
<1>3. AllFunctions
  BY Here
<1>4. PICK f, d : f = conn[c].frame[1] /\ d = V!Unmask(conn[c].frame, V!Token(c).bits)
  OBVIOUS
<1>5. \E k, e2 : /\ PayloadRead(conn[c], f, d, Joined(conn[c], f, d), Opcode(conn[c], f), echoed[c], k, e2)
                 /\ V!To(c, k) /\ (echoed' = [echoed EXCEPT ![c] = e2]
                                  \/ (echoed' = echoed /\ e2 = echoed[c]))
  <2>1. PICK j, o : j = Joined(conn[c], f, d) /\ o = Opcode(conn[c], f)
    OBVIOUS
  <2>2. PICK next : next = [conn[c] EXCEPT !.frame = <<>>, !.frames = conn[c].frames + 1]
    OBVIOUS
  <2>3. (CASE f.op = "close" -> /\ V!WriteFrame(c, "close", d)
                                /\ V!To(c, [next EXCEPT !.at = "ended"])
          [] f.op = "ping" -> V!WriteFrame(c, "pong", d) /\ V!To(c, next)
          [] f.op = "pong" -> UNCHANGED echoed /\ V!To(c, next)
          [] OTHER ->
               IF f.fin
               THEN V!WriteFrame(c, o, j) /\ V!To(c, [next EXCEPT !.message = <<>>, !.opcode = o])
               ELSE UNCHANGED echoed /\ V!To(c, [next EXCEPT !.message = j, !.opcode = o]))
    BY <1>4, <2>1, <2>2 DEF V!ReadPayload, Joined, Opcode
  <2>4. \A op, x : V!WriteFrame(c, op, x) =>
                     echoed' = [echoed EXCEPT ![c] = Append(echoed[c], FrameWritten(op, x))]
    BY DEF V!WriteFrame, FrameWritten
  <2>5. \E k, e2 : /\ PayloadRead(conn[c], f, d, j, o, echoed[c], k, e2)
                   /\ V!To(c, k) /\ (echoed' = [echoed EXCEPT ![c] = e2]
                                    \/ (echoed' = echoed /\ e2 = echoed[c]))
    <3> DEFINE ReadsOne(k, e2) == PayloadRead(conn[c], f, d, j, o, echoed[c], k, e2)
    <3>1. \A k, e2 : ReadsOne(k, e2) <=>
             (CASE f.op = "close" -> /\ e2 = Append(echoed[c], FrameWritten("close", d))
                                     /\ k = [next EXCEPT !.at = "ended"]
               [] f.op = "ping" -> e2 = Append(echoed[c], FrameWritten("pong", d)) /\ k = next
               [] f.op = "pong" -> e2 = echoed[c] /\ k = next
               [] OTHER ->
                    IF f.fin THEN /\ e2 = Append(echoed[c], FrameWritten(o, j))
                                  /\ k = [next EXCEPT !.message = <<>>, !.opcode = o]
                    ELSE e2 = echoed[c] /\ k = [next EXCEPT !.message = j, !.opcode = o])
      BY <2>2, Zenon DEF PayloadRead
    <3> HIDE DEF ReadsOne
    <3>2. PICK ck, cm, cj : /\ ck = [next EXCEPT !.at = "ended"]
                            /\ cm = [next EXCEPT !.message = <<>>, !.opcode = o]
                            /\ cj = [next EXCEPT !.message = j, !.opcode = o]
      OBVIOUS
    <3>3. PICK we, wp, wd : /\ we = Append(echoed[c], FrameWritten("close", d))
                            /\ wp = Append(echoed[c], FrameWritten("pong", d))
                            /\ wd = Append(echoed[c], FrameWritten(o, j))
      OBVIOUS
    <3>4. CASE f.op = "close"
      <4>1. ReadsOne(ck, we)
        BY <3>1, <3>2, <3>3, <3>4
      <4>2. echoed' = [echoed EXCEPT ![c] = we] /\ V!To(c, ck)
        BY <2>3, <2>4, <3>2, <3>3, <3>4
      <4> QED BY <4>1, <4>2 DEF ReadsOne
    <3>5. CASE f.op = "ping"
      <4>1. ReadsOne(next, wp)
        BY <3>1, <3>3, <3>5
      <4>2. echoed' = [echoed EXCEPT ![c] = wp] /\ V!To(c, next)
        BY <2>3, <2>4, <3>3, <3>5
      <4> QED BY <4>1, <4>2 DEF ReadsOne
    <3>6. CASE f.op = "pong"
      <4>1. ReadsOne(next, echoed[c])
        BY <3>1, <3>6
      <4>2. echoed' = echoed /\ V!To(c, next)
        BY <2>3, <3>6
      <4> QED BY <4>1, <4>2 DEF ReadsOne
    <3>7. CASE f.op \notin {"close", "ping", "pong"} /\ f.fin
      <4>1. ReadsOne(cm, wd)
        BY <3>1, <3>2, <3>3, <3>7
      <4>2. echoed' = [echoed EXCEPT ![c] = wd] /\ V!To(c, cm)
        BY <2>3, <2>4, <3>2, <3>3, <3>7
      <4> QED BY <4>1, <4>2 DEF ReadsOne
    <3>8. CASE f.op \notin {"close", "ping", "pong"} /\ ~f.fin
      <4>1. ReadsOne(cj, echoed[c])
        BY <3>1, <3>2, <3>8
      <4>2. echoed' = echoed /\ V!To(c, cj)
        BY <2>3, <3>2, <3>8
      <4> QED BY <4>1, <4>2 DEF ReadsOne
    <3> QED BY <3>4, <3>5, <3>6, <3>7, <3>8
  <2> QED BY <2>1, <2>5
<1>6. PICK k, e2 :
         /\ PayloadRead(conn[c], f, d, Joined(conn[c], f, d), Opcode(conn[c], f), echoed[c], k, e2)
         /\ V!To(c, k) /\ (echoed' = [echoed EXCEPT ![c] = e2] \/ (echoed' = echoed /\ e2 = echoed[c]))
  BY <1>5
<1>7. ConnOK(plan[c], k, taken[c] + 1, sent[c], shut[c], answer[c], e2)
  BY <1>1, <1>2, <1>4, <1>6, ReadPayloadOK DEF InOrder
<1>8. /\ Becomes(conn, conn', c, k) /\ Becomes(taken, taken', c, taken[c] + 1)
      /\ Becomes(echoed, echoed', c, e2)
  <2>1. Everyone(conn) /\ Everyone(taken) /\ Everyone(echoed)
    BY <1>3 DEF AllFunctions
  <2>2. Becomes(conn, conn', c, k)
    BY <2>1, <1>6, BecomesExcept DEF V!To
  <2>3. Becomes(taken, taken', c, taken[c] + 1)
    BY <2>1, <1>2, BecomesExcept
  <2>4. Becomes(echoed, echoed', c, e2)
    BY <2>1, <1>6, BecomesExcept
  <2> QED BY <2>2, <2>3, <2>4
<1>9. Step(c, k, taken[c] + 1, sent[c], shut[c], answer[c], e2)
  BY <1>1, <1>3, <1>8, BecomesExcept DEF Step, AllFunctions, V!clientVars
<1>10. Prints(c, k, shut[c], answer[c])
  BY <1>1 DEF Prints
<1> QED BY <1>1, <1>7, <1>9, <1>10, StepKeeps

\* A connection that is new is in order.
LEMMA NewInOrder ==
  ASSUME NEW p, Client(p)
  PROVE  ConnOK(p, V!New, 0, 0, FALSE, V!Unanswered, <<>>)
<1>1. PICK Y : Y = {p.body[i] : i \in DOMAIN p.body}
  OBVIOUS
<1>2. V!NoRequest \in Requests(p)
  <2>1. <<>> \in Seq(Y)
    OBVIOUS
  <2>2. V!NoRange \in Ranges
    BY DEF V!NoRange, Ranges
  <2> QED BY <1>1, <2>1, <2>2 DEF V!NoRequest, Requests
<1>3. V!New \in Connections(p)
  <2>1. 0 \in 0..Len(p.frames)
    BY PlanLengths
  <2>2. <<>> \in Seq(Bits) /\ <<>> \in FrameParts(p)
    BY DEF FrameParts
  <2> QED BY <1>2, <2>1, <2>2 DEF V!New, Connections, Places, Opcodes
<1>4. /\ V!New.at = "new" /\ V!New.req = V!NoRequest /\ V!New.frame = <<>> /\ V!New.frames = 0
      /\ V!New.message = <<>> /\ V!New.opcode = "none"
  BY DEF V!New
<1>5. Counted(p, 0, 0, FALSE)
  BY TokensCounted DEF Counted
<1>6. Reading(p, "new", V!NoRequest, 0, 0, FALSE)
  BY DEF Reading
<1>7. Framing(p, "new", 0, <<>>, 0) /\ Answered("new", V!NoRequest, V!Unanswered)
  BY DEF Framing, Answered
<1>8. Collected(p.frames, 0, "none", <<>>) /\ Echoed(p.frames, 0, <<>>)
  BY CollectedNone, EchoedNone
<1> QED BY <1>3, <1>4, <1>5, <1>6, <1>7, <1>8 DEF ConnOK

\* The invariant holds initially.
LEMMA ServerStarts == V!Init => ServerInvariant
<1> SUFFICES ASSUME V!Init PROVE ServerInvariant
  OBVIOUS
<1>1. /\ plan \in Plans
      /\ sent = [c \in Conns |-> 0] /\ shut = [c \in Conns |-> FALSE]
      /\ taken = [c \in Conns |-> 0] /\ conn = [c \in Conns |-> V!New]
      /\ answer = [c \in Conns |-> V!Unanswered] /\ echoed = [c \in Conns |-> <<>>]
      /\ batches = <<>>
  BY DEF V!Init
<1>2. AllFunctions
  BY <1>1 DEF AllFunctions, Everyone
<1>3. ASSUME NEW c \in Conns PROVE InOrder(c)
  <2>1. Client(plan[c])
    BY <1>1, ServerAssumption, Zenon DEF ServerBounds, Client
  <2>2. ConnOK(plan[c], V!New, 0, 0, FALSE, V!Unanswered, <<>>)
    BY <2>1, NewInOrder
  <2>3. /\ sent[c] = 0 /\ shut[c] = FALSE /\ taken[c] = 0 /\ conn[c] = V!New
        /\ answer[c] = V!Unanswered /\ echoed[c] = <<>>
    BY <1>1
  <2> QED BY <2>2, <2>3 DEF InOrder
<1>4. BatchesOK
  BY <1>1 DEF BatchesOK, IsList
<1> QED BY <1>1, <1>2, <1>3, <1>4 DEF ServerInvariant

\* Every step keeps it.
LEMMA ServerSteps == ServerInvariant /\ [V!Next]_(V!vars) => ServerInvariant'
<1> SUFFICES ASSUME ServerInvariant, [V!Next]_(V!vars) PROVE ServerInvariant'
  OBVIOUS
<1>1. CASE V!Next
  <2>1. PICK c \in Conns :
          \/ V!Deliver(c) \/ V!Close(c)
          \/ V!Accept(c) \/ V!ReadLine(c) \/ V!ReadHeader(c) \/ V!EndHeaders(c) \/ V!ReadBody(c) \/ V!GiveUp(c)
          \/ V!Handle(c) \/ V!ReadHead(c) \/ V!ReadMask(c) \/ V!ReadPayload(c)
    BY <1>1 DEF V!Next
  <2> QED BY <2>1, DeliverStep, CloseStep, AcceptStep, ReadLineStep, ReadHeaderStep,
             EndHeadersStep, ReadBodyStep, GiveUpStep, HandleStep, ReadHeadStep,
             ReadMaskStep, ReadPayloadStep
<1>2. CASE UNCHANGED V!vars
  BY <1>2 DEF V!vars, ServerInvariant, AllFunctions, Everyone, InOrder, BatchesOK, Batch
<1> QED BY <1>1, <1>2

(***************************************************************************)
(* What follows of the answers.                                            *)
(***************************************************************************)

\* Modules are scripts.
LEMMA MjsIsScript == V!ContentTypeFor("mjs") = "script"
BY Zenon DEF V!ContentTypeFor

\* What a request is answered.
NoFile(req, a) == a.status = 404 /\ V!Found(req.path) = {} /\ (req.head => a.body = <<>>)
LogTaken(req, a) == a.status = 200 /\ req.path = V!Log /\ (req.head => a.body = <<>>)
Whole(req, x, a) == /\ a.status = 200 /\ a.type = x.type /\ a.length = Len(x.body)
                    /\ (req.head => a.body = <<>>)
\* An answer is one of four.
LEMMA AnswerIs ==
  ASSUME NEW req, req.range \in Ranges, req.head \in BOOLEAN, NEW a, a = V!Answer(req)
  PROVE  \/ NoFile(req, a) \/ LogTaken(req, a)
         \/ /\ req.path # V!Log
            /\ \E x : /\ V!Found(req.path) = {x}
                      /\ \/ req.range = V!NoRange /\ Whole(req, x, a)
                         \/ req.range # V!NoRange /\ RangeAnswer(req, x, a)
<1>1. CASE req.path = V!Log
  BY <1>1 DEF V!Answer, V!Response, LogTaken
<1>2. CASE req.path # V!Log /\ V!Found(req.path) = {}
  BY <1>2 DEF V!Answer, V!Response, NoFile
<1>3. CASE req.path # V!Log /\ V!Found(req.path) # {}
  <2>1. PICK x : V!Found(req.path) = {x} /\ V!IsSeq(x.body)
    BY <1>3, FoundIs
  <2>2. (CHOOSE f \in V!Found(req.path) : TRUE) = x
    BY <2>1
  <2>3. a = IF req.range = V!NoRange THEN V!Response(req, 200, x.type, x.body, V!NoRange, -1)
            ELSE V!Ranged(req, x)
    <3>1. PICK y : y = CHOOSE f \in V!Found(req.path) : TRUE
      OBVIOUS
    <3>2. V!Answer(req) = IF req.range = V!NoRange THEN V!Response(req, 200, y.type, y.body, V!NoRange, -1)
                        ELSE V!Ranged(req, y)
      BY <3>1, <1>3 DEF V!Answer
    <3> QED BY <3>1, <3>2, <2>2
  <2>4. CASE req.range = V!NoRange
    BY <2>1, <2>3, <2>4, <1>3 DEF V!Response, Whole
  <2>5. CASE req.range # V!NoRange
    BY <2>1, <2>3, <2>5, <1>3, RangedIs
  <2> QED BY <2>4, <2>5
<1> QED BY <1>1, <1>2, <1>3

\* The answer that stands is that of the request that stands.
LEMMA AnsweredIs ==
  ASSUME ServerInvariant, NEW c \in Conns, answer[c].status \notin {0, 101}
  PROVE  /\ answer[c] = V!Answer(conn[c].req) /\ conn[c].req.range \in Ranges
         /\ conn[c].req.head \in BOOLEAN
<1>1. InOrder(c)
  BY DEF ServerInvariant
<1>2. conn[c] \in Connections(plan[c]) /\ Answered(conn[c].at, conn[c].req, answer[c])
  BY <1>1 DEF InOrder, ConnOK
<1>3. conn[c].req \in Requests(plan[c])
  BY <1>2, Fields
<1>4. V!Unanswered.status = 0 /\ Upgraded.status = 101
  BY DEF V!Unanswered, Upgraded
<1>5. answer[c] = V!Answer(conn[c].req)
  BY <1>2, <1>4 DEF Answered
<1> QED BY <1>3, <1>5, RequestFields

\* The same, by its cases.
LEMMA AnsweredCases ==
  ASSUME ServerInvariant, NEW c \in Conns, answer[c].status \notin {0, 101}
  PROVE  LET req == conn[c].req
             a == answer[c]
         IN \/ NoFile(req, a) \/ LogTaken(req, a)
            \/ /\ req.path # V!Log
               /\ \E x : /\ V!Found(req.path) = {x}
                         /\ \/ req.range = V!NoRange /\ Whole(req, x, a)
                            \/ req.range # V!NoRange /\ RangeAnswer(req, x, a)
BY AnsweredIs, AnswerIs

\* What a file handle asked for, and an answer to it that it accepts.
AskedFor(c, a, q, whole, r) ==
    /\ a = answer[c] /\ q = conn[c].req /\ a.status \in {206, 416}
    /\ q.range.form = "single" /\ q.range.from <= q.range.to
    /\ whole = CHOOSE f \in V!Found(q.path) : TRUE
    /\ r = [from |-> a.range.from, to |-> a.range.to, total |-> a.total]
AcceptedBy(a, q, whole, r) ==
    IF a.status = 416 THEN r.total # -1 /\ q.range.from >= r.total
    ELSE /\ r.from = q.range.from /\ r.to >= r.from /\ r.to <= q.range.to
         /\ r.total # -1 => r.to < r.total
         /\ r.to = q.range.to \/ r.to = Len(whole.body) - 1
         /\ a.length = r.to - r.from + 1
         /\ ~q.head => a.body = SubSeq(whole.body, r.from + 1, r.to + 1)

\* A file handle accepts what its range is answered.
LEMMA AcceptedRange ==
  ASSUME ServerInvariant, NEW c \in Conns, NEW a, NEW q, NEW whole, NEW r,
         AskedFor(c, a, q, whole, r)
  PROVE  AcceptedBy(a, q, whole, r)
<1> USE DEF AskedFor, AcceptedBy
<1>1. a.status \notin {0, 101}
  OBVIOUS
<1>2. /\ answer[c] = V!Answer(conn[c].req) /\ conn[c].req.range \in Ranges
      /\ conn[c].req.head \in BOOLEAN
  BY <1>1, AnsweredIs
<1>3. PICK x : V!Found(q.path) = {x} /\ RangeAnswer(q, x, a)
  <2>1. ~NoFile(q, a) /\ ~LogTaken(q, a) /\ \A x : ~Whole(q, x, a)
    BY DEF NoFile, LogTaken, Whole
  <2> QED BY <2>1, <1>1, AnsweredCases
<1>4. whole = x
  BY <1>3
<1>5. PICK n \in Nat : n = Len(x.body)
  <2>1. V!Found(q.path) # {}
    BY <1>3
  <2>2. PICK y : V!Found(q.path) = {y} /\ V!IsSeq(y.body)
    BY <2>1, FoundIs
  <2>3. y = x
    BY <2>2, <1>3
  <2> QED BY <2>2, <2>3 DEF V!IsSeq
<1>6. r.from = a.range.from /\ r.to = a.range.to /\ r.total = a.total
  OBVIOUS
<1>7. PICK from, to \in Nat : from = q.range.from /\ to = q.range.to
  BY <1>2 DEF Ranges
<1>8. CASE a.status = 416
  <2>1. a.total = n /\ (from >= n \/ to < from)
    BY <1>3, <1>5, <1>7, <1>8 DEF RangeAnswer
  <2> QED BY <2>1, <1>6, <1>7, <1>8
<1>9. CASE a.status = 206
  <2>1. PICK f, t \in Nat : f = a.range.from /\ t = a.range.to
    BY <1>3, <1>9 DEF RangeAnswer
  <2>2. /\ f = from /\ t >= f /\ t < n /\ a.total = n /\ t <= to /\ t \in {to, n - 1}
        /\ a.length = t - f + 1
        /\ ~q.head => a.body = SubSeq(x.body, f + 1, t + 1)
    BY <2>1, <1>3, <1>5, <1>7, <1>9 DEF RangeAnswer
  <2>3. r.from = f /\ r.to = t /\ r.total = n
    BY <2>1, <2>2, <1>6
  <2>4. t = to \/ t = n - 1
    BY <2>2
  <2>5. /\ r.from = q.range.from /\ r.to >= r.from /\ r.to <= q.range.to
        /\ r.total # -1 => r.to < r.total
    BY <2>2, <2>3, <1>7
  <2>6. r.to = q.range.to \/ r.to = Len(whole.body) - 1
    <3>1. CASE t = to
      BY <3>1, <2>3, <1>7
    <3>2. CASE t = n - 1
      <4>1. Len(whole.body) = n
        BY <1>4, <1>5
      <4> QED BY <4>1, <3>2, <2>3
    <3> QED BY <3>1, <3>2, <2>4
  <2>7. a.length = r.to - r.from + 1
    BY <2>2, <2>3
  <2>8. ~q.head => a.body = SubSeq(whole.body, r.from + 1, r.to + 1)
    BY <2>2, <2>3, <1>4
  <2> QED BY <2>5, <2>6, <2>7, <2>8, <1>9
<1> QED BY <1>8, <1>9

\* What is served is a route or lies in the directory.
LEMMA ServedOnlyTheDirectory == ServerInvariant => V!OnlyTheDirectory
<1> SUFFICES ASSUME ServerInvariant, NEW c \in Conns, answer[c].status \in {200, 206},
                    conn[c].req.path \notin {V!Log} \cup DOMAIN Routes
             PROVE  LET path == conn[c].req.path
                    IN /\ V!Plain(path) \in DOMAIN Disk /\ Disk[V!Plain(path)].inside
                       /\ \A i \in DOMAIN path : path[i] # ".."
                       /\ Disk[V!Plain(path)].ext = "mjs" => answer[c].type = "script"
  BY DEF V!OnlyTheDirectory
<1>1. PICK path, a : path = conn[c].req.path /\ a = answer[c]
  OBVIOUS
<1>2. PICK x : V!Found(path) = {x} /\ a.type = x.type
  <2>1. ~NoFile(conn[c].req, a) /\ ~LogTaken(conn[c].req, a)
    BY <1>1 DEF NoFile, LogTaken
  <2>2. PICK x : /\ V!Found(path) = {x}
                 /\ Whole(conn[c].req, x, a) \/ RangeAnswer(conn[c].req, x, a)
    BY <2>1, <1>1, AnsweredCases
  <2> QED BY <2>2 DEF Whole, RangeAnswer
<1>3. PICK y : /\ V!Found(path) = {y}
               /\ V!Plain(path) \in DOMAIN Disk /\ Disk[V!Plain(path)].inside
               /\ \A i \in DOMAIN path : path[i] # ".."
               /\ y.type = V!ContentTypeFor(Disk[V!Plain(path)].ext)
  <2>1. V!Found(path) # {} /\ path \notin DOMAIN Routes
    BY <1>1, <1>2
  <2> QED BY <2>1, FoundIs
<1>4. x = y
  BY <1>2, <1>3
<1>5. Disk[V!Plain(path)].ext = "mjs" => a.type = "script"
  BY <1>2, <1>3, <1>4, MjsIsScript
<1> QED BY <1>1, <1>3, <1>5

\* A 404 is for what is not there.
LEMMA FilesFound == ServerInvariant => V!FilesAreFound
<1> SUFFICES ASSUME ServerInvariant, NEW c \in Conns, answer[c].status = 404
             PROVE  /\ conn[c].req.path \notin DOMAIN Routes
                    /\ conn[c].req.path \in DOMAIN Disk => ~Disk[conn[c].req.path].inside
  BY DEF V!FilesAreFound
<1>1. ~LogTaken(conn[c].req, answer[c]) /\ \A x : ~Whole(conn[c].req, x, answer[c])
      /\ ~RangeAnswer(conn[c].req, x, answer[c])
  BY DEF LogTaken, Whole, RangeAnswer
<1>2. V!Found(conn[c].req.path) = {}
  BY <1>1, AnsweredCases DEF NoFile
<1> QED BY <1>2, NotFoundIs

\* A HEAD has no body, and its GET's length.
LEMMA HeadsHaveNoBody == ServerInvariant => V!HeadHasNoBody
<1> SUFFICES ASSUME ServerInvariant, NEW c \in Conns, conn[c].req.head, answer[c].status # 0
             PROVE  /\ answer[c].body = <<>>
                    /\ answer[c].status = 206 =>
                         answer[c].length = answer[c].range.to - answer[c].range.from + 1
                    /\ answer[c].status = 200
                         /\ conn[c].req.path \in DOMAIN Disk \ ({V!Log} \cup DOMAIN Routes)
                         => answer[c].length = Len(Disk[conn[c].req.path].body)
  BY DEF V!HeadHasNoBody
<1>1. PICK q, a : q = conn[c].req /\ a = answer[c]
  OBVIOUS
<1>2. CASE a.status = 101
  <2>1. Answered(conn[c].at, q, a)
    BY <1>1 DEF ServerInvariant, InOrder, ConnOK
  <2>2. a = Upgraded \/ a = V!Unanswered \/ a = V!Answer(q)
    BY <2>1 DEF Answered
  <2>3. a # V!Answer(q)
    <3>1. CASE a = V!Answer(q)
      <4>1. q.range \in Ranges /\ q.head \in BOOLEAN
        <5>1. q \in Requests(plan[c])
          BY <1>1, Fields DEF ServerInvariant, InOrder, ConnOK
        <5> QED BY <5>1, RequestFields
      <4>2. a.status \in {200, 404, 206, 416}
        BY <3>1, <4>1, AnswerIs DEF NoFile, LogTaken, Whole, RangeAnswer
      <4> QED BY <4>2, <1>2
    <3> QED BY <3>1
  <2>4. a.body = <<>>
    BY <2>2, <2>3 DEF Upgraded, V!Unanswered
  <2> QED BY <2>4, <1>1, <1>2
<1>3. CASE a.status # 101
  <2>1. \/ NoFile(q, a) \/ LogTaken(q, a)
        \/ \E x : V!Found(q.path) = {x} /\ (Whole(q, x, a) \/ RangeAnswer(q, x, a))
    BY <1>1, <1>3, AnsweredCases
  <2>2. CASE NoFile(q, a)
    BY <2>2, <1>1 DEF NoFile
  <2>3. CASE LogTaken(q, a)
    BY <2>3, <1>1 DEF LogTaken
  <2>4. ASSUME NEW x, V!Found(q.path) = {x}, RangeAnswer(q, x, a)
        PROVE  a.body = <<>> /\ a.status # 200
               /\ (a.status = 206 => a.length = a.range.to - a.range.from + 1)
    BY <2>4, <1>1 DEF RangeAnswer
  <2>5. ASSUME NEW x, V!Found(q.path) = {x}, Whole(q, x, a)
        PROVE  a.body = <<>> /\ a.status # 206
               /\ (q.path \in DOMAIN Disk \ DOMAIN Routes => a.length = Len(Disk[q.path].body))
    <3>1. a.body = <<>> /\ a.status # 206 /\ a.length = Len(x.body)
      BY <2>5, <1>1 DEF Whole
    <3>2. CASE q.path \in DOMAIN Disk \ DOMAIN Routes
      <4>1. V!Found(q.path) # {}
        BY <2>5
      <4>2. PICK y : V!Found(q.path) = {y} /\ y.body = Disk[V!Plain(q.path)].body
        BY <4>1, <3>2, FoundIs
      <4>3. V!IsSeq(q.path) /\ \A i \in DOMAIN q.path : ~Skipped(q.path[i])
        BY <3>2, ServerAssumption, Zenon DEF ServerBounds, Skipped
      <4>4. V!Plain(q.path) = q.path
        BY <4>3, PlainIs DEF V!IsSeq
      <4>5. x = y
        BY <4>2, <2>5
      <4> QED BY <3>1, <4>2, <4>4, <4>5
    <3> QED BY <3>1, <3>2
  <2> QED BY <2>1, <2>2, <2>3, <2>4, <2>5, <1>1
<1> QED BY <1>2, <1>3

\* Batches are printed once and whole.
LEMMA BatchesOnce == ServerInvariant => V!BatchesPrintedOnce
<1> SUFFICES ASSUME ServerInvariant PROVE V!BatchesPrintedOnce
  OBVIOUS
<1>1. BatchesOK
  BY DEF ServerInvariant
<1>2. ASSUME NEW i \in DOMAIN batches, NEW c, c = batches[i].conn, NEW b, b = batches[i].body
      PROVE  /\ answer[c].status = 200 /\ V!IsPrefix(b, plan[c].body)
             /\ Cut(plan[c], shut[c]) \/ b = plan[c].body
  <2>1. Batch(c, b)
    BY <1>1, <1>2 DEF BatchesOK
  <2>2. /\ c \in Conns /\ answer[c].status = 200 /\ IsList(b)
        /\ Begins(b, plan[c].body) /\ (Cut(plan[c], shut[c]) \/ b = plan[c].body)
    BY <2>1 DEF Batch, Received
  <2>3. V!IsPrefix(b, plan[c].body)
    <3>1. PICK w : w = plan[c].body
      OBVIOUS
    <3>2. Client(plan[c])
      BY <2>2, ClientsConform
    <3>3. PICK W : w \in Seq(W)
      BY <3>1, <3>2, BodyIs
    <3>4. PICK Y : b \in Seq(Y)
      BY <2>2 DEF IsList
    <3>5. Len(b) <= Len(w) /\ \A j \in 1..Len(b) : b[j] = w[j]
      BY <2>2, <3>1 DEF Begins
    <3>6. SubSeq(b, 1, Len(b)) = SubSeq(w, 1, Len(b))
      BY <3>3, <3>4, <3>5
    <3> QED BY <3>1, <3>5, <3>6 DEF V!IsPrefix
  <2> QED BY <2>2, <2>3
<1>3. \A i, j \in DOMAIN batches : batches[i].conn = batches[j].conn => i = j
  BY <1>1 DEF BatchesOK
<1>4. ASSUME NEW i \in DOMAIN batches
      PROVE  LET c == batches[i].conn
                 cut == \E h \in {plan[c].headers[k] : k \in DOMAIN plan[c].headers} :
                            h.name = "length" /\ (h.value > MaxRequest \/ shut[c])
             IN /\ answer[c].status = 200
                /\ V!IsPrefix(batches[i].body, plan[c].body)
                /\ cut \/ batches[i].body = plan[c].body
  BY <1>2 DEF Cut
<1> QED BY <1>3, <1>4 DEF V!BatchesPrintedOnce

\* What is echoed is what the frames came to.
LEMMA EchoesAreExact == ServerInvariant => V!EchoExact
<1> SUFFICES ASSUME ServerInvariant, NEW c \in Conns
             PROVE  LET replies == V!FlattenSeq([i \in 1..conn[c].frames |-> V!ReplyTo(plan[c].frames, i)])
                    IN /\ Len(echoed[c]) = Len(replies)
                       /\ \A i \in DOMAIN replies :
                            /\ echoed[c][i].op = replies[i].op /\ echoed[c][i].data = replies[i].data
                            /\ echoed[c][i].field = CHOOSE k \in {7, 16, 64} :
                                  /\ k = 7 <=> Len(replies[i].data) < Short
                                  /\ k = 64 <=> Len(replies[i].data) > Medium
  BY DEF V!EchoExact
<1>1. Echoed(plan[c].frames, conn[c].frames, echoed[c])
  BY DEF ServerInvariant, InOrder, ConnOK
<1> QED BY <1>1 DEF Echoed, Replies, Written

\* Ranges are answered as file handles expect, in RemoteFile's words.
LEMMA RangesAreAccepted == ServerInvariant => V!RangesAccepted
<1> SUFFICES ASSUME ServerInvariant, NEW c \in Conns
             PROVE  LET a == answer[c]
                        asked == conn[c].req.range
                        whole == CHOOSE f \in V!Found(conn[c].req.path) : TRUE
                        r == [from |-> a.range.from, to |-> a.range.to, total |-> a.total]
                    IN asked.form = "single" /\ asked.from <= asked.to /\ a.status \in {206, 416} =>
                         IF a.status = 416 THEN V!FileHandle(asked.from, asked.to)!UnsatisfiedOk(r)
                         ELSE /\ V!FileHandle(asked.from, asked.to)!PartialOk(r)
                              /\ r.to = asked.to \/ r.to = Len(whole.body) - 1
                              /\ a.length = r.to - r.from + 1
                              /\ ~conn[c].req.head =>
                                   a.body = SubSeq(whole.body, r.from + 1, r.to + 1)
  BY DEF V!RangesAccepted
<1>1. PICK a, q, whole, r :
         /\ a = answer[c] /\ q = conn[c].req /\ whole = CHOOSE f \in V!Found(q.path) : TRUE
         /\ r = [from |-> a.range.from, to |-> a.range.to, total |-> a.total]
  OBVIOUS
<1>2. ASSUME q.range.form = "single", q.range.from <= q.range.to, a.status \in {206, 416}
      PROVE  IF a.status = 416 THEN V!FileHandle(q.range.from, q.range.to)!UnsatisfiedOk(r)
             ELSE /\ V!FileHandle(q.range.from, q.range.to)!PartialOk(r)
                  /\ r.to = q.range.to \/ r.to = Len(whole.body) - 1
                  /\ a.length = r.to - r.from + 1
                  /\ ~q.head => a.body = SubSeq(whole.body, r.from + 1, r.to + 1)
  <2>1. AskedFor(c, a, q, whole, r)
    BY <1>1, <1>2 DEF AskedFor
  <2>2. AcceptedBy(a, q, whole, r)
    BY <2>1, AcceptedRange
  <2> QED BY <2>2, <1>2 DEF AcceptedBy, V!FileHandle!UnsatisfiedOk, V!FileHandle!PartialOk
<1> QED BY <1>1, <1>2

\* The invariant says what is promised.
LEMMA ServerSays == ServerInvariant => V!ServerExact
BY RangesAreAccepted, ServedOnlyTheDirectory, FilesFound, BatchesOnce, EchoesAreExact,
   HeadsHaveNoBody DEF V!ServerExact

\* Whatever its clients send, at whatever pace, and whenever they leave, what the
\* server has answered is what they asked for: the bytes of the resource that the
\* range names, nothing from outside the directory, a 404 only for what is not
\* there, every batch printed once and whole, every message echoed whole and in order.
\* (ServerExact, which the runs check, is the same where the clients have a plan.)
THEOREM ServerStaysExact == V!Spec => [](V!ServerExact /\ ServerExact)
<1>1. V!Init => ServerInvariant
  BY ServerStarts
<1>2. ServerInvariant /\ [V!Next]_(V!vars) => ServerInvariant'
  BY ServerSteps
<1>3. ServerInvariant => V!ServerExact /\ ServerExact
  BY ServerSays DEF ServerExact
<1> QED BY <1>1, <1>2, <1>3, PTL DEF V!Spec
=============================================================================
