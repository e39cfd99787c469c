--------------------------- MODULE RwLockProofs ---------------------------
(* Theorems about RwLock, for every set of threads and tasks, every pool of  *)
(* waits and every number of calls.  The argument is that of LocksProofs,    *)
(* kind by kind, with one more turn: a write unlock that is waking readers   *)
(* has still to come to the writers.                                         *)
EXTENDS RwLock, FiniteSetTheorems, TLAPS

\* The waiting part of the inductive invariant.
Waiting == /\ SpinHeld /\ SyncCovered /\ AsyncCovered /\ TakenByUnlocker
           /\ ParkedIsKnown /\ AwaitingIsKnown

LEMMA InitInv == Init => IInv
<1> SUFFICES ASSUME Init PROVE IInv
  OBVIOUS
<1> USE RwLockAssumption DEF Init, Actors, Kinds
<1>1. TypeOK
  <2>1. ops \in [Actors -> 0..MaxOps] /\ token \in [Threads -> BOOLEAN]
    OBVIOUS
  <2>2. unparks \in [Actors -> SUBSET CanPark] /\ wakes \in [Actors -> SUBSET Waits]
    OBVIOUS
  <2>3. /\ syncList \in [Kinds -> SUBSET CanPark]
        /\ asyncList \in [Kinds -> SUBSET Waits]
    OBVIOUS
  <2> QED BY <2>1, <2>2, <2>3 DEF TypeOK, PCs
<1>2. Exclusion
  <2>1. Holding("read") = {} /\ Holding("write") = {}
    BY DEF Holding
  <2> QED BY <2>1, FS_EmptySet DEF Exclusion
<1>3. SpinHeld /\ SyncCovered /\ AsyncCovered
  BY DEF SpinHeld, SyncCovered, AsyncCovered
<1>4. TakenByUnlocker /\ ParkedIsKnown /\ AwaitingIsKnown
  BY DEF TakenByUnlocker, ParkedIsKnown, AwaitingIsKnown
<1> QED BY <1>1, <1>2, <1>3, <1>4 DEF IInv

\* Beginning a call is an immediate try or the entry of one of three loops.
LEMMA BeginCases ==
  ASSUME NEW a \in Actors, Begin(a)
  PROVE  \E k \in Kinds :
           \/ TryLock(a, k)
           \/ \E p \in {"spin", "block", "async"} :
                /\ Call(a, k, p)
                /\ p = "spin" => a \in Threads
                /\ p = "block" => a \in CanPark
                /\ p = "async" => a \in Tasks
  BY DEF Begin, LockSpin, LockBlock, LockAsync, LockSync

\* What taking the word changes.
LEMMA AcquireEffect ==
  ASSUME TypeOK, NEW a \in Actors, NEW k \in Kinds, Acquire(a, k)
  PROVE  /\ writer' \in BOOLEAN /\ readers' \in Nat
         /\ pc' \in [Actors -> PCs]
         /\ pc' = [pc EXCEPT ![a] = "holding"]
<1>1. writer' \in BOOLEAN /\ readers' \in Nat
  <2>1. CASE k = "read"
    BY <2>1 DEF TypeOK, Acquire
  <2>2. CASE k = "write"
    BY <2>2 DEF TypeOK, Acquire
  <2> QED BY <2>1, <2>2 DEF Kinds
<1>2. pc' = [pc EXCEPT ![a] = "holding"]
  BY DEF Acquire, Goto
<1> QED BY <1>1, <1>2 DEF TypeOK, PCs

\* Every step keeps the types.
LEMMA TypeStep ==
  ASSUME IInv, [Next]_vars
  PROVE  TypeOK'
<1> USE RwLockAssumption DEF IInv, TypeOK, Actors, PCs, wordVars, syncVars,
        asyncVars, waitVars, wakeVars
<1>1. ASSUME NEW a \in Actors, Begin(a) PROVE TypeOK'
  <2>1. ASSUME NEW k \in Kinds, TryLock(a, k) PROVE TypeOK'
    <3>1. CASE Acquire(a, k)
      BY <2>1, <3>1, AcquireEffect DEF TryLock, Count
    <3>2. CASE UNCHANGED <<wordVars, pc>>
      BY <2>1, <3>2 DEF TryLock, Count
    <3> QED BY <2>1, <3>1, <3>2 DEF TryLock
  <2>2. ASSUME NEW k \in Kinds, NEW p \in {"spin", "block", "async"}, Call(a, k, p)
        PROVE  TypeOK'
    BY <2>2 DEF Call, Count, Goto
  <2>3. PICK k \in Kinds :
          \/ TryLock(a, k)
          \/ \E p \in {"spin", "block", "async"} : Call(a, k, p)
    BY <1>1, BeginCases
  <2> QED BY <2>1, <2>2, <2>3
<1>2. ASSUME NEW t \in Threads, SpinTry(t) PROVE TypeOK'
  BY <1>2, AcquireEffect DEF SpinTry
<1>3. ASSUME NEW t \in Threads, BlockTry(t) PROVE TypeOK'
  <2>1. CASE Acquire(t, kind[t]) /\ UNCHANGED syncSpin
    BY <1>3, <2>1, AcquireEffect DEF BlockTry
  <2>2. CASE ~(Acquire(t, kind[t]) /\ UNCHANGED syncSpin)
    <3>1. /\ syncSpin' = [syncSpin EXCEPT ![kind[t]] = t]
          /\ pc' = [pc EXCEPT ![t] = "push"]
          /\ UNCHANGED <<wordVars, syncList, asyncList, kind, turn, token, wakeVars,
                         waitVars, ops, asyncSpin>>
      BY <1>3, <2>2 DEF BlockTry, Goto
    <3> QED BY <3>1
  <2> QED BY <2>1, <2>2
<1>4. ASSUME NEW t \in Threads, BlockPush(t) PROVE TypeOK'
  BY <1>4 DEF BlockPush, SpinHeld, Goto
<1>5. ASSUME NEW t \in Threads, ParkToken(t) \/ ParkSpurious(t) PROVE TypeOK'
  BY <1>5 DEF ParkToken, ParkSpurious, Goto
<1>6. ASSUME NEW t \in Tasks, AsyncTry(t) PROVE TypeOK'
  <2>1. CASE Acquire(t, kind[t]) /\ UNCHANGED asyncSpin
    BY <1>6, <2>1, AcquireEffect DEF AsyncTry
  <2>2. CASE ~(Acquire(t, kind[t]) /\ UNCHANGED asyncSpin)
    <3>1. /\ kind[t] \in Kinds /\ Goto(t, "apush")
          /\ asyncSpin' = [asyncSpin EXCEPT ![kind[t]] = t]
          /\ UNCHANGED wordVars
      BY <1>6, <2>2 DEF AsyncTry
    <3>2. asyncSpin' \in [Kinds -> Tasks \cup {None}] /\ pc' \in [Actors -> PCs]
      BY <3>1 DEF Goto
    <3> QED BY <1>6, <3>1, <3>2 DEF AsyncTry
  <2> QED BY <2>1, <2>2
<1>7. ASSUME NEW t \in Tasks, AsyncPush(t) PROVE TypeOK'
  BY <1>7 DEF AsyncPush, Goto
<1>8. ASSUME NEW t \in Tasks, AwaitWoken(t) \/ AwaitCancelled(t) PROVE TypeOK'
  <2>1. DropWait(t) /\ (Goto(t, "async") \/ Goto(t, "idle"))
    BY <1>8 DEF AwaitWoken, AwaitCancelled
  <2>2. pc' \in [Actors -> PCs]
    BY <2>1 DEF Goto
  <2>3. wait' \in [Tasks -> Waits \cup {None}]
    BY <2>1 DEF DropWait
  <2>4. wstate' \in [Waits -> {"waiting", "woken", "canceled"}]
    BY <2>1 DEF DropWait
  <2> QED BY <2>1, <2>2, <2>3, <2>4 DEF DropWait
<1>9. ASSUME NEW a \in Actors, ReleaseRead(a) PROVE TypeOK'
  <2>1. readers - 1 \in Nat
    <3>1. a \in Holding("read") /\ IsFiniteSet(Holding("read"))
      BY <1>9, FS_Subset DEF ReleaseRead, Holding
    <3>2. Cardinality(Holding("read")) # 0
      BY <3>1, FS_EmptySet
    <3> QED BY <3>2 DEF Exclusion
  <2> QED BY <1>9, <2>1 DEF ReleaseRead, Goto, Kinds
<1>10. ASSUME NEW a \in Actors, ReleaseWrite(a) PROVE TypeOK'
  BY <1>10 DEF ReleaseWrite, Goto, Kinds
<1>11. ASSUME NEW a \in Actors, TakeSync(a) PROVE TypeOK'
  BY <1>11 DEF TakeSync, Goto
<1>12. ASSUME NEW a \in Actors, Unpark(a) PROVE TypeOK'
  BY <1>12 DEF Unpark
<1>13. ASSUME NEW a \in Actors, TakeAsync(a) PROVE TypeOK'
  BY <1>13 DEF TakeAsync, Goto
<1>14. ASSUME NEW a \in Actors, Wake(a) PROVE TypeOK'
  BY <1>14 DEF Wake
<1>15. ASSUME NEW a \in Actors, NextTurn(a) PROVE TypeOK'
  BY <1>15 DEF NextTurn, Goto, Kinds
<1>16. CASE UNCHANGED vars
  BY <1>16 DEF vars
<1> HIDE DEF IInv, TypeOK, Actors, PCs
<1> QED
  BY <1>1, <1>2, <1>3, <1>4, <1>5, <1>6, <1>7, <1>8, <1>9, <1>10, <1>11, <1>12,
     <1>13, <1>14, <1>15, <1>16
  DEF Next, Locking, Awaiting, Release, Unlocking, Finished

\* A step in which no actor starts or stops holding a guard.
LEMMA HoldingSame ==
  ASSUME TypeOK, Exclusion, UNCHANGED wordVars, NEW a \in Actors,
         pc' = [pc EXCEPT ![a] = pc'[a]], pc[a] # "holding", pc'[a] # "holding",
         \A b \in Actors : b # a => kind'[b] = kind[b]
  PROVE  Exclusion'
<1>1. \A k \in Kinds : Holding(k)' = Holding(k)
  BY DEF Holding, TypeOK
<1> QED BY <1>1 DEF Exclusion, wordVars, Kinds

\* Taking the word adds the actor to the holders of its kind.
LEMMA HoldingAdds ==
  ASSUME TypeOK, Exclusion, NEW a \in Actors, NEW k \in Kinds,
         pc[a] # "holding", Acquire(a, k), kind' = [kind EXCEPT ![a] = k]
  PROVE  Exclusion'
<1> USE DEF Kinds
<1>1. Holding(k)' = Holding(k) \cup {a}
  BY DEF Holding, TypeOK, Acquire, Goto
<1>2. \A j \in Kinds : j # k => Holding(j)' = Holding(j)
  BY DEF Holding, TypeOK, Acquire, Goto
<1>3. a \notin Holding(k) /\ IsFiniteSet(Holding("read"))
  BY RwLockAssumption, FS_Subset DEF Holding, Actors
<1>4. CASE k = "read"
  <2>1. Cardinality(Holding("read")') = Cardinality(Holding("read")) + 1
    BY <1>1, <1>3, <1>4, FS_AddElement
  <2>2. Holding("write") = {} /\ readers' = readers + 1 /\ writer' = writer /\ ~writer
    BY <1>4 DEF Acquire, Available, Exclusion
  <2> QED BY <1>2, <1>4, <2>1, <2>2 DEF Exclusion
<1>5. CASE k = "write"
  <2>1. readers = 0 /\ readers' = 0 /\ writer' = TRUE /\ Holding("write") = {}
    BY <1>5 DEF Acquire, Available, Exclusion
  <2>2. Holding("read") = {}
    BY <1>3, <2>1, FS_EmptySet DEF Exclusion
  <2> QED BY <1>1, <1>2, <1>5, <2>1, <2>2, FS_EmptySet DEF Exclusion
<1> QED BY <1>4, <1>5

\* Every step keeps readers and writers apart and the word exact.
LEMMA ExclusionStep ==
  ASSUME IInv, [Next]_vars
  PROVE  Exclusion'
<1> USE DEF IInv
<1>0. TypeOK /\ Exclusion
  OBVIOUS
<1>1. ASSUME NEW a \in Actors, Begin(a) PROVE Exclusion'
  <2>1. ASSUME NEW k \in Kinds, TryLock(a, k) PROVE Exclusion'
    <3>1. CASE Acquire(a, k)
      BY <1>0, <2>1, <3>1, HoldingAdds DEF TryLock, Count
    <3>2. CASE UNCHANGED <<wordVars, pc>>
      BY <1>0, <2>1, <3>2, HoldingSame DEF TryLock, Count, TypeOK
    <3> QED BY <2>1, <3>1, <3>2 DEF TryLock
  <2>2. ASSUME NEW k \in Kinds, NEW p \in {"spin", "block", "async"}, Call(a, k, p)
        PROVE  Exclusion'
    BY <1>0, <2>2, HoldingSame DEF Call, Count, Goto, TypeOK
  <2> QED BY <1>1, <2>1, <2>2, BeginCases
<1>2. ASSUME NEW t \in Actors, pc[t] # "holding", Acquire(t, kind[t]), UNCHANGED kind
      PROVE  Exclusion'
  <2>1. kind[t] \in Kinds /\ kind' = [kind EXCEPT ![t] = kind[t]]
    BY <1>2 DEF TypeOK
  <2> QED BY <1>0, <1>2, <2>1, HoldingAdds
<1>3. ASSUME NEW t \in Actors, NEW p \in PCs \ {"holding"}, pc[t] # "holding",
             Goto(t, p), UNCHANGED <<wordVars, kind>>
      PROVE  Exclusion'
  BY <1>0, <1>3, HoldingSame DEF Goto, TypeOK
<1>4. ASSUME NEW t \in Threads, Locking(t) \/ ParkSpurious(t) PROVE Exclusion'
  BY <1>2, <1>3, <1>4 DEF Locking, SpinTry, BlockTry, BlockPush, ParkToken,
     ParkSpurious, Actors, PCs, Goto
<1>5. ASSUME NEW t \in Tasks, Awaiting(t) \/ AwaitCancelled(t) PROVE Exclusion'
  BY <1>2, <1>3, <1>5 DEF Awaiting, AsyncTry, AsyncPush, AwaitWoken,
     AwaitCancelled, DropWait, Actors, PCs, Goto
<1>6. ASSUME NEW a \in Actors, Unlocking(a) PROVE Exclusion'
  <2>1. CASE TakeSync(a) \/ TakeAsync(a) \/ NextTurn(a)
    <3>1. pc[a] # "holding" /\ UNCHANGED <<wordVars, kind>>
      BY <2>1 DEF TakeSync, TakeAsync, NextTurn
    <3>2. \E p \in {"take_sync", "unpark", "wake", "idle"} : Goto(a, p)
      BY <2>1 DEF TakeSync, TakeAsync, NextTurn
    <3> QED BY <3>1, <3>2, <1>3 DEF PCs
  <2>2. CASE Unpark(a) \/ Wake(a)
    <3>1. UNCHANGED <<writer, readers, pc, kind>>
      BY <2>2 DEF Unpark, Wake, wordVars
    <3>2. \A k \in Kinds : Holding(k)' = Holding(k)
      BY <3>1 DEF Holding
    <3> QED BY <1>0, <3>1, <3>2 DEF Exclusion, Kinds
  <2> QED BY <1>6, <2>1, <2>2 DEF Unlocking
<1>7. ASSUME NEW a \in Actors, ReleaseRead(a) PROVE Exclusion'
  <2>1. Holding("read")' = Holding("read") \ {a} /\ Holding("write")' = Holding("write")
    BY <1>0, <1>7 DEF ReleaseRead, Holding, TypeOK, Goto
  <2>2. a \in Holding("read") /\ IsFiniteSet(Holding("read"))
    BY <1>7, RwLockAssumption, FS_Subset DEF ReleaseRead, Holding, Actors
  <2>3. Cardinality(Holding("read")') = Cardinality(Holding("read")) - 1
    BY <2>1, <2>2, FS_RemoveElement
  <2> QED BY <1>0, <1>7, <2>1, <2>2, <2>3 DEF ReleaseRead, Exclusion
<1>8. ASSUME NEW a \in Actors, ReleaseWrite(a) PROVE Exclusion'
  <2>1. Holding("read")' = Holding("read") /\ Holding("write")' = Holding("write") \ {a}
    BY <1>0, <1>8 DEF ReleaseWrite, Holding, TypeOK, Goto
  <2>2. Holding("write") = {a}
    BY <1>0, <1>8 DEF ReleaseWrite, Holding, Exclusion
  <2> QED BY <1>0, <1>8, <2>1, <2>2 DEF ReleaseWrite, Exclusion
<1>9. CASE UNCHANGED vars
  BY <1>0, <1>9 DEF vars, Exclusion, Holding
<1> QED
  BY <1>1, <1>4, <1>5, <1>6, <1>7, <1>8, <1>9 DEF Next, Release, Finished

\* Every step keeps the rest of the inductive invariant.
LEMMA WaitingStep ==
  ASSUME IInv, [Next]_vars
  PROVE  Waiting'
<1> USE RwLockAssumption DEF IInv, TypeOK, Waiting, SpinHeld, SyncCovered,
        AsyncCovered, TakenByUnlocker, ParkedIsKnown, AwaitingIsKnown,
        ToTakeSync, ToTakeAsync, Available, Actors, Kinds, PCs, Goto,
        wordVars, syncVars, asyncVars, waitVars, wakeVars
<1>1. ASSUME NEW a \in Actors, Begin(a) PROVE Waiting'
  <2>1. ASSUME NEW k \in Kinds, TryLock(a, k) PROVE Waiting'
    <3>1. /\ pc[a] = "idle" /\ kind' = [kind EXCEPT ![a] = k]
          /\ UNCHANGED <<turn, syncVars, asyncVars, token, wakeVars, waitVars>>
      BY <2>1 DEF TryLock, Count
    <3>2. CASE UNCHANGED <<wordVars, pc>>
      BY <3>1, <3>2
    <3>3. CASE Acquire(a, k)
      BY <3>1, <3>3 DEF Acquire
    <3> QED BY <2>1, <3>2, <3>3 DEF TryLock
  <2>2. ASSUME NEW k \in Kinds, NEW p \in {"spin", "block", "async"}, Call(a, k, p),
               p = "spin" => a \in Threads, p = "block" => a \in CanPark,
               p = "async" => a \in Tasks
        PROVE  Waiting'
    BY <2>2 DEF Call, Count
  <2> QED BY <1>1, <2>1, <2>2, BeginCases
<1>2. ASSUME NEW t \in Threads, SpinTry(t) PROVE Waiting'
  BY <1>2 DEF SpinTry, Acquire
<1>3. ASSUME NEW t \in Threads, BlockTry(t) PROVE Waiting'
  <2>1. CASE Acquire(t, kind[t]) /\ UNCHANGED syncSpin
    BY <1>3, <2>1 DEF BlockTry, Acquire
  <2>2. CASE ~(Acquire(t, kind[t]) /\ UNCHANGED syncSpin)
    <3>1. /\ ~Available(kind[t]) /\ pc[t] = "block" /\ syncSpin[kind[t]] = None
          /\ syncSpin' = [syncSpin EXCEPT ![kind[t]] = t]
          /\ pc' = [pc EXCEPT ![t] = "push"]
          /\ UNCHANGED <<wordVars, syncList, asyncVars, kind, turn, token, wakeVars, waitVars>>
      BY <1>3, <2>2 DEF BlockTry
    <3>2. SpinHeld' /\ TakenByUnlocker'
      BY <3>1
    <3>3. SyncCovered' /\ AsyncCovered'
      BY <3>1
    <3>4. ParkedIsKnown' /\ AwaitingIsKnown'
      BY <3>1
    <3> QED BY <3>2, <3>3, <3>4
  <2> QED BY <2>1, <2>2
<1>4. ASSUME NEW t \in Threads, BlockPush(t) PROVE Waiting'
  BY <1>4 DEF BlockPush
<1>5. ASSUME NEW t \in Threads, ParkToken(t) \/ ParkSpurious(t) PROVE Waiting'
  <2>1. /\ pc[t] = "park" /\ pc' = [pc EXCEPT ![t] = "block"]
        /\ \A u \in Threads : u # t => token'[u] = token[u]
        /\ UNCHANGED <<wordVars, syncVars, asyncVars, kind, turn, wakeVars, waitVars>>
    BY <1>5 DEF ParkToken, ParkSpurious
  <2>2. ParkedIsKnown'
    BY <2>1
  <2>3. SpinHeld' /\ TakenByUnlocker'
    BY <2>1
  <2>4. SyncCovered' /\ AsyncCovered'
    BY <2>1
  <2>5. AwaitingIsKnown'
    BY <2>1
  <2> QED BY <2>2, <2>3, <2>4, <2>5
<1>6. ASSUME NEW t \in Tasks, AsyncTry(t) PROVE Waiting'
  <2>1. CASE Acquire(t, kind[t]) /\ UNCHANGED asyncSpin
    BY <1>6, <2>1 DEF AsyncTry, Acquire
  <2>2. CASE ~(Acquire(t, kind[t]) /\ UNCHANGED asyncSpin)
    <3>1. /\ ~Available(kind[t]) /\ pc[t] = "async" /\ asyncSpin[kind[t]] = None
          /\ asyncSpin' = [asyncSpin EXCEPT ![kind[t]] = t]
          /\ pc' = [pc EXCEPT ![t] = "apush"]
          /\ UNCHANGED <<wordVars, syncVars, asyncList, kind, turn, token, wakeVars, waitVars>>
      BY <1>6, <2>2 DEF AsyncTry
    <3>2. SpinHeld' /\ TakenByUnlocker'
      BY <3>1
    <3>3. SyncCovered' /\ AsyncCovered'
      BY <3>1
    <3>4. ParkedIsKnown' /\ AwaitingIsKnown'
      BY <3>1
    <3> QED BY <3>2, <3>3, <3>4
  <2> QED BY <2>1, <2>2
<1>7. ASSUME NEW t \in Tasks, AsyncPush(t) PROVE Waiting'
  BY <1>7 DEF AsyncPush, Unreferenced
<1>8. ASSUME NEW t \in Tasks, AwaitWoken(t) \/ AwaitCancelled(t) PROVE Waiting'
  <2>1. PICK p \in {"async", "idle"} : pc' = [pc EXCEPT ![t] = p]
    BY <1>8 DEF AwaitWoken, AwaitCancelled
  <2>2. /\ pc[t] = "await" /\ DropWait(t)
        /\ UNCHANGED <<wordVars, syncVars, asyncVars, kind, turn, token, wakeVars>>
    BY <1>8 DEF AwaitWoken, AwaitCancelled, DropWait
  <2>3. AwaitingIsKnown'
    <3>1. ASSUME NEW u \in Tasks, u # t, pc[u] = "await"
          PROVE  wait'[u] = wait[u] /\ wstate'[wait[u]] = wstate[wait[u]]
      BY <2>2, <3>1 DEF DropWait
    <3>2. \A u \in Tasks : u # t => wait'[u] = wait[u] /\ pc'[u] = pc[u]
      BY <2>1, <2>2 DEF DropWait
    <3>3. wait'[t] = None /\ pc'[t] # "await"
      BY <2>1, <2>2 DEF DropWait
    <3> QED BY <2>2, <3>1, <3>2, <3>3
  <2>4. SpinHeld' /\ TakenByUnlocker' /\ ParkedIsKnown'
    BY <2>1, <2>2
  <2>5. SyncCovered' /\ AsyncCovered'
    BY <2>1, <2>2
  <2> QED BY <2>3, <2>4, <2>5
<1>9. ASSUME NEW a \in Actors, ReleaseRead(a) PROVE Waiting'
  BY <1>9 DEF ReleaseRead
<1>10. ASSUME NEW a \in Actors, ReleaseWrite(a) PROVE Waiting'
  BY <1>10 DEF ReleaseWrite
<1>11. ASSUME NEW a \in Actors, TakeSync(a) PROVE Waiting'
  BY <1>11 DEF TakeSync
<1>12. ASSUME NEW a \in Actors, Unpark(a) PROVE Waiting'
  BY <1>12 DEF Unpark
<1>13. ASSUME NEW a \in Actors, TakeAsync(a) PROVE Waiting'
  BY <1>13 DEF TakeAsync
<1>14. ASSUME NEW a \in Actors, Wake(a) PROVE Waiting'
  BY <1>14 DEF Wake
<1>15. ASSUME NEW a \in Actors, NextTurn(a) PROVE Waiting'
  <2>1. /\ pc[a] = "wake" /\ wakes[a] = {}
        /\ turn' = [turn EXCEPT ![a] = "write"]
        /\ UNCHANGED <<wordVars, syncVars, asyncVars, kind, token, wakeVars, waitVars>>
    BY <1>15 DEF NextTurn
  <2>2. pc' = [pc EXCEPT ![a] = IF turn[a] = "read" THEN "take_sync" ELSE "idle"]
    BY <1>15 DEF NextTurn
  <2>3. SpinHeld' /\ TakenByUnlocker'
    BY <2>1, <2>2
  <2>4. SyncCovered' /\ AsyncCovered'
    <3>1. CASE turn[a] = "read"
      BY <2>1, <2>2, <3>1
    <3>2. CASE turn[a] = "write"
      BY <2>1, <2>2, <3>2
    <3> QED BY <3>1, <3>2
  <2>5. ParkedIsKnown' /\ AwaitingIsKnown'
    BY <2>1, <2>2
  <2> QED BY <2>3, <2>4, <2>5
<1>16. CASE UNCHANGED vars
  BY <1>16 DEF vars
<1> HIDE DEF IInv, TypeOK, Waiting, SpinHeld, SyncCovered, AsyncCovered,
        TakenByUnlocker, ParkedIsKnown, AwaitingIsKnown, ToTakeSync, ToTakeAsync,
        Available, Actors, Kinds, PCs, Goto
<1> QED
  BY <1>1, <1>2, <1>3, <1>4, <1>5, <1>6, <1>7, <1>8, <1>9, <1>10, <1>11, <1>12,
     <1>13, <1>14, <1>15, <1>16
  DEF Next, Locking, Awaiting, Release, Unlocking, Finished

\* The inductive invariant holds in every reachable state.
THEOREM Invariance == Spec => []IInv
<1>1. IInv /\ [Next]_vars => IInv'
  BY TypeStep, ExclusionStep, WaitingStep DEF IInv, Waiting
<1> QED BY InitInv, <1>1, PTL DEF Spec

\* The variables always have their types; the reader count never underflows.
THEOREM RwLockTypes == Spec => []TypeOK
<1>1. IInv => TypeOK
  BY DEF IInv
<1> QED BY Invariance, <1>1, PTL

\* A writer excludes everybody, readers exclude writers, and the state word is
\* exactly the writer bit and the number of readers.
THEOREM RwLockExcludes == Spec => []Exclusion
<1>1. IInv => Exclusion
  BY DEF IInv
<1> QED BY Invariance, <1>1, PTL

\* No wake-up is lost: nobody sleeps while its kind of lock is available and
\* no unlocker is on the way.
THEOREM NoLostWakeup == Spec => []NoSleepWhenAvailable
<1>1. IInv => NoSleepWhenAvailable
  <2> SUFFICES ASSUME IInv, NEW k \in Kinds, Available(k), ~Coming(k),
                      NEW a \in Actors, kind[a] = k
               PROVE  /\ pc[a] = "park" => token[a]
                      /\ pc[a] = "await" => wstate[wait[a]] = "woken"
    BY DEF NoSleepWhenAvailable
  <2>1. syncList[k] = {} /\ asyncList[k] = {}
    BY DEF IInv, TypeOK, SyncCovered, AsyncCovered, ToTakeSync, ToTakeAsync, Coming, Kinds
  <2>2. \A b \in Actors : turn[b] = k => unparks[b] = {} /\ wakes[b] = {}
    BY DEF IInv, TakenByUnlocker, Coming
  <2>3. a \in Threads => (pc[a] = "park" => token[a]) /\ pc[a] # "await"
    BY <2>1, <2>2 DEF IInv, SpinHeld, ParkedIsKnown
  <2>4. a \in Tasks => (pc[a] = "await" => wstate[wait[a]] = "woken") /\ pc[a] # "park"
    BY <2>1, <2>2 DEF IInv, SpinHeld, AwaitingIsKnown
  <2> QED BY <2>3, <2>4 DEF Actors
<1> QED BY Invariance, <1>1, PTL
(***************************************************************************)
(* The refinement.                                                         *)
(***************************************************************************)

\* Moving one actor's program counter moves its state in the abstract lock.
LEMMA PhaseMoves ==
  ASSUME TypeOK, NEW a \in Actors, NEW p \in PCs, Goto(a, p)
  PROVE  St' = [St EXCEPT ![a] = Phase(p)]
  BY DEF TypeOK, Goto, St

\* The abstract lock admits whom the state word does.
LEMMA AvailableAdmits ==
  ASSUME Exclusion, NEW k \in Kinds, Available(k)
  PROVE  Abstract!Admits(k)
<1>1. \A j \in Kinds : Abstract!In(j) = Holding(j)
  <2>1. ASSUME NEW a \in Actors PROVE St[a] = "in" <=> pc[a] = "holding"
    BY DEF St, Phase
  <2> QED BY <2>1 DEF Abstract!In, Holding
<1>2. Holding("write") = {}
  BY DEF Available, Exclusion
<1>3. k = "write" => Holding("read") = {}
  <2>1. IsFiniteSet(Holding("read"))
    BY RwLockAssumption, FS_Subset DEF Holding, Actors
  <2> QED BY <2>1, FS_EmptySet DEF Available, Exclusion
<1> QED BY <1>1, <1>2, <1>3 DEF Abstract!Admits, Kinds

\* A step of the lock is a step of the abstract lock or leaves it unchanged.
LEMMA StepRefines ==
  ASSUME IInv, [Next]_vars
  PROVE  [Abstract!Next]_<<St, kind>>
<1> USE DEF Abstract!Next, Kinds
<1>0. TypeOK /\ Exclusion
  BY DEF IInv
<1>1. ASSUME NEW a \in Actors, NEW p \in PCs, Goto(a, p), Phase(p) = Phase(pc[a]),
             UNCHANGED kind
      PROVE  UNCHANGED <<St, kind>>
  BY <1>0, <1>1, PhaseMoves DEF St, TypeOK
<1>2. ASSUME NEW a \in Actors, NEW k \in Kinds, Phase(pc[a]) # "in", Acquire(a, k),
             Phase(pc[a]) = "asking" => k = kind[a], kind' = [kind EXCEPT ![a] = k]
      PROVE  Abstract!Next
  <2>1. St' = [St EXCEPT ![a] = "in"] /\ St[a] = Phase(pc[a])
    BY <1>0, <1>2, PhaseMoves DEF Acquire, Phase, PCs, St
  <2>2. Abstract!Admits(k)
    BY <1>0, <1>2, AvailableAdmits DEF Acquire
  <2>3. Abstract!Enter(a)
    BY <1>2, <2>1, <2>2 DEF Abstract!Enter
  <2> QED BY <2>3
<1>3. ASSUME NEW a \in Actors, Phase(pc[a]) = "asking", Acquire(a, kind[a]), UNCHANGED kind
      PROVE  Abstract!Next
  <2>1. kind[a] \in Kinds /\ kind' = [kind EXCEPT ![a] = kind[a]]
    BY <1>0, <1>3 DEF TypeOK
  <2> QED BY <1>3, <2>1, <1>2
<1>4. ASSUME NEW a \in Actors, Begin(a) PROVE Abstract!Next
  <2>1. ASSUME NEW k \in Kinds, TryLock(a, k) PROVE Abstract!Next
    <3>1. CASE Acquire(a, k)
      BY <2>1, <3>1, <1>2 DEF TryLock, Count, Phase
    <3>2. CASE UNCHANGED <<wordVars, pc>>
      <4>1. Abstract!Refuse(a)
        BY <2>1, <3>2 DEF TryLock, Count, Phase, St, Abstract!Refuse
      <4> QED BY <4>1
    <3> QED BY <2>1, <3>1, <3>2 DEF TryLock
  <2>2. ASSUME NEW k \in Kinds, NEW p \in {"spin", "block", "async"}, Call(a, k, p)
        PROVE  Abstract!Next
    <3>1. St' = [St EXCEPT ![a] = "asking"]
      BY <1>0, <2>2, PhaseMoves DEF Call, Phase, PCs
    <3>2. St[a] = "out" /\ kind' = [kind EXCEPT ![a] = k]
      BY <2>2 DEF Call, Count, Phase, St
    <3> QED BY <3>1, <3>2 DEF Abstract!Ask
  <2> QED BY <1>4, <2>1, <2>2, BeginCases
<1>5. ASSUME NEW a \in Actors, Release(a) PROVE Abstract!Next
  <2>1. pc[a] = "holding" /\ Goto(a, "take_sync") /\ UNCHANGED kind
    BY <1>5 DEF Release, ReleaseRead, ReleaseWrite
  <2>2. St' = [St EXCEPT ![a] = "out"] /\ St[a] = "in"
    BY <1>0, <2>1, PhaseMoves DEF Phase, PCs, St
  <2> QED BY <2>1, <2>2 DEF Abstract!Leave
<1>6. ASSUME NEW a \in Actors, Unlocking(a) PROVE UNCHANGED <<St, kind>>
  <2>1. CASE Unpark(a) \/ Wake(a)
    BY <2>1 DEF Unpark, Wake, St
  <2>2. CASE TakeSync(a) \/ TakeAsync(a) \/ NextTurn(a)
    <3>1. /\ Phase(pc[a]) = "out" /\ UNCHANGED kind
          /\ \E p \in {"take_sync", "unpark", "wake", "idle"} : Goto(a, p)
      BY <2>2 DEF TakeSync, TakeAsync, NextTurn, Phase
    <3> QED BY <3>1, <1>1 DEF Phase, PCs
  <2> QED BY <1>6, <2>1, <2>2 DEF Unlocking
<1>7. ASSUME NEW t \in Threads, Locking(t) \/ ParkSpurious(t)
      PROVE  [Abstract!Next]_<<St, kind>>
  <2>0. t \in Actors
    BY DEF Actors
  <2>1. CASE Acquire(t, kind[t]) /\ (SpinTry(t) \/ BlockTry(t))
    BY <2>0, <2>1, <1>3 DEF SpinTry, BlockTry, Phase
  <2>2. CASE BlockTry(t) /\ ~Acquire(t, kind[t])
    BY <2>0, <2>2, <1>1 DEF BlockTry, Phase, PCs
  <2>3. CASE BlockPush(t) \/ ParkToken(t) \/ ParkSpurious(t)
    BY <2>0, <2>3, <1>1 DEF BlockPush, ParkToken, ParkSpurious, Phase, PCs
  <2> QED BY <1>7, <2>1, <2>2, <2>3 DEF Locking, SpinTry
<1>8. ASSUME NEW t \in Tasks, Awaiting(t) \/ AwaitCancelled(t)
      PROVE  [Abstract!Next]_<<St, kind>>
  <2>0. t \in Actors
    BY DEF Actors
  <2>1. CASE AsyncTry(t) /\ Acquire(t, kind[t])
    BY <2>0, <2>1, <1>3 DEF AsyncTry, Phase
  <2>2. CASE AsyncTry(t) /\ ~Acquire(t, kind[t])
    BY <2>0, <2>2, <1>1 DEF AsyncTry, Phase, PCs
  <2>3. CASE AsyncPush(t) \/ AwaitWoken(t)
    BY <2>0, <2>3, <1>1 DEF AsyncPush, AwaitWoken, DropWait, Phase, PCs
  <2>4. CASE AwaitCancelled(t)
    <3>1. pc[t] = "await" /\ Goto(t, "idle") /\ UNCHANGED kind
      BY <2>4 DEF AwaitCancelled, DropWait
    <3>2. St' = [St EXCEPT ![t] = "out"] /\ St[t] = "asking"
      BY <1>0, <2>0, <3>1, PhaseMoves DEF Phase, PCs, St
    <3> QED BY <2>0, <3>1, <3>2 DEF Abstract!GiveUp
  <2> QED BY <1>8, <2>1, <2>2, <2>3, <2>4 DEF Awaiting
<1>9. CASE UNCHANGED vars
  BY <1>9 DEF vars, St
<1> QED BY <1>4, <1>5, <1>6, <1>7, <1>8, <1>9 DEF Next, Finished

\* The lock implements the abstract read-preferring lock: whatever the strategies
\* do, a caller is let in only when its kind is admitted, only after it has asked
\* or by one immediate try, and nobody leaves who is not in.
THEOREM RwLockRefines == Spec => Abstract!SafeSpec
<1>1. Init => Abstract!Init
  BY DEF Init, Abstract!Init, St, Phase
<1>2. IInv /\ [Next]_vars => [Abstract!Next]_<<St, kind>>
  BY StepRefines
<1>3. Abstract!v = <<St, kind>>
  BY DEF Abstract!v
<1> QED BY Invariance, <1>1, <1>2, <1>3, PTL DEF Spec, Abstract!SafeSpec, Abstract!v
=============================================================================
