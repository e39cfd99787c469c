--------------------------- MODULE CondvarProofs ---------------------------
(* The steps of the condition variable keep CondInv, whatever its client     *)
(* does in between; the client modules build their proofs on these lemmas.   *)
EXTENDS Condvar, TLAPS

\* The condition variable starts empty.
LEMMA CondInitInv ==
  ASSUME NEW C, "idle" \in C, CondInit
  PROVE  CondInv(C)
<1> USE CondvarAssumption DEF CondInit, Actors
<1>1. CondTypeOK(C)
  <2>1. \A a \in Actors : taken[a] \in SUBSET (Threads \cup Waits)
    OBVIOUS
  <2>2. taken \in [Actors -> SUBSET (Threads \cup Waits)]
    BY <2>1
  <2> QED BY <2>2 DEF CondTypeOK
<1>2. NoLeakedEntry
  BY DEF NoLeakedEntry
<1>3. EntriesMatch
  BY DEF EntriesMatch
<1> QED BY <1>1, <1>2, <1>3 DEF CondInv

\* Registering and falling asleep.
LEMMA RegisterKeeps ==
  ASSUME NEW C, CondInv(C), NEW a \in Actors, Register(a) \/ DropGuard(a)
  PROVE  CondInv(C)'
<1> USE CondvarAssumption DEF CondInv, Actors
<1>1. CASE RegisterSpin(a)
  <2>1. CondTypeOK(C)'
    BY <1>1 DEF RegisterSpin, CondTypeOK, WaitPCs, Goto, syncVars, asyncVars, callVars
  <2>2. NoLeakedEntry'
    BY <1>1 DEF RegisterSpin, CondTypeOK, Goto, syncVars, NoLeakedEntry
  <2>3. EntriesMatch'
    BY <1>1 DEF RegisterSpin, CondTypeOK, Goto, syncVars, callVars, EntriesMatch,
       NoLeakedEntry
  <2> QED BY <2>1, <2>2, <2>3
<1>2. CASE RegisterBlock(a)
  <2>1. CondTypeOK(C)'
    BY <1>2 DEF RegisterBlock, CondTypeOK, WaitPCs, Goto, spinVars, asyncVars, callVars
  <2>2. NoLeakedEntry'
    BY <1>2 DEF RegisterBlock, CondTypeOK, Goto, spinVars, NoLeakedEntry
  <2>3. EntriesMatch'
    BY <1>2 DEF RegisterBlock, CondTypeOK, Goto, spinVars, callVars, EntriesMatch
  <2> QED BY <2>1, <2>2, <2>3
<1>3. CASE RegisterAsync(a)
  <2>1. PICK w \in Waits : /\ asyncList' = asyncList \cup {w}
                           /\ wait' = [wait EXCEPT ![a] = w]
                           /\ wstate' = [wstate EXCEPT ![w] = "waiting"]
    BY <1>3 DEF RegisterAsync
  <2>2. CondTypeOK(C)'
    BY <1>3, <2>1 DEF RegisterAsync, CondTypeOK, WaitPCs, Goto, spinVars, syncVars, callVars
  <2>3. NoLeakedEntry' /\ EntriesMatch'
    BY <1>3 DEF RegisterAsync, CondTypeOK, Goto, spinVars, syncVars, callVars,
       NoLeakedEntry, EntriesMatch
  <2> QED BY <2>2, <2>3
<1>4. CASE DropGuard(a)
  <2>1. CondTypeOK(C)'
    BY <1>4 DEF DropGuard, CondTypeOK, WaitPCs, Goto, Asleep, spinVars, syncVars,
       asyncVars, callVars
  <2>2. NoLeakedEntry' /\ EntriesMatch'
    BY <1>4 DEF DropGuard, CondTypeOK, Goto, Asleep, spinVars, syncVars, callVars,
       NoLeakedEntry, EntriesMatch
  <2> QED BY <2>1, <2>2
<1> QED BY <1>1, <1>2, <1>3, <1>4 DEF Register

\* The wake-up of a spinning wait.
LEMMA SpinWaitKeeps ==
  ASSUME NEW C, CondInv(C), NEW a \in Actors, SpinWait(a)
  PROVE  CondInv(C)'
<1> USE CondvarAssumption DEF CondInv, Actors
<1>1. CASE SpinWoken(a) \/ SpinExpired(a)
  <2>1. CondTypeOK(C)'
    BY <1>1 DEF SpinWoken, SpinExpired, CondTypeOK, WaitPCs, Goto, spinVars, syncVars,
       asyncVars, callVars
  <2>2. NoLeakedEntry' /\ EntriesMatch'
    BY <1>1 DEF SpinWoken, SpinExpired, CondTypeOK, Goto, spinVars, syncVars, callVars,
       NoLeakedEntry, EntriesMatch
  <2> QED BY <2>1, <2>2
<1>2. CASE SpinRemove(a)
  <2>1. CondTypeOK(C)'
    BY <1>2 DEF SpinRemove, CondTypeOK, WaitPCs, Goto, syncVars, asyncVars, callVars
  <2>2. NoLeakedEntry'
    BY <1>2 DEF SpinRemove, CondTypeOK, Goto, syncVars, NoLeakedEntry
  <2>3. EntriesMatch'
    BY <1>2 DEF SpinRemove, CondTypeOK, Goto, syncVars, callVars, EntriesMatch
  <2> QED BY <2>1, <2>2, <2>3
<1> QED BY <1>1, <1>2 DEF SpinWait

\* The wake-up of a parked wait.
LEMMA ParkWaitKeeps ==
  ASSUME NEW C, CondInv(C), NEW a \in Actors, ParkWait(a) \/ ParkSpurious(a)
  PROVE  CondInv(C)'
<1> USE CondvarAssumption DEF CondInv, Actors
<1>1. CASE ParkToken(a) \/ ParkTimesOut(a) \/ ParkSpurious(a)
  <2>1. CondTypeOK(C)'
    <3>1. pc' = [pc EXCEPT ![a] = "check"]
      BY <1>1 DEF ParkToken, ParkTimesOut, ParkSpurious, Goto
    <3>2. token' = token \/ token' = [token EXCEPT ![a] = FALSE]
      BY <1>1 DEF ParkToken, ParkTimesOut, ParkSpurious, syncVars
    <3>3. token' \in [Threads -> BOOLEAN]
      BY <3>2 DEF CondTypeOK
    <3>4. UNCHANGED <<holder, spinVars, syncList, asyncVars, callVars, gaveUp, taken>>
      BY <1>1 DEF ParkToken, ParkTimesOut, ParkSpurious, syncVars
    <3> QED BY <3>1, <3>3, <3>4 DEF CondTypeOK, WaitPCs, spinVars, asyncVars, callVars
  <2>2. NoLeakedEntry' /\ EntriesMatch'
    BY <1>1 DEF ParkToken, ParkTimesOut, ParkSpurious, CondTypeOK, Goto, spinVars,
       syncVars, callVars, NoLeakedEntry, EntriesMatch
  <2> QED BY <2>1, <2>2
<1>2. CASE CheckList(a)
  <2>1. CondTypeOK(C)'
    BY <1>2 DEF CheckList, CondTypeOK, WaitPCs, Goto, spinVars, asyncVars, callVars
  <2>2. NoLeakedEntry' /\ EntriesMatch'
    BY <1>2 DEF CheckList, CondTypeOK, Goto, spinVars, callVars, NoLeakedEntry,
       EntriesMatch
  <2> QED BY <2>1, <2>2
<1>3. CASE CheckDeadline(a)
  <2>1. CondTypeOK(C)'
    <3>1. syncList' \in SUBSET CanPark
      BY <1>3 DEF CheckDeadline, CondTypeOK
    <3>2. gaveUp' \in [Actors -> BOOLEAN]
      <4>1. CASE late[a]
        <5>1. gaveUp' = [gaveUp EXCEPT ![a] = a \in syncList]
          BY <1>3, <4>1 DEF CheckDeadline
        <5>2. gaveUp \in [Actors -> BOOLEAN] /\ (a \in syncList) \in BOOLEAN
          BY DEF CondTypeOK
        <5> QED BY <5>1, <5>2
      <4>2. CASE ~late[a]
        BY <1>3, <4>2 DEF CheckDeadline, CondTypeOK
      <4> QED BY <4>1, <4>2
    <3>3. \E p \in {"relock", "park"} : pc' = [pc EXCEPT ![a] = p]
      BY <1>3 DEF CheckDeadline, Goto
    <3>4. pc' \in [Actors -> WaitPCs \cup NotifyPCs \cup C]
      BY <3>3 DEF CondTypeOK, WaitPCs
    <3>5. UNCHANGED <<holder, spinVars, token, asyncVars, callVars, taken>>
      BY <1>3 DEF CheckDeadline
    <3> QED BY <3>1, <3>2, <3>4, <3>5 DEF CondTypeOK, spinVars, asyncVars, callVars
  <2>2. NoLeakedEntry'
    BY <1>3 DEF CheckDeadline, CondTypeOK, Goto, spinVars, NoLeakedEntry
  <2>3. EntriesMatch'
    BY <1>3 DEF CheckDeadline, CondTypeOK, Goto, spinVars, callVars, EntriesMatch
  <2> QED BY <2>1, <2>2, <2>3
<1> QED BY <1>1, <1>2, <1>3 DEF ParkWait

\* The wake-up, time-out and cancellation of an async wait, and the rest of
\* what a waiter does.
LEMMA AsyncWaitKeeps ==
  ASSUME NEW C, "idle" \in C, CondInv(C), NEW a \in Actors,
         \/ AsyncWait(a) \/ Relock(a) \/ DeadlinePasses(a)
         \/ a \in Tasks /\ WaitDropped(a)
  PROVE  CondInv(C)'
<1> USE CondvarAssumption DEF CondInv, Actors
<1>1. CASE AwaitWoken(a) \/ AwaitTimedOut(a) \/ Forget(a)
  <2>1. CondTypeOK(C)'
    <3>1. \E p \in {"relock", "forget", "spin_list"} : pc' = [pc EXCEPT ![a] = p]
      BY <1>1 DEF AwaitWoken, AwaitTimedOut, Forget, Goto
    <3>2. gaveUp' = gaveUp \/ gaveUp' = [gaveUp EXCEPT ![a] = TRUE]
      BY <1>1 DEF AwaitWoken, AwaitTimedOut, Forget
    <3>3. gaveUp' \in [Actors -> BOOLEAN]
      BY <3>2 DEF CondTypeOK
    <3>4. wait' = wait \/ wait' = [wait EXCEPT ![a] = None]
      BY <1>1 DEF AwaitWoken, AwaitTimedOut, Forget
    <3>5. asyncList' \in SUBSET Waits
      BY <1>1 DEF AwaitWoken, AwaitTimedOut, Forget, CondTypeOK
    <3>6. wstate' \in [Waits -> {"waiting", "woken", "canceled"}]
      BY <1>1 DEF AwaitWoken, AwaitTimedOut, Forget, Cancel, CondTypeOK
    <3>7. UNCHANGED <<holder, spinVars, syncVars, callVars, taken>>
      BY <1>1 DEF AwaitWoken, AwaitTimedOut, Forget
    <3>8. pc' \in [Actors -> WaitPCs \cup NotifyPCs \cup C]
      BY <3>1 DEF CondTypeOK, WaitPCs, NotifyPCs
    <3>9. wait' \in [Tasks -> Waits \cup {None}]
      BY <3>4 DEF CondTypeOK
    <3> QED BY <3>3, <3>5, <3>6, <3>7, <3>8, <3>9 DEF CondTypeOK, spinVars, syncVars, callVars
  <2>2. NoLeakedEntry' /\ EntriesMatch'
    BY <1>1 DEF AwaitWoken, AwaitTimedOut, Forget, CondTypeOK, Goto, spinVars,
       syncVars, callVars, NoLeakedEntry, EntriesMatch
  <2> QED BY <2>1, <2>2
<1>2. CASE Relock(a)
  <2>1. CondTypeOK(C)'
    BY <1>2 DEF Relock, CondTypeOK, WaitPCs, Goto, spinVars, asyncVars, callVars
  <2>2. NoLeakedEntry' /\ EntriesMatch'
    BY <1>2 DEF Relock, CondTypeOK, Goto, spinVars, callVars, NoLeakedEntry, EntriesMatch
  <2> QED BY <2>1, <2>2
<1>3. CASE DeadlinePasses(a)
  <2>1. CondTypeOK(C)'
    BY <1>3 DEF DeadlinePasses, CondTypeOK, spinVars, syncVars, asyncVars
  <2>2. NoLeakedEntry' /\ EntriesMatch'
    BY <1>3 DEF DeadlinePasses, spinVars, syncVars, NoLeakedEntry, EntriesMatch
  <2> QED BY <2>1, <2>2
<1>4. CASE a \in Tasks /\ WaitDropped(a)
  <2>1. CondTypeOK(C)'
    BY <1>4 DEF WaitDropped, Cancel, CondTypeOK, Goto, spinVars, syncVars, callVars
  <2>2. NoLeakedEntry' /\ EntriesMatch'
    BY <1>4 DEF WaitDropped, CondTypeOK, Goto, spinVars, syncVars, callVars,
       NoLeakedEntry, EntriesMatch
  <2> QED BY <2>1, <2>2
<1> QED BY <1>1, <1>2, <1>3, <1>4 DEF AsyncWait

\* The steps of a notifier.
LEMMA NotifyKeeps ==
  ASSUME NEW C, "notified" \in C, CondInv(C), NEW a \in Actors, NotifyStep(a)
  PROVE  CondInv(C)'
<1> USE CondvarAssumption DEF CondInv, Actors
<1>0. \A S : \A p \in {"store", "unpark", "wake"}, n \in NotifyPCs :
        After(a, S, p, n) \in WaitPCs \cup NotifyPCs \cup C
  BY DEF After, NotifyDone, WaitPCs, NotifyPCs
<1>1. CASE TakeSpin(a)
  <2>1. CASE spinList = {}
    <3>1. CondTypeOK(C)'
      BY <1>1, <2>1 DEF TakeSpin, CondTypeOK, NotifyPCs, Goto, syncVars, asyncVars, callVars
    <3>2. NoLeakedEntry' /\ EntriesMatch'
      BY <1>1, <2>1 DEF TakeSpin, CondTypeOK, Goto, syncVars, callVars, NoLeakedEntry,
         EntriesMatch
    <3> QED BY <3>1, <3>2
  <2>2. CASE spinList # {}
    <3>1. PICK S \in SUBSET spinList :
            /\ taken' = [taken EXCEPT ![a] = S] /\ spinList' = spinList \ S
            /\ pc' = [pc EXCEPT ![a] = "store"]
      BY <1>1, <2>2 DEF TakeSpin, Picks, Goto
    <3>2. pc[a] = "spin_list" /\ UNCHANGED <<holder, flag, syncVars, asyncVars, callVars, gaveUp>>
      BY <1>1 DEF TakeSpin
    <3>3. CondTypeOK(C)'
      BY <3>1, <3>2 DEF CondTypeOK, NotifyPCs, syncVars, asyncVars, callVars
    <3>4. NoLeakedEntry'
      BY <3>1, <3>2 DEF CondTypeOK, syncVars, NoLeakedEntry
    <3>5. EntriesMatch'
      <4>1. ASSUME NEW t \in S
            PROVE  /\ t \in Threads \ spinList' /\ how'[t] = "spin" /\ ~flag'[t]
                   /\ pc'[t] \in {"unlock", "spin", "spin_expired", "spin_flag"}
                   /\ \A b \in Actors : pc[b] = "store" => t \notin taken[b]
        BY <3>1, <3>2 DEF CondTypeOK, callVars, NoLeakedEntry, EntriesMatch
      <4>2. ASSUME NEW b \in Actors, b # a
            PROVE  taken'[b] = taken[b] /\ pc'[b] = pc[b]
        <5>1. b \in DOMAIN taken /\ b \in DOMAIN pc
          BY DEF CondTypeOK
        <5> QED BY <3>1, <4>2, <5>1
      <4>3. taken'[a] = S
        <5>1. taken' = [taken EXCEPT ![a] = S] /\ a \in DOMAIN taken
          BY <3>1 DEF CondTypeOK
        <5> QED BY <5>1
      <4>4. \A b \in Actors : pc[b] = "store" => b # a
        BY <3>2
      <4> QED BY <3>1, <3>2, <4>1, <4>2, <4>3, <4>4 DEF callVars, syncVars, CondTypeOK, EntriesMatch
    <3> QED BY <3>3, <3>4, <3>5
  <2> QED BY <2>1, <2>2
<1>2. CASE Store(a)
  <2>1. PICK t \in taken[a], p \in WaitPCs \cup NotifyPCs \cup C :
          /\ flag' = [flag EXCEPT ![t] = TRUE]
          /\ taken' = [taken EXCEPT ![a] = @ \ {t}]
          /\ pc' = [pc EXCEPT ![a] = p]
    BY <1>0, <1>2 DEF Store, Goto, NotifyPCs
  <2>2. pc[a] = "store"
        /\ UNCHANGED <<holder, spinList, syncVars, asyncVars, callVars, gaveUp>>
    BY <1>2 DEF Store
  <2>3. flag' \in [Threads -> BOOLEAN]
    BY <2>1 DEF CondTypeOK
  <2>4. CondTypeOK(C)'
    BY <2>1, <2>2, <2>3 DEF CondTypeOK, syncVars, asyncVars, callVars
  <2>5. NoLeakedEntry'
    BY <2>1, <2>2 DEF CondTypeOK, syncVars, NoLeakedEntry
  <2>6. EntriesMatch'
    BY <2>1, <2>2 DEF CondTypeOK, syncVars, callVars, EntriesMatch
  <2> QED BY <2>4, <2>5, <2>6
<1>3. CASE TakeSync(a) \/ TakeAsync(a)
  <2>1. PICK p \in WaitPCs \cup NotifyPCs \cup C : p # "store" /\ pc' = [pc EXCEPT ![a] = p]
    BY <1>3 DEF TakeSync, TakeAsync, NotifyDone, Goto, WaitPCs, NotifyPCs
  <2>2. /\ pc[a] \in {"sync_list", "async_list"}
        /\ syncList' \subseteq syncList /\ asyncList' \subseteq asyncList
        /\ UNCHANGED <<holder, spinVars, token, wait, wstate, callVars, gaveUp>>
    BY <1>3 DEF TakeSync, TakeAsync, Picks, syncVars, asyncVars
  <2>3. taken' = taken \/ \E S \in SUBSET (syncList \cup asyncList) :
                             taken' = [taken EXCEPT ![a] = S]
    BY <1>3 DEF TakeSync, TakeAsync, Picks
  <2>4. CondTypeOK(C)'
    BY <2>1, <2>2, <2>3 DEF CondTypeOK, spinVars, callVars
  <2>5. NoLeakedEntry'
    BY <2>1, <2>2 DEF CondTypeOK, spinVars, NoLeakedEntry
  <2>6. \A b \in Actors : pc'[b] = "store" => pc[b] = "store" /\ taken'[b] = taken[b]
    BY <2>1, <2>2, <2>3 DEF CondTypeOK
  <2>7. EntriesMatch'
    BY <2>1, <2>2, <2>6 DEF CondTypeOK, spinVars, callVars, EntriesMatch
  <2> QED BY <2>4, <2>5, <2>7
<1>4. CASE Unpark(a) \/ Wake(a)
  <2>1. PICK p \in WaitPCs \cup NotifyPCs \cup C : p # "store" /\ pc' = [pc EXCEPT ![a] = p]
    BY <1>4 DEF Unpark, Wake, After, NotifyDone, Goto, WaitPCs, NotifyPCs
  <2>2. pc[a] \in {"unpark", "wake"}
        /\ UNCHANGED <<holder, spinVars, syncList, asyncList, wait, callVars, gaveUp>>
    BY <1>4 DEF Unpark, Wake, syncVars, asyncVars
  <2>3. \E x : taken' = [taken EXCEPT ![a] = @ \ {x}]
    BY <1>4 DEF Unpark, Wake
  <2>4. token' \in [Threads -> BOOLEAN]
    BY <1>4 DEF Unpark, Wake, CondTypeOK, syncVars
  <2>5. wstate' \in [Waits -> {"waiting", "woken", "canceled"}]
    BY <1>4 DEF Unpark, Wake, CondTypeOK, asyncVars
  <2>6. CondTypeOK(C)'
    BY <2>1, <2>2, <2>3, <2>4, <2>5 DEF CondTypeOK, spinVars, callVars
  <2>7. NoLeakedEntry'
    BY <2>1, <2>2 DEF CondTypeOK, spinVars, NoLeakedEntry
  <2>8. \A b \in Actors : pc'[b] = "store" => pc[b] = "store" /\ taken'[b] = taken[b]
    BY <2>1, <2>2, <2>3 DEF CondTypeOK
  <2>9. EntriesMatch'
    BY <2>1, <2>2, <2>8 DEF CondTypeOK, spinVars, callVars, EntriesMatch
  <2> QED BY <2>6, <2>7, <2>9
<1> QED BY <1>1, <1>2, <1>3, <1>4 DEF NotifyStep

\* A step of a client, whose places C are its own, that leaves the lists alone
\* and moves an actor that is not registered.
LEMMA ClientKeeps ==
  ASSUME NEW C, C \cap (WaitPCs \cup NotifyPCs) = {}, CondInv(C), NEW a \in Actors,
         NEW p \in C \cup {"spin_list", "relock", "register", "test"},
         pc[a] \in C \cup {"test", "timedout"}, Goto(a, p),
         UNCHANGED <<spinVars, syncVars, asyncVars, taken>>,
         holder' \in Actors \cup {None},
         how' = how \/ \E h \in {"spin", "block", "async"} : how' = [how EXCEPT ![a] = h],
         timed' \in [Actors -> BOOLEAN], late' \in [Actors -> BOOLEAN],
         gaveUp' \in [Actors -> BOOLEAN], all' \in [Actors -> BOOLEAN]
  PROVE  CondInv(C)'
<1> USE CondvarAssumption DEF CondInv
<1>0. pc[a] \notin {"unlock", "spin", "spin_expired", "spin_flag", "park", "deadline",
                   "check", "store"}
      /\ p # "store"
  BY DEF WaitPCs, NotifyPCs
<1>1. CondTypeOK(C)'
  BY DEF CondTypeOK, WaitPCs, NotifyPCs, Goto, spinVars, syncVars, asyncVars
<1>2. NoLeakedEntry'
  BY <1>0 DEF CondTypeOK, Goto, spinVars, syncVars, NoLeakedEntry
<1>3. EntriesMatch'
  BY <1>0 DEF CondTypeOK, Goto, spinVars, syncVars, NoLeakedEntry, EntriesMatch, Actors
<1> QED BY <1>1, <1>2, <1>3
=============================================================================
