------------------------ MODULE CondvarQueueProofs ------------------------
(* Type correctness of the queue, NoLeakedEntry and NoLostNotify, for any    *)
(* number of consumers, producers, waits and calls.  EntriesMatch is the     *)
(* strengthening NoLeakedEntry needs: a spinning wait leaves its loop when   *)
(* its flag is set, so a flag may only be set for an entry that was popped.  *)
(* NoLostNotify counts: each sleeper has at least as many helpers, consumers *)
(* sure to test or notifiers on their way to its list, as there are items.   *)
(* A helper is only lost with the item it takes, or to another helper.       *)
EXTENDS CondvarQueue, CondvarProofs, FiniteSetTheorems

IInv == TypeOK /\ NoLeakedEntry /\ EntriesMatch

\* A step of a consumer or a producer outside the condition variable.
LEMMA ClientStep ==
  ASSUME CondInv(ClientPCs), NEW a \in Actors,
         NEW p \in {"idle", "spin_list", "relock", "register"},
         pc[a] \in {"idle", "test", "timedout", "notified"}, Goto(a, p),
         UNCHANGED <<spinVars, syncVars, asyncVars, taken>>,
         holder' \in {holder, None},
         how' = how \/ \E h \in {"spin", "block", "async"} : how' = [how EXCEPT ![a] = h],
         timed' \in [Actors -> BOOLEAN], late' \in [Actors -> BOOLEAN],
         gaveUp' \in [Actors -> BOOLEAN], all' \in [Actors -> BOOLEAN]
  PROVE  CondInv(ClientPCs)'
<1>1. ClientPCs \cap (WaitPCs \cup NotifyPCs) = {}
  BY DEF ClientPCs, WaitPCs, NotifyPCs
<1>2. holder' \in Actors \cup {None}
  BY DEF CondInv, CondTypeOK
<1>3. p \in ClientPCs \cup {"spin_list", "relock", "register", "test"}
      /\ pc[a] \in ClientPCs \cup {"test", "timedout"}
  BY DEF ClientPCs
<1> QED BY <1>1, <1>2, <1>3, ClientKeeps

LEMMA QueueInitInv == Init => IInv
  BY CondInitInv, CondvarAssumption, QueueAssumption
  DEF Init, IInv, TypeOK, CondInv, ClientPCs

LEMMA QueueStep == IInv /\ [Next]_vars => IInv'
<1> SUFFICES ASSUME IInv, [Next]_vars PROVE IInv'
  OBVIOUS
<1> USE QueueAssumption DEF IInv, TypeOK
<1>0. CondInv(ClientPCs) /\ items \in Nat /\ ops \in [Actors -> 0..MaxOps]
  BY DEF CondInv
<1>1. ASSUME NEW c \in Waiters, Consume(c) PROVE IInv'
  <2>1. CondInv(ClientPCs)'
    <3>1. PICK h \in {"spin", "block", "async"}, d \in BOOLEAN :
            /\ how' = [how EXCEPT ![c] = h] /\ timed' = [timed EXCEPT ![c] = d]
      BY <1>1 DEF Consume, Strategies
    <3>2. timed' \in [Actors -> BOOLEAN] /\ late' \in [Actors -> BOOLEAN]
      BY <1>1, <3>1 DEF Consume, CondTypeOK
    <3> QED BY <1>0, <1>1, <3>1, <3>2, ClientStep DEF Consume, Count, CondTypeOK
  <2>2. items' \in Nat /\ ops' \in [Actors -> 0..MaxOps]
    BY <1>0, <1>1 DEF Consume, Count
  <2> QED BY <2>1, <2>2 DEF CondInv
<1>2. ASSUME NEW c \in Waiters, Test(c) PROVE IInv'
  <2>1. CondInv(ClientPCs)'
    BY <1>0, <1>2, ClientStep DEF Test, CondTypeOK, callVars
  <2>2. items' \in Nat /\ ops' = ops
    BY <1>0, <1>2 DEF Test
  <2> QED BY <1>0, <2>1, <2>2 DEF CondInv
<1>3. ASSUME NEW c \in Waiters, TimedOut(c) PROVE IInv'
  <2>1. gaveUp' \in [Actors -> BOOLEAN]
    BY <1>3 DEF TimedOut, CondTypeOK
  <2>2. CondInv(ClientPCs)'
    BY <1>0, <1>3, <2>1, ClientStep DEF TimedOut, CondTypeOK, callVars
  <2> QED BY <1>0, <1>3, <2>2 DEF TimedOut, CondInv
<1>4. ASSUME NEW p \in Producers, Produce(p) \/ Notified(p) PROVE IInv'
  <2>1. p \in Actors /\ all' \in [Actors -> BOOLEAN]
    BY <1>4 DEF Produce, Notified, Producers, CondTypeOK, callVars
  <2>2. CondInv(ClientPCs)'
    BY <1>0, <1>4, <2>1, ClientStep DEF Produce, Notified, Count, CondTypeOK, callVars
  <2>3. items' \in Nat /\ ops' \in [Actors -> 0..MaxOps]
    BY <1>0, <1>4, <2>1 DEF Produce, Notified, Count
  <2> QED BY <2>2, <2>3 DEF CondInv
<1>5. ASSUME NEW a \in Actors, UNCHANGED <<items, ops>>,
             \/ WaitStep(a) \/ NotifyStep(a) \/ Relock(a) \/ DeadlinePasses(a)
             \/ ParkSpurious(a) \/ (a \in Tasks /\ WaitDropped(a))
      PROVE  IInv'
  <2>1. "idle" \in ClientPCs /\ "notified" \in ClientPCs
    BY DEF ClientPCs
  <2>2. CondInv(ClientPCs)'
    BY <1>0, <1>5, <2>1, RegisterKeeps, SpinWaitKeeps, ParkWaitKeeps, AsyncWaitKeeps,
       NotifyKeeps DEF WaitStep
  <2> QED BY <1>0, <1>5, <2>2 DEF CondInv
<1>6. ASSUME NEW c \in Waiters, Waiting(c) \/ Locking(c) \/ Passing(c) PROVE IInv'
  BY <1>5, <1>6 DEF Waiting, Locking, Passing
<1>7. ASSUME NEW p \in Producers, Producing(p) PROVE IInv'
  BY <1>4, <1>5, <1>7 DEF Producing, Producers
<1>8. ASSUME NEW t \in Tasks \cap Waiters, Dropping(t) PROVE IInv'
  BY <1>5, <1>8 DEF Dropping, Actors
<1>9. CASE UNCHANGED vars
  <2>1. CondTypeOK(ClientPCs)'
    BY <1>9 DEF vars, condVars, CondTypeOK
  <2>2. NoLeakedEntry' /\ EntriesMatch'
    BY <1>9 DEF vars, condVars, NoLeakedEntry, EntriesMatch
  <2> QED BY <1>9, <2>1, <2>2 DEF vars
<1> QED
  BY <1>1, <1>2, <1>3, <1>4, <1>6, <1>7, <1>8, <1>9 DEF Next, Stuck

\* The inductive invariant holds in every reachable state.
THEOREM QueueInvariance == Spec => []IInv
  BY QueueInitInv, QueueStep, PTL DEF Spec

\* The variables always have their types; in particular no item is taken that
\* is not there.
THEOREM QueueTypes == Spec => []TypeOK
<1>1. IInv => TypeOK
  BY DEF IInv
<1> QED BY QueueInvariance, <1>1, PTL

\* No wait leaves an entry behind that would swallow a later notification,
\* whichever way it ends.
THEOREM NoEntryLeaks == Spec => []NoLeakedEntry
<1>1. IInv => NoLeakedEntry
  BY DEF IInv
<1> QED BY QueueInvariance, <1>1, PTL

(***************************************************************************)
(* Counting helpers.                                                       *)
(***************************************************************************)

LEMMA Counting ==
  ASSUME NEW T, IsFiniteSet(T), NEW H \in SUBSET T, NEW K \in SUBSET T
  PROVE  /\ Cardinality(H) \in Nat /\ Cardinality(K) \in Nat
         /\ H \subseteq K => Cardinality(H) <= Cardinality(K)
         /\ \A a : H \ {a} \subseteq K => Cardinality(H) - 1 <= Cardinality(K)
         /\ \A b : b \notin H /\ b \in K /\ H \subseteq K => Cardinality(H) + 1 <= Cardinality(K)
         /\ \A a, b : b \notin H /\ b \in K /\ H \ {a} \subseteq K
               => Cardinality(H) <= Cardinality(K)
<1>1. IsFiniteSet(H) /\ IsFiniteSet(K) /\ Cardinality(H) \in Nat /\ Cardinality(K) \in Nat
  BY FS_Subset, FS_CardinalityType
<1>2. ASSUME NEW G \in SUBSET K
      PROVE  IsFiniteSet(G) /\ Cardinality(G) \in Nat /\ Cardinality(G) <= Cardinality(K)
  BY <1>1, FS_Subset, FS_CardinalityType
<1>3. ASSUME NEW a
      PROVE  /\ IsFiniteSet(H \ {a}) /\ Cardinality(H \ {a}) \in Nat
             /\ Cardinality(H) <= Cardinality(H \ {a}) + 1
  <2>1. /\ IsFiniteSet(H \ {a})
        /\ Cardinality(H \ {a}) = IF a \in H THEN Cardinality(H) - 1 ELSE Cardinality(H)
    BY <1>1, FS_RemoveElement
  <2>2. Cardinality(H \ {a}) \in Nat
    BY <2>1, FS_CardinalityType
  <2> QED BY <1>1, <2>1, <2>2
<1>4. ASSUME NEW a, H \ {a} \subseteq K PROVE Cardinality(H) - 1 <= Cardinality(K)
  <2>1. Cardinality(H \ {a}) <= Cardinality(K)
    BY <1>2, <1>4
  <2> QED BY <1>1, <1>3, <2>1
<1>5. ASSUME NEW G \in SUBSET H, IsFiniteSet(G), NEW b, b \notin H, b \in K, G \subseteq K
      PROVE  Cardinality(G) + 1 <= Cardinality(K)
  <2>1. G \cup {b} \in SUBSET K /\ Cardinality(G \cup {b}) = Cardinality(G) + 1
    BY <1>5, FS_AddElement
  <2> QED BY <1>2, <2>1
<1>6. ASSUME NEW b, b \notin H, b \in K, H \subseteq K PROVE Cardinality(H) + 1 <= Cardinality(K)
  BY <1>1, <1>5, <1>6
<1>7. ASSUME NEW a, NEW b, b \notin H, b \in K, H \ {a} \subseteq K
      PROVE  Cardinality(H) <= Cardinality(K)
  <2>1. Cardinality(H \ {a}) + 1 <= Cardinality(K)
    BY <1>3, <1>5, <1>7
  <2> QED BY <1>1, <1>3, <2>1
<1> QED BY <1>1, <1>2, <1>4, <1>6, <1>7

(***************************************************************************)
(* What a step of one actor leaves to the others.                          *)
(***************************************************************************)

LEMMA QueueFacts ==
  ASSUME IInv
  PROVE  /\ DOMAIN pc = Actors /\ DOMAIN how = Actors /\ DOMAIN all = Actors
         /\ DOMAIN taken = Actors /\ DOMAIN gaveUp = Actors /\ DOMAIN wait = Tasks
         /\ DOMAIN wstate = Waits /\ asyncList \subseteq Waits
         /\ spinList \subseteq Threads /\ syncList \subseteq Threads
         /\ items \in Nat /\ Tasks \subseteq Actors /\ Threads \subseteq Actors
         /\ Waiters \subseteq Actors /\ Producers = Actors \ Waiters /\ IsFiniteSet(Actors)
         /\ None \notin Actors \cup Waits /\ Threads \cap Waits = {} /\ Threads \cap Tasks = {}
         /\ \A a \in Actors : taken[a] \subseteq Threads \cup Waits
         /\ \A t \in spinList : how[t] = "spin" /\ pc[t] \in {"unlock", "spin", "spin_expired"}
         /\ \A t \in syncList : /\ how[t] = "block"
                                /\ pc[t] \in {"unlock", "park", "deadline", "check"}
  BY QueueAssumption, CondvarAssumption
  DEF IInv, TypeOK, CondTypeOK, Actors, NoLeakedEntry, EntriesMatch, Producers

LEMMA Goes ==
  ASSUME IInv, NEW a \in Actors, NEW p, Goto(a, p)
  PROVE  pc'[a] = p /\ \A b \in Actors \ {a} : pc'[b] = pc[b]
  BY QueueFacts DEF Goto

\* Only a acts, and it makes no entry and no pair.
OnlyActs(a) ==
    /\ \A b \in Actors \ {a} : /\ pc'[b] = pc[b] /\ all'[b] = all[b] /\ how'[b] = how[b]
                               /\ gaveUp'[b] = gaveUp[b] /\ taken'[b] = taken[b]
                               /\ b \in Tasks => wait'[b] = wait[b]
    /\ spinList' \subseteq spinList /\ syncList' \subseteq syncList
    /\ asyncList' \subseteq asyncList
    /\ \A w \in Waits : wstate'[w] = "waiting" => wstate[w] = "waiting"

\* The other helpers of a sleeper go on helping it.
LEMMA OthersHelp ==
  ASSUME IInv, PairsOwned, NEW a \in Actors, OnlyActs(a), NEW c \in Waiters,
         Unnotified(c), Unnotified(c)', how'[c] = how[c]
  PROVE  Helpers(c) \ {a} \subseteq Helpers(c)'
<1> SUFFICES ASSUME NEW b \in Helpers(c), b # a PROVE b \in Helpers(c)'
  OBVIOUS
<1>0. b \in Actors /\ pc'[b] = pc[b] /\ all'[b] = all[b] /\ how'[b] = how[b]
      /\ gaveUp'[b] = gaveUp[b]
      /\ (b \in Tasks => wait'[b] = wait[b])
  BY DEF Helpers, OnlyActs
<1>1. CASE Ahead(b, c)
  <2>1. /\ c \in spinList => c \in spinList'
        /\ c \in syncList => c \in syncList'
    BY QueueFacts DEF Unnotified, OnlyActs
  <2>2. Ahead(b, c)'
    BY <1>0, <1>1, <2>1 DEF Ahead
  <2> QED BY <1>0, <2>2 DEF Helpers
<1>2. CASE b \in Waiters /\ SureToTest(b)
  <2>1. how[b] = "async" => b \in Tasks
    BY <1>0 DEF PairsOwned
  <2>2. ~Unnotified(b)'
    BY <1>0, <1>2, <2>1 DEF Unnotified, OnlyActs, SureToTest, WillTest
  <2>3. ~(pc'[b] \in {"unlock", "await"} /\ how'[b] = "async" /\ wstate'[wait'[b]] = "waiting")
    BY <1>0, <1>2, <2>1 DEF OnlyActs, SureToTest, PairsOwned
  <2>4. SureToTest(b)'
    BY <1>0, <1>2, <2>2, <2>3 DEF SureToTest, WillTest
  <2> QED BY <1>0, <1>2, <2>4 DEF Helpers
<1> QED BY <1>1, <1>2 DEF Helpers

\* So the sleepers stay covered if the one who acts goes on helping, or is
\* replaced by somebody new.
LEMMA StillCovered ==
  ASSUME IInv, NotifyInv, NEW a \in Actors, OnlyActs(a), items' = items,
         Unnotified(a)' => Unnotified(a) /\ how'[a] = how[a],
         \A c \in Waiters : Unnotified(c) /\ Unnotified(c)' /\ a \in Helpers(c) =>
            a \in Helpers(c)' \/ \E b \in Actors : b \notin Helpers(c) /\ b \in Helpers(c)'
  PROVE  SleepersCovered'
<1> SUFFICES ASSUME NEW c \in Waiters, Unnotified(c)'
             PROVE  items' <= Cardinality(Helpers(c)')
  BY DEF SleepersCovered
<1>1. PairsOwned /\ SleepersCovered /\ c \in Actors /\ how'[c] = how[c]
  BY QueueFacts DEF NotifyInv, OnlyActs
<1>2. Unnotified(c)
  <2>1. CASE c = a
    BY <2>1
  <2>2. CASE c # a
    BY <1>1, <2>2 DEF Unnotified, OnlyActs, PairsOwned
  <2> QED BY <2>1, <2>2
<1>3. Helpers(c) \ {a} \subseteq Helpers(c)'
  BY <1>1, <1>2, OthersHelp
<1>4. items <= Cardinality(Helpers(c)) /\ items \in Nat
  BY <1>1, <1>2, QueueFacts DEF SleepersCovered
<1>5. Helpers(c) \in SUBSET Actors /\ Helpers(c)' \in SUBSET Actors /\ IsFiniteSet(Actors)
  BY QueueFacts DEF Helpers
<1>6. Cardinality(Helpers(c)) \in Nat /\ Cardinality(Helpers(c)') \in Nat
      /\ Cardinality(Helpers(c)) <= Cardinality(Helpers(c)')
  <2>1. CASE a \in Helpers(c) /\ a \notin Helpers(c)'
    BY <1>2, <1>3, <1>5, <2>1, Counting
  <2>2. CASE ~(a \in Helpers(c) /\ a \notin Helpers(c)')
    <3>1. Helpers(c) \subseteq Helpers(c)'
      BY <1>3, <2>2
    <3> QED BY <1>5, <3>1, Counting
  <2> QED BY <2>1, <2>2
<1> QED BY <1>4, <1>6

(***************************************************************************)
(* The clients.                                                            *)
(***************************************************************************)

LEMMA ConsumeCovers == ASSUME IInv, NotifyInv, NEW c \in Waiters, Consume(c) PROVE NotifyInv'
<1> USE DEF asyncVars, spinVars, syncVars
<1>0. /\ PlacesKnown /\ SleepsOnEmpty /\ PairsOwned /\ c \in Actors
      /\ pc[c] = "idle" /\ pc'[c] = "relock" /\ \A b \in Actors \ {c} : pc'[b] = pc[b]
      /\ UNCHANGED <<holder, spinList, syncList, asyncList, wait, wstate, gaveUp, all, taken,
                     items>>
  <2>1. c \in Actors /\ pc[c] = "idle" /\ Goto(c, "relock")
    BY QueueFacts DEF Consume, Count
  <2>2. pc'[c] = "relock" /\ \A b \in Actors \ {c} : pc'[b] = pc[b]
    BY <2>1, Goes
  <2> QED BY <2>1, <2>2 DEF NotifyInv, Consume
<1>1. \A b \in Actors : how'[b] = how[b] \/ (b = c /\ (how'[c] = "async" => c \in Tasks))
  BY <1>0, QueueFacts DEF Consume, Strategies
<1>2. PlacesKnown'
  BY <1>0, QueueFacts DEF PlacesKnown, NotifyPCs
<1>3. SleepsOnEmpty'
  BY <1>0, QueueFacts DEF SleepsOnEmpty
<1>4. PairsOwned'
  BY <1>0, <1>1, QueueFacts DEF PairsOwned
<1>5. SleepersCovered'
  <2>1. OnlyActs(c)
    BY <1>0, <1>1, QueueFacts DEF OnlyActs
  <2>2. ~Unnotified(c)'
    BY <1>0 DEF Unnotified
  <2>3. ASSUME NEW d \in Waiters PROVE c \notin Helpers(d)
    BY <1>0 DEF Helpers, Ahead, SureToTest, WaitPCs
  <2> QED BY <1>0, <2>1, <2>2, <2>3, StillCovered
<1> QED BY <1>2, <1>3, <1>4, <1>5 DEF NotifyInv

\* The one who tests takes the item it was counted for, or finds none.
LEMMA TestCovers == ASSUME IInv, NotifyInv, NEW c \in Waiters, Test(c) PROVE NotifyInv'
<1> USE DEF asyncVars, spinVars, syncVars, callVars
<1>0. /\ PlacesKnown /\ SleepsOnEmpty /\ PairsOwned /\ SleepersCovered /\ c \in Actors
      /\ pc[c] = "test" /\ pc'[c] \in {"register", "idle"}
      /\ \A b \in Actors \ {c} : pc'[b] = pc[b]
      /\ UNCHANGED <<how, spinList, syncList, asyncList, wait, wstate, gaveUp, all, taken>>
      /\ pc'[c] = "register" => items' = 0 /\ holder' = holder
      /\ items' = 0 \/ items' = items - 1
  <2>1. /\ c \in Actors /\ pc[c] = "test"
        /\ \/ Goto(c, "register") /\ items = 0 /\ UNCHANGED <<holder, items>>
           \/ Goto(c, "idle") /\ items' = items - 1
    BY QueueFacts DEF Test
  <2>2. /\ pc'[c] \in {"register", "idle"} /\ \A b \in Actors \ {c} : pc'[b] = pc[b]
        /\ pc'[c] = "register" => items' = 0 /\ holder' = holder
        /\ items' = 0 \/ items' = items - 1
    BY <2>1, Goes
  <2> QED BY <2>1, <2>2 DEF NotifyInv, Test
<1>1. \A b \in Waiters \ {c} : pc[b] \notin {"test", "register", "unlock", "timedout"}
  BY <1>0 DEF SleepsOnEmpty
<1>2. PlacesKnown'
  BY <1>0, QueueFacts DEF PlacesKnown, NotifyPCs
<1>3. SleepsOnEmpty'
  BY <1>0, <1>1, QueueFacts DEF SleepsOnEmpty
<1>4. PairsOwned'
  BY <1>0, QueueFacts DEF PairsOwned
<1>5. SleepersCovered'
  <2> SUFFICES ASSUME NEW d \in Waiters, Unnotified(d)' PROVE items' <= Cardinality(Helpers(d)')
    BY DEF SleepersCovered
  <2>1. OnlyActs(c)
    BY <1>0 DEF OnlyActs
  <2>2. d # c /\ d \in Actors
    BY <1>0, QueueFacts DEF Unnotified
  <2>3. Unnotified(d)
    BY <1>0, <2>2 DEF Unnotified
  <2>4. Helpers(d) \ {c} \subseteq Helpers(d)'
    BY <1>0, <2>1, <2>3, OthersHelp
  <2>5. Helpers(d) \in SUBSET Actors /\ Helpers(d)' \in SUBSET Actors /\ IsFiniteSet(Actors)
    BY QueueFacts DEF Helpers
  <2>6. /\ Cardinality(Helpers(d)) \in Nat /\ Cardinality(Helpers(d)') \in Nat
        /\ Cardinality(Helpers(d)) - 1 <= Cardinality(Helpers(d)')
    BY <2>4, <2>5, Counting
  <2>7. items <= Cardinality(Helpers(d)) /\ items \in Nat
    BY <1>0, <2>3, QueueFacts DEF SleepersCovered
  <2> QED BY <1>0, <2>6, <2>7
<1> QED BY <1>2, <1>3, <1>4, <1>5 DEF NotifyInv

LEMMA TimedOutCovers ==
  ASSUME IInv, NotifyInv, NEW c \in Waiters, TimedOut(c) PROVE NotifyInv'
<1> USE DEF asyncVars, spinVars, syncVars, callVars
<1>0. /\ PlacesKnown /\ SleepsOnEmpty /\ PairsOwned /\ c \in Actors
      /\ pc[c] = "timedout" /\ pc'[c] = "idle" /\ \A b \in Actors \ {c} : pc'[b] = pc[b]
      /\ UNCHANGED <<how, spinList, syncList, asyncList, wait, wstate, all, taken, items>>
      /\ ~gaveUp'[c] /\ \A b \in Actors \ {c} : gaveUp'[b] = gaveUp[b]
  <2>1. c \in Actors /\ pc[c] = "timedout" /\ Goto(c, "idle")
    BY QueueFacts DEF TimedOut
  <2>2. pc'[c] = "idle" /\ \A b \in Actors \ {c} : pc'[b] = pc[b]
    BY <2>1, Goes
  <2>3. ~gaveUp'[c] /\ \A b \in Actors \ {c} : gaveUp'[b] = gaveUp[b]
    BY <2>1, QueueFacts DEF TimedOut
  <2> QED BY <2>1, <2>2, <2>3 DEF NotifyInv, TimedOut
<1>1. \A b \in Waiters \ {c} : pc[b] \notin {"test", "register", "unlock", "timedout"}
  BY <1>0 DEF SleepsOnEmpty
<1>2. PlacesKnown'
  BY <1>0, QueueFacts DEF PlacesKnown, NotifyPCs
<1>3. SleepsOnEmpty'
  BY <1>0, <1>1, QueueFacts DEF SleepsOnEmpty
<1>4. PairsOwned'
  BY <1>0, QueueFacts DEF PairsOwned
<1>5. SleepersCovered'
  <2>1. OnlyActs(c)
    BY <1>0 DEF OnlyActs
  <2>2. ~Unnotified(c)'
    BY <1>0 DEF Unnotified
  <2>3. ASSUME NEW d \in Waiters PROVE c \notin Helpers(d)
    BY <1>0 DEF Helpers, Ahead, SureToTest, WillTest
  <2> QED BY <1>0, <2>1, <2>2, <2>3, StillCovered
<1> QED BY <1>2, <1>3, <1>4, <1>5 DEF NotifyInv

\* A producer comes past every sleeper with the item it has pushed.
LEMMA ProduceCovers ==
  ASSUME IInv, NotifyInv, NEW p \in Producers, Produce(p) PROVE NotifyInv'
<1> USE DEF asyncVars, spinVars, syncVars
<1>0. /\ PlacesKnown /\ SleepsOnEmpty /\ PairsOwned /\ SleepersCovered /\ p \in Actors
      /\ p \notin Waiters /\ pc[p] = "idle" /\ pc'[p] = "spin_list"
      /\ \A b \in Actors \ {p} : pc'[b] = pc[b] /\ all'[b] = all[b]
      /\ UNCHANGED <<how, spinList, syncList, asyncList, wait, wstate, gaveUp, taken>>
      /\ holder = None /\ None \notin Actors /\ items' = items + 1
  <2>1. \E b \in BOOLEAN : all' = [all EXCEPT ![p] = b]
    BY DEF Produce
  <2>2. \A b \in Actors \ {p} : all'[b] = all[b]
    BY <2>1, QueueFacts
  <2> QED BY <2>2, QueueFacts, Goes DEF NotifyInv, Produce, Count
<1>1. \A b \in Waiters : pc[b] \notin {"test", "register", "unlock", "timedout"}
  BY <1>0, QueueFacts DEF SleepsOnEmpty
<1>2. PlacesKnown'
  BY <1>0, QueueFacts DEF PlacesKnown, NotifyPCs
<1>3. SleepsOnEmpty'
  BY <1>0, <1>1, QueueFacts DEF SleepsOnEmpty
<1>4. PairsOwned'
  BY <1>0, QueueFacts DEF PairsOwned
<1>5. SleepersCovered'
  <2> SUFFICES ASSUME NEW d \in Waiters, Unnotified(d)' PROVE items' <= Cardinality(Helpers(d)')
    BY DEF SleepersCovered
  <2>1. OnlyActs(p)
    BY <1>0 DEF OnlyActs
  <2>2. d # p /\ d \in Actors
    BY <1>0, QueueFacts
  <2>3. Unnotified(d)
    BY <1>0, <2>2 DEF Unnotified
  <2>4. p \notin Helpers(d)
    BY <1>0 DEF Helpers, Ahead
  <2>5. Helpers(d) \subseteq Helpers(d)'
    BY <1>0, <2>1, <2>3, <2>4, OthersHelp
  <2>6. p \in Helpers(d)'
    BY <1>0, <2>3 DEF Helpers, Ahead, Unnotified
  <2>7. Helpers(d) \in SUBSET Actors /\ Helpers(d)' \in SUBSET Actors /\ IsFiniteSet(Actors)
    BY QueueFacts DEF Helpers
  <2>8. /\ Cardinality(Helpers(d)) \in Nat /\ Cardinality(Helpers(d)') \in Nat
        /\ Cardinality(Helpers(d)) + 1 <= Cardinality(Helpers(d)')
    BY <2>4, <2>5, <2>6, <2>7, Counting
  <2>9. items <= Cardinality(Helpers(d)) /\ items \in Nat
    BY <1>0, <2>3, QueueFacts DEF SleepersCovered
  <2> QED BY <1>0, <2>8, <2>9
<1> QED BY <1>2, <1>3, <1>4, <1>5 DEF NotifyInv

LEMMA NotifiedCovers ==
  ASSUME IInv, NotifyInv, NEW p \in Producers, Notified(p) PROVE NotifyInv'
<1> USE DEF asyncVars, spinVars, syncVars, callVars
<1>0. /\ PlacesKnown /\ SleepsOnEmpty /\ PairsOwned /\ p \in Actors /\ p \notin Waiters
      /\ pc[p] = "notified" /\ pc'[p] = "idle" /\ \A b \in Actors \ {p} : pc'[b] = pc[b]
      /\ UNCHANGED <<holder, how, spinList, syncList, asyncList, wait, wstate, all, taken, gaveUp,
                     items>>
  BY QueueFacts, Goes DEF NotifyInv, Notified
<1>1. PlacesKnown'
  BY <1>0, QueueFacts DEF PlacesKnown, NotifyPCs
<1>2. SleepsOnEmpty'
  BY <1>0, QueueFacts DEF SleepsOnEmpty
<1>3. PairsOwned'
  BY <1>0, QueueFacts DEF PairsOwned
<1>4. SleepersCovered'
  <2>1. OnlyActs(p)
    BY <1>0 DEF OnlyActs
  <2>2. ~Unnotified(p)'
    BY <1>0 DEF Unnotified
  <2>3. ASSUME NEW d \in Waiters PROVE p \notin Helpers(d)
    BY <1>0 DEF Helpers, Ahead
  <2> QED BY <1>0, <2>1, <2>2, <2>3, StillCovered
<1> QED BY <1>1, <1>2, <1>3, <1>4 DEF NotifyInv


(***************************************************************************)
(* The waiters.                                                            *)
(***************************************************************************)

\* A waiter that steps and is sure to test afterwards, if it was before.
LEMMA WaiterCovers ==
  ASSUME IInv, NotifyInv, NEW a \in Waiters, OnlyActs(a), items' = items, pc[a] \in WaitPCs,
         Unnotified(a)' => Unnotified(a) /\ how'[a] = how[a],
         SureToTest(a) => SureToTest(a)' \/ pc'[a] = "spin_list"
  PROVE  SleepersCovered'
<1>1. a \in Actors /\ WaitPCs \cap NotifyPCs = {}
  BY QueueFacts DEF WaitPCs, NotifyPCs
<1>2. ASSUME NEW c \in Waiters, Unnotified(c)', a \in Helpers(c) PROVE a \in Helpers(c)'
  <2>1. SureToTest(a)
    BY <1>1, <1>2 DEF Helpers, Ahead, NotifyPCs
  <2>2. pc'[a] = "spin_list" => Ahead(a, c)'
    BY <1>2 DEF Ahead, Unnotified
  <2> QED BY <1>1, <2>1, <2>2 DEF Helpers
<1> QED BY <1>1, <1>2, StillCovered

\* The steps of a sleeper, and of one that takes the lock again.
LEMMA WaiterKeeps ==
  ASSUME IInv, NotifyInv, NEW a \in Waiters,
         NEW p \in {"spin", "spin_expired", "spin_flag", "deadline", "park", "check", "await",
                    "relock", "test", "timedout"},
         pc[a] \in {"spin", "spin_expired", "spin_flag", "deadline", "park", "check", "await",
                    "relock"},
         pc[a] = "await" <=> p = "await",
         pc'[a] = p, \A b \in Actors \ {a} : pc'[b] = pc[b] /\ gaveUp'[b] = gaveUp[b],
         gaveUp'[a] => p \in {"relock", "timedout"},
         IF p \in {"test", "timedout"} THEN holder = None /\ holder' = a ELSE holder' = holder,
         UNCHANGED <<how, all, taken, asyncList, wait, wstate, items>>,
         spinList' \subseteq spinList, syncList' \subseteq syncList,
         Unnotified(a)' => Unnotified(a), SureToTest(a) => SureToTest(a)'
  PROVE  NotifyInv'
<1>0. PlacesKnown /\ SleepsOnEmpty /\ PairsOwned /\ a \in Actors /\ None \notin Actors
      /\ Waiters \subseteq Actors /\ Tasks \subseteq Actors
  BY QueueFacts DEF NotifyInv
<1>1. PlacesKnown'
  BY <1>0, QueueFacts DEF PlacesKnown, NotifyPCs
<1>2. SleepsOnEmpty'
  BY <1>0 DEF SleepsOnEmpty
<1>3. PairsOwned'
  <2>1. ASSUME NEW w \in Waits, wstate'[w] = "waiting"
        PROVE  \E t \in Tasks : wait'[t] = w /\ pc'[t] \in {"unlock", "await"}
    BY <1>0, <2>1 DEF PairsOwned
  <2> QED BY <1>0, <2>1 DEF PairsOwned
<1>4. SleepersCovered'
  <2>1. OnlyActs(a)
    BY <1>0 DEF OnlyActs
  <2> QED BY <2>1, WaiterCovers DEF WaitPCs
<1> QED BY <1>1, <1>2, <1>3, <1>4 DEF NotifyInv

LEMMA SpinWaitCovers ==
  ASSUME IInv, NotifyInv, NEW a \in Waiters, SpinWait(a), UNCHANGED items PROVE NotifyInv'
<1> USE DEF asyncVars, spinVars, syncVars, callVars
<1>0. /\ PlacesKnown /\ a \in Actors /\ ~gaveUp[a]
      /\ DOMAIN gaveUp = Actors /\ spinList \cap syncList = {}
  BY QueueFacts DEF NotifyInv, PlacesKnown, NotifyPCs, SpinWait, SpinWoken, SpinExpired, SpinRemove
<1>1. CASE SpinWoken(a)
  <2>1. pc[a] \in {"spin", "spin_flag"} /\ Goto(a, "relock")
    BY <1>1 DEF SpinWoken
  <2>2. pc'[a] = "relock" /\ \A b \in Actors \ {a} : pc'[b] = pc[b]
    BY <1>0, <2>1, Goes
  <2>3. UNCHANGED <<holder, spinList, syncList, how, all, taken, asyncVars, gaveUp>>
    BY <1>1 DEF SpinWoken
  <2>4. SureToTest(a)' /\ ~Unnotified(a)'
    BY <1>0, <2>2, <2>3 DEF SureToTest, WillTest, Unnotified, WaitPCs
  <2> QED BY <1>0, <2>1, <2>2, <2>3, <2>4, WaiterKeeps
<1>2. CASE SpinExpired(a)
  <2>1. pc[a] = "spin" /\ Goto(a, "spin_expired")
    BY <1>2 DEF SpinExpired
  <2>2. pc'[a] = "spin_expired" /\ \A b \in Actors \ {a} : pc'[b] = pc[b]
    BY <1>0, <2>1, Goes
  <2>3. UNCHANGED <<holder, spinList, syncList, how, all, taken, asyncVars, gaveUp>>
    BY <1>2 DEF SpinExpired
  <2>4. /\ SureToTest(a) => SureToTest(a)'
        /\ Unnotified(a)' => Unnotified(a)
    BY <1>0, <2>1, <2>2, <2>3 DEF SureToTest, WillTest, Unnotified, WaitPCs
  <2> QED BY <1>0, <2>1, <2>2, <2>3, <2>4, WaiterKeeps
<1>3. CASE SpinRemove(a)
  <2>1. PICK p \in {"relock", "spin_flag"} :
          /\ pc[a] = "spin_expired" /\ Goto(a, p)
          /\ IF a \in spinList THEN p = "relock" /\ gaveUp' = [gaveUp EXCEPT ![a] = TRUE]
             ELSE p = "spin_flag" /\ UNCHANGED gaveUp
    BY <1>3 DEF SpinRemove
  <2>2. pc'[a] = p /\ \A b \in Actors \ {a} : pc'[b] = pc[b]
    BY <1>0, <2>1, Goes
  <2>3. UNCHANGED <<holder, syncList, how, all, taken, asyncVars>> /\ spinList' = spinList \ {a}
    BY <1>3 DEF SpinRemove
  <2>4. /\ \A b \in Actors \ {a} : gaveUp'[b] = gaveUp[b]
        /\ gaveUp'[a] => a \in spinList /\ p = "relock"
    BY <1>0, <2>1
  <2>5. /\ SureToTest(a) => SureToTest(a)'
        /\ ~Unnotified(a)'
    BY <1>0, <2>1, <2>2, <2>3, <2>4 DEF SureToTest, WillTest, Unnotified, WaitPCs
  <2> QED BY <1>0, <2>1, <2>2, <2>3, <2>4, <2>5, WaiterKeeps
<1> QED BY <1>1, <1>2, <1>3 DEF SpinWait

LEMMA ParkWaitCovers ==
  ASSUME IInv, NotifyInv, NEW a \in Waiters, ParkWait(a) \/ ParkSpurious(a), UNCHANGED items
  PROVE  NotifyInv'
<1> USE DEF asyncVars, spinVars, syncVars, callVars
<1>0. /\ PlacesKnown /\ a \in Actors /\ ~gaveUp[a] /\ pc[a] \in {"park", "check", "deadline"}
      /\ DOMAIN gaveUp = Actors /\ a \notin spinList
  BY QueueFacts DEF NotifyInv, PlacesKnown, NotifyPCs, ParkWait, ParkToken, ParkTimesOut,
     ParkSpurious, CheckList, CheckDeadline
<1>1. CASE ParkToken(a) \/ ParkTimesOut(a) \/ ParkSpurious(a)
  <2>1. pc[a] = "park" /\ Goto(a, "check")
    BY <1>1 DEF ParkToken, ParkTimesOut, ParkSpurious
  <2>2. pc'[a] = "check" /\ \A b \in Actors \ {a} : pc'[b] = pc[b]
    BY <1>0, <2>1, Goes
  <2>3. UNCHANGED <<holder, spinList, syncList, how, all, taken, asyncVars, gaveUp>>
    BY <1>1 DEF ParkToken, ParkTimesOut, ParkSpurious
  <2>4. /\ SureToTest(a) => SureToTest(a)'
        /\ Unnotified(a)' => Unnotified(a)
    BY <1>0, <2>1, <2>2, <2>3 DEF SureToTest, WillTest, Unnotified, WaitPCs
  <2> QED BY <1>0, <2>1, <2>2, <2>3, <2>4, WaiterKeeps
<1>2. CASE CheckList(a)
  <2>1. PICK p \in {"relock", "deadline"} :
          /\ pc[a] = "check" /\ Goto(a, p)
          /\ p = "relock" => a \notin syncList'
    BY <1>2 DEF CheckList
  <2>2. pc'[a] = p /\ \A b \in Actors \ {a} : pc'[b] = pc[b]
    BY <1>0, <2>1, Goes
  <2>3. UNCHANGED <<holder, spinList, how, all, taken, asyncVars, gaveUp>>
        /\ syncList' \subseteq syncList
    BY <1>2 DEF CheckList
  <2>4. /\ SureToTest(a) => SureToTest(a)'
        /\ Unnotified(a)' => Unnotified(a)
    BY <1>0, <2>1, <2>2, <2>3 DEF SureToTest, WillTest, Unnotified, WaitPCs
  <2> QED BY <1>0, <2>1, <2>2, <2>3, <2>4, WaiterKeeps
<1>3. CASE CheckDeadline(a)
  <2>1. PICK p \in {"relock", "park"} :
          /\ pc[a] = "deadline" /\ Goto(a, p)
          /\ IF p = "relock"
               THEN syncList' = syncList \ {a} /\ gaveUp' = [gaveUp EXCEPT ![a] = a \in syncList]
               ELSE UNCHANGED <<syncList, gaveUp>>
    BY <1>3 DEF CheckDeadline
  <2>2. pc'[a] = p /\ \A b \in Actors \ {a} : pc'[b] = pc[b]
    BY <1>0, <2>1, Goes
  <2>3. UNCHANGED <<holder, spinList, how, all, taken, asyncVars>> /\ syncList' \subseteq syncList
    BY <1>3 DEF CheckDeadline
  <2>4. /\ \A b \in Actors \ {a} : gaveUp'[b] = gaveUp[b]
        /\ gaveUp'[a] => a \in syncList /\ p = "relock"
    BY <1>0, <2>1
  <2>5. /\ SureToTest(a) => SureToTest(a)'
        /\ Unnotified(a)' => Unnotified(a)
    BY <1>0, <2>1, <2>2, <2>3, <2>4 DEF SureToTest, WillTest, Unnotified, WaitPCs
  <2> QED BY <1>0, <2>1, <2>2, <2>3, <2>4, <2>5, WaiterKeeps
<1> QED BY <1>1, <1>2, <1>3 DEF ParkWait

LEMMA RelockCovers ==
  ASSUME IInv, NotifyInv, NEW a \in Waiters, Relock(a), UNCHANGED items PROVE NotifyInv'
<1> USE DEF asyncVars, spinVars, syncVars, callVars
<1>1. PICK p \in {"test", "timedout"} :
        /\ a \in Actors /\ pc[a] = "relock" /\ Goto(a, p) /\ (~gaveUp[a] => p = "test")
        /\ (gaveUp[a] => p = "timedout")
  BY QueueFacts DEF Relock
<1>2. pc'[a] = p /\ \A b \in Actors \ {a} : pc'[b] = pc[b]
  BY <1>1, Goes
<1>3. /\ holder = None /\ holder' = a
      /\ UNCHANGED <<spinList, syncList, how, all, taken, asyncVars, gaveUp>>
  BY DEF Relock
<1>4. /\ SureToTest(a) => SureToTest(a)'
      /\ ~Unnotified(a)'
  BY <1>1, <1>2, <1>3 DEF SureToTest, WillTest, Unnotified, WaitPCs
<1>5. \A b \in Actors \ {a} : gaveUp'[b] = gaveUp[b]
  BY <1>3
<1>6. gaveUp'[a] => p \in {"relock", "timedout"}
  BY <1>1, <1>3
<1> QED BY <1>1, <1>2, <1>3, <1>4, <1>5, <1>6, WaiterKeeps

LEMMA DeadlineCovers ==
  ASSUME IInv, NotifyInv, NEW a \in Waiters, DeadlinePasses(a), UNCHANGED items PROVE NotifyInv'
<1> USE DEF asyncVars, spinVars, syncVars
<1>1. PICK p \in {"spin", "deadline", "park", "await"} : pc[a] = p
  BY DEF DeadlinePasses
<1>2. UNCHANGED <<pc, holder, spinList, syncList, how, all, taken, asyncVars, gaveUp>>
  BY DEF DeadlinePasses
<1>3. /\ SureToTest(a) => SureToTest(a)'
      /\ Unnotified(a)' => Unnotified(a)
  BY <1>2 DEF SureToTest, WillTest, Unnotified
<1>4. ~gaveUp[a] /\ a \in Actors
  BY <1>1, QueueFacts DEF NotifyInv, PlacesKnown, NotifyPCs
<1> QED BY <1>1, <1>2, <1>3, <1>4, WaiterKeeps

\* Nobody goes to sleep while there is an item.
LEMMA RegisterCovers ==
  ASSUME IInv, NotifyInv, NEW a \in Waiters, Register(a), UNCHANGED items PROVE NotifyInv'
<1> USE DEF asyncVars, spinVars, syncVars, callVars
<1>0. PlacesKnown /\ SleepsOnEmpty /\ PairsOwned /\ a \in Actors
  BY QueueFacts DEF NotifyInv
<1>1. pc[a] = "register" /\ Goto(a, "unlock") /\ UNCHANGED <<holder, how, all, gaveUp, taken>>
  BY DEF Register, RegisterSpin, RegisterBlock, RegisterAsync
<1>2. pc'[a] = "unlock" /\ \A b \in Actors \ {a} : pc'[b] = pc[b]
  BY <1>0, <1>1, Goes
<1>3. items = 0 /\ holder = a
  BY <1>0, <1>1 DEF SleepsOnEmpty
<1>4. PlacesKnown'
  BY <1>0, <1>1, <1>2, QueueFacts DEF PlacesKnown, NotifyPCs
<1>5. SleepsOnEmpty'
  BY <1>0, <1>1, <1>2, <1>3, QueueFacts DEF SleepsOnEmpty
<1>6. PairsOwned'
  <2>1. CASE RegisterSpin(a) \/ RegisterBlock(a)
    <3>1. UNCHANGED <<asyncList, wait, wstate>> /\ a \notin Tasks
      BY <2>1, QueueFacts, CondvarAssumption DEF RegisterSpin, RegisterBlock
    <3> QED BY <1>0, <1>1, <1>2, <3>1, QueueFacts DEF PairsOwned
  <2>2. CASE RegisterAsync(a)
    <3>1. PICK w \in Waits :
            /\ Unreferenced(w) /\ asyncList' = asyncList \cup {w}
            /\ wait' = [wait EXCEPT ![a] = w] /\ wstate' = [wstate EXCEPT ![w] = "waiting"]
      BY <2>2 DEF RegisterAsync
    <3>2. a \in Tasks /\ how[a] = "async"
      BY <2>2 DEF RegisterAsync
    <3>3. /\ wait'[a] = w /\ \A t \in Tasks \ {a} : wait'[t] = wait[t]
          /\ \A x \in Waits \ {w} : wstate'[x] = wstate[x]
          /\ \A b \in Actors : w \notin taken[b]
      BY <3>1, <3>2, QueueFacts DEF Unreferenced
    <3>4. ASSUME NEW x \in Waits, wstate'[x] = "waiting"
          PROVE  \E t \in Tasks : wait'[t] = x /\ pc'[t] \in {"unlock", "await"}
      <4>1. CASE x = w
        BY <1>2, <3>2, <3>3, <4>1
      <4>2. CASE x # w
        <5>1. PICK t \in Tasks : wait[t] = x /\ pc[t] \in {"unlock", "await"}
          BY <1>0, <3>3, <3>4, <4>2 DEF PairsOwned
        <5> QED BY <1>1, <1>2, <3>3, <5>1, QueueFacts
      <4> QED BY <4>1, <4>2
    <3>5. \A b \in Actors : taken'[b] \cap asyncList' = {}
      BY <1>0, <1>1, <3>1, <3>3 DEF PairsOwned
    <3>6. \A t \in Tasks : pc'[t] \in {"unlock", "await", "forget"} => wait'[t] \in Waits
      BY <1>0, <1>2, <3>3, QueueFacts DEF PairsOwned
    <3>7. /\ \A b \in Actors : pc'[b] \in {"await", "forget"} => how'[b] = "async"
          /\ \A t \in Tasks : pc'[t] = "unlock" => how'[t] = "async"
          /\ \A b \in Actors : how'[b] = "async" => b \in Tasks
      BY <1>0, <1>1, <1>2, <3>2, QueueFacts DEF PairsOwned
    <3>8. \A b \in Actors : pc'[b] = "wake" =>
            taken'[b] \subseteq Waits /\ (~all'[b] => \E v \in Waits : taken'[b] = {v})
      BY <1>0, <1>1, <1>2 DEF PairsOwned
    <3> QED BY <3>4, <3>5, <3>6, <3>7, <3>8 DEF PairsOwned
  <2> QED BY <2>1, <2>2 DEF Register
<1>7. SleepersCovered'
  <2>1. ASSUME NEW c \in Waiters PROVE Cardinality(Helpers(c)') \in Nat
    <3>1. Helpers(c)' \in SUBSET Actors /\ {} \in SUBSET Actors /\ IsFiniteSet(Actors)
      BY QueueFacts DEF Helpers
    <3> QED BY <3>1, Counting
  <2> QED BY <1>3, <2>1 DEF SleepersCovered
<1> QED BY <1>4, <1>5, <1>6, <1>7 DEF NotifyInv

LEMMA DropGuardCovers ==
  ASSUME IInv, NotifyInv, NEW a \in Waiters, DropGuard(a), UNCHANGED items PROVE NotifyInv'
<1> USE DEF asyncVars, spinVars, syncVars, callVars
<1>0. PlacesKnown /\ SleepsOnEmpty /\ PairsOwned /\ a \in Actors
  BY QueueFacts DEF NotifyInv
<1>1. /\ pc[a] = "unlock" /\ Goto(a, Asleep(a)) /\ holder' = None
      /\ UNCHANGED <<how, all, gaveUp, taken, asyncList, wait, wstate>>
      /\ Asleep(a) \in {"spin", "await", "deadline", "park"}
      /\ Asleep(a) = "await" <=> how[a] = "async"
  BY DEF DropGuard, Asleep
<1>2. pc'[a] = Asleep(a) /\ \A b \in Actors \ {a} : pc'[b] = pc[b]
  BY <1>0, <1>1, Goes
<1>3. items = 0 /\ holder = a
  BY <1>0, <1>1 DEF SleepsOnEmpty
<1>4. PlacesKnown'
  BY <1>0, <1>1, <1>2, QueueFacts DEF PlacesKnown, NotifyPCs
<1>5. SleepsOnEmpty'
  BY <1>0, <1>1, <1>2, <1>3, QueueFacts DEF SleepsOnEmpty
<1>6. PairsOwned'
  <2>1. ASSUME NEW x \in Waits, wstate'[x] = "waiting"
        PROVE  \E t \in Tasks : wait'[t] = x /\ pc'[t] \in {"unlock", "await"}
    <3>1. PICK t \in Tasks : wait[t] = x /\ pc[t] \in {"unlock", "await"}
      BY <1>0, <1>1, <2>1 DEF PairsOwned
    <3> QED BY <1>0, <1>1, <1>2, <3>1, QueueFacts DEF PairsOwned
  <2> QED BY <1>0, <1>1, <1>2, <2>1, QueueFacts DEF PairsOwned
<1>7. SleepersCovered'
  <2>1. ASSUME NEW c \in Waiters PROVE Cardinality(Helpers(c)') \in Nat
    <3>1. Helpers(c)' \in SUBSET Actors /\ {} \in SUBSET Actors /\ IsFiniteSet(Actors)
      BY QueueFacts DEF Helpers
    <3> QED BY <3>1, Counting
  <2> QED BY <1>3, <2>1 DEF SleepersCovered
<1> QED BY <1>4, <1>5, <1>6, <1>7 DEF NotifyInv

LEMMA AwaitWokenCovers ==
  ASSUME IInv, NotifyInv, NEW a \in Waiters, AwaitWoken(a), UNCHANGED items PROVE NotifyInv'
<1> USE DEF asyncVars, spinVars, syncVars, callVars
<1>0. PlacesKnown /\ SleepsOnEmpty /\ PairsOwned /\ a \in Actors
  BY QueueFacts DEF NotifyInv
<1>1. /\ pc[a] = "await" /\ Goto(a, "relock") /\ wait' = [wait EXCEPT ![a] = None]
      /\ wstate[wait[a]] = "woken"
      /\ UNCHANGED <<holder, spinList, syncList, how, all, gaveUp, taken, asyncList, wstate>>
  BY DEF AwaitWoken
<1>2. pc'[a] = "relock" /\ \A b \in Actors \ {a} : pc'[b] = pc[b]
  BY <1>0, <1>1, Goes
<1>3. \A t \in Tasks \ {a} : wait'[t] = wait[t]
  BY <1>1, QueueFacts
<1>4. PlacesKnown'
  BY <1>0, <1>1, <1>2, QueueFacts DEF PlacesKnown, NotifyPCs
<1>5. SleepsOnEmpty'
  BY <1>0, <1>1, <1>2, QueueFacts DEF SleepsOnEmpty
<1>6. PairsOwned'
  <2>1. ASSUME NEW x \in Waits, wstate'[x] = "waiting"
        PROVE  \E t \in Tasks : wait'[t] = x /\ pc'[t] \in {"unlock", "await"}
    <3>1. PICK t \in Tasks : wait[t] = x /\ pc[t] \in {"unlock", "await"}
      BY <1>0, <1>1, <2>1 DEF PairsOwned
    <3> QED BY <1>1, <1>2, <1>3, <2>1, <3>1, QueueFacts
  <2> QED BY <1>0, <1>1, <1>2, <1>3, <2>1, QueueFacts DEF PairsOwned
<1>7. SleepersCovered'
  <2>1. OnlyActs(a)
    BY <1>1, <1>2, <1>3 DEF OnlyActs
  <2>2. ~gaveUp[a] /\ a \notin spinList \cup syncList
    BY <1>0, <1>1, QueueFacts DEF PlacesKnown, NotifyPCs
  <2>3. SureToTest(a)' /\ ~Unnotified(a)'
    BY <1>0, <1>1, <1>2, <2>2 DEF SureToTest, WillTest, Unnotified, WaitPCs
  <2> QED BY <1>1, <2>1, <2>3, WaiterCovers DEF WaitPCs
<1> QED BY <1>4, <1>5, <1>6, <1>7 DEF NotifyInv

LEMMA AwaitTimedOutCovers ==
  ASSUME IInv, NotifyInv, NEW a \in Waiters, AwaitTimedOut(a), UNCHANGED items PROVE NotifyInv'
<1> USE DEF asyncVars, spinVars, syncVars, callVars
<1>0. PlacesKnown /\ SleepsOnEmpty /\ PairsOwned /\ a \in Actors
  BY QueueFacts DEF NotifyInv
<1>1. /\ pc[a] = "await" /\ Goto(a, "forget") /\ Cancel(wait[a])
      /\ UNCHANGED <<holder, spinList, syncList, how, all, gaveUp, taken, asyncList, wait>>
  BY DEF AwaitTimedOut
<1>2. pc'[a] = "forget" /\ \A b \in Actors \ {a} : pc'[b] = pc[b]
  BY <1>0, <1>1, Goes
<1>3. how[a] = "async" /\ a \in Tasks /\ wait[a] \in Waits
  BY <1>0, <1>1 DEF PairsOwned
<1>4. \A w \in Waits : wstate'[w] = "waiting" => wstate[w] = "waiting" /\ w # wait[a]
  BY <1>1, <1>3, QueueFacts DEF Cancel
<1>5. PlacesKnown'
  BY <1>0, <1>1, <1>2, QueueFacts DEF PlacesKnown, NotifyPCs
<1>6. SleepsOnEmpty'
  BY <1>0, <1>1, <1>2, QueueFacts DEF SleepsOnEmpty
<1>7. PairsOwned'
  <2>1. ASSUME NEW x \in Waits, wstate'[x] = "waiting"
        PROVE  \E t \in Tasks : wait'[t] = x /\ pc'[t] \in {"unlock", "await"}
    <3>1. PICK t \in Tasks : wait[t] = x /\ pc[t] \in {"unlock", "await"}
      BY <1>0, <1>4, <2>1 DEF PairsOwned
    <3> QED BY <1>1, <1>2, <1>4, <2>1, <3>1, QueueFacts
  <2> QED BY <1>0, <1>1, <1>2, <1>3, <2>1, QueueFacts DEF PairsOwned
<1>8. SleepersCovered'
  <2>1. OnlyActs(a)
    BY <1>1, <1>2, <1>4 DEF OnlyActs
  <2>2. a \notin spinList \cup syncList
    BY <1>1, QueueFacts
  <2>3. /\ Unnotified(a)' => Unnotified(a)
        /\ SureToTest(a) => SureToTest(a)'
    BY <1>1, <1>2, <1>3, <2>2 DEF SureToTest, WillTest, Unnotified, WaitPCs
  <2> QED BY <1>1, <2>1, <2>3, WaiterCovers DEF WaitPCs
<1> QED BY <1>5, <1>6, <1>7, <1>8 DEF NotifyInv

\* A wait that timed out although it had been notified comes past every sleeper.
LEMMA ForgetCovers ==
  ASSUME IInv, NotifyInv, NEW a \in Waiters, Forget(a), UNCHANGED items PROVE NotifyInv'
<1> USE DEF asyncVars, spinVars, syncVars, callVars
<1>0. PlacesKnown /\ SleepsOnEmpty /\ PairsOwned /\ a \in Actors
  BY QueueFacts DEF NotifyInv
<1>1. PICK p \in {"relock", "spin_list"} :
        /\ pc[a] = "forget" /\ Goto(a, p) /\ (wait[a] \notin asyncList => p = "spin_list")
  BY DEF Forget
<1>2. /\ wait' = [wait EXCEPT ![a] = None] /\ gaveUp' = [gaveUp EXCEPT ![a] = TRUE]
      /\ asyncList' = asyncList \ {wait[a]}
      /\ UNCHANGED <<holder, spinList, syncList, how, all, taken, wstate>>
  BY DEF Forget
<1>3. pc'[a] = p /\ \A b \in Actors \ {a} : pc'[b] = pc[b]
  BY <1>0, <1>1, Goes
<1>4. /\ \A t \in Tasks \ {a} : wait'[t] = wait[t]
      /\ \A b \in Actors \ {a} : gaveUp'[b] = gaveUp[b]
      /\ gaveUp'[a]
  BY <1>0, <1>2, QueueFacts
<1>5. PlacesKnown'
  BY <1>0, <1>1, <1>3, <1>4, QueueFacts DEF PlacesKnown, NotifyPCs
<1>6. SleepsOnEmpty'
  BY <1>0, <1>1, <1>2, <1>3, QueueFacts DEF SleepsOnEmpty
<1>7. PairsOwned'
  <2>1. ASSUME NEW x \in Waits, wstate'[x] = "waiting"
        PROVE  \E t \in Tasks : wait'[t] = x /\ pc'[t] \in {"unlock", "await"}
    <3>1. PICK t \in Tasks : wait[t] = x /\ pc[t] \in {"unlock", "await"}
      BY <1>0, <1>2, <2>1 DEF PairsOwned
    <3> QED BY <1>1, <1>3, <1>4, <3>1, QueueFacts
  <2> QED BY <1>0, <1>1, <1>2, <1>3, <1>4, <2>1, QueueFacts DEF PairsOwned
<1>8. SleepersCovered'
  <2>1. OnlyActs(a)
    BY <1>2, <1>3, <1>4 DEF OnlyActs
  <2>2. a \notin spinList \cup syncList /\ how[a] = "async"
    BY <1>0, <1>1, QueueFacts DEF PairsOwned
  <2>3. /\ ~Unnotified(a)'
        /\ SureToTest(a) => pc'[a] = "spin_list"
    BY <1>1, <1>2, <1>3, <2>2 DEF SureToTest, WillTest, Unnotified
  <2> QED BY <1>1, <2>1, <2>3, WaiterCovers DEF WaitPCs
<1> QED BY <1>5, <1>6, <1>7, <1>8 DEF NotifyInv

\* A future that has not been woken is not one that an item counts on.
LEMMA DroppingCovers ==
  ASSUME ~DropsWoken, IInv, NotifyInv, NEW a \in Tasks \cap Waiters, Dropping(a)
  PROVE  NotifyInv'
<1> USE DEF asyncVars, spinVars, syncVars, callVars
<1>0. PlacesKnown /\ SleepsOnEmpty /\ PairsOwned /\ a \in Actors
  BY QueueFacts DEF NotifyInv
<1>1. /\ pc[a] = "await" /\ wstate[wait[a]] = "waiting" /\ Goto(a, "idle") /\ Cancel(wait[a])
      /\ wait' = [wait EXCEPT ![a] = None] /\ gaveUp' = [gaveUp EXCEPT ![a] = FALSE]
      /\ UNCHANGED <<holder, spinList, syncList, how, all, taken, asyncList, items>>
  BY DEF Dropping, WaitDropped
<1>2. pc'[a] = "idle" /\ \A b \in Actors \ {a} : pc'[b] = pc[b]
  BY <1>0, <1>1, Goes
<1>3. /\ \A t \in Tasks \ {a} : wait'[t] = wait[t]
      /\ \A b \in Actors \ {a} : gaveUp'[b] = gaveUp[b]
      /\ ~gaveUp'[a] /\ how[a] = "async" /\ wait[a] \in Waits
  BY <1>0, <1>1, QueueFacts DEF PairsOwned
<1>4. \A w \in Waits : wstate'[w] = "waiting" => wstate[w] = "waiting" /\ w # wait[a]
  BY <1>1, <1>3, QueueFacts DEF Cancel
<1>5. PlacesKnown'
  BY <1>0, <1>1, <1>2, <1>3, QueueFacts DEF PlacesKnown, NotifyPCs
<1>6. SleepsOnEmpty'
  BY <1>0, <1>1, <1>2, QueueFacts DEF SleepsOnEmpty
<1>7. PairsOwned'
  <2>1. ASSUME NEW x \in Waits, wstate'[x] = "waiting"
        PROVE  \E t \in Tasks : wait'[t] = x /\ pc'[t] \in {"unlock", "await"}
    <3>1. PICK t \in Tasks : wait[t] = x /\ pc[t] \in {"unlock", "await"}
      BY <1>0, <1>4, <2>1 DEF PairsOwned
    <3> QED BY <1>2, <1>3, <1>4, <2>1, <3>1, QueueFacts
  <2> QED BY <1>0, <1>1, <1>2, <1>3, <2>1, QueueFacts DEF PairsOwned
<1>8. SleepersCovered'
  <2>1. OnlyActs(a)
    BY <1>1, <1>2, <1>3, <1>4 DEF OnlyActs
  <2>2. ~Unnotified(a)' /\ ~SureToTest(a)
    BY <1>1, <1>2, <1>3 DEF SureToTest, Unnotified
  <2> QED BY <1>1, <2>1, <2>2, WaiterCovers DEF WaitPCs
<1> QED BY <1>5, <1>6, <1>7, <1>8 DEF NotifyInv

(***************************************************************************)
(* The notifiers.                                                          *)
(***************************************************************************)

\* A notifier keeps everybody's place, and its pairs if they are its own.
LEMMA NotifierKeeps ==
  ASSUME IInv, NotifyInv, NEW a \in Actors, NEW p, pc[a] \in NotifyPCs,
         p \in NotifyPCs \/ p = NotifyDone(a), Goto(a, p),
         UNCHANGED <<holder, how, all, gaveUp, wait, items>>,
         \A b \in Actors \ {a} : taken'[b] = taken[b],
         asyncList' \subseteq asyncList, taken'[a] \cap asyncList' = {},
         p = "wake" => taken'[a] \subseteq Waits /\ (~all[a] => \E w \in Waits : taken'[a] = {w}),
         \A w \in Waits : wstate'[w] = "waiting" => wstate[w] = "waiting"
  PROVE  /\ PlacesKnown' /\ SleepsOnEmpty' /\ PairsOwned'
         /\ pc'[a] = p /\ \A b \in Actors \ {a} : pc'[b] = pc[b]
         /\ ~Unnotified(a)'
         /\ spinList' \subseteq spinList /\ syncList' \subseteq syncList => OnlyActs(a)
<1>0. PlacesKnown /\ SleepsOnEmpty /\ PairsOwned
  BY DEF NotifyInv
<1>1. pc'[a] = p /\ \A b \in Actors \ {a} : pc'[b] = pc[b]
  BY Goes
<1>2. IF gaveUp[a] THEN p \in NotifyPCs \cup {"relock"} ELSE p \in NotifyPCs \cup {"notified"}
  BY DEF NotifyDone
<1>3. PlacesKnown'
  BY <1>0, <1>1, <1>2, QueueFacts DEF PlacesKnown, NotifyPCs
<1>4. SleepsOnEmpty'
  BY <1>0, <1>1, <1>2, QueueFacts DEF SleepsOnEmpty, NotifyPCs
<1>5. PairsOwned'
  <2>1. ASSUME NEW x \in Waits, wstate'[x] = "waiting"
        PROVE  \E t \in Tasks : wait'[t] = x /\ pc'[t] \in {"unlock", "await"}
    <3>1. PICK t \in Tasks : wait[t] = x /\ pc[t] \in {"unlock", "await"}
      BY <1>0, <2>1 DEF PairsOwned
    <3> QED BY <1>1, <3>1, QueueFacts DEF NotifyPCs
  <2>2. \A b \in Actors : taken'[b] \cap asyncList' = {}
    BY <1>0 DEF PairsOwned
  <2>3. \A b \in Actors : pc'[b] = "wake" =>
          taken'[b] \subseteq Waits /\ (~all'[b] => \E w \in Waits : taken'[b] = {w})
    BY <1>0, <1>1 DEF PairsOwned
  <2>4. \A b \in Actors : pc'[b] \in {"unlock", "await", "forget"} => pc'[b] = pc[b]
    BY <1>1, <1>2 DEF NotifyPCs
  <2> QED BY <1>0, <2>1, <2>2, <2>3, <2>4, QueueFacts DEF PairsOwned
<1>6. ~Unnotified(a)'
  BY <1>1, <1>2 DEF Unnotified, NotifyPCs
<1>7. spinList' \subseteq spinList /\ syncList' \subseteq syncList => OnlyActs(a)
  BY <1>1 DEF OnlyActs
<1> QED BY <1>1, <1>3, <1>4, <1>5, <1>6, <1>7

\* A thread whose entry is popped will test.
LEMMA PoppedTests ==
  ASSUME IInv, NotifyInv, NEW t \in spinList \cup syncList, pc'[t] = pc[t], how'[t] = how[t],
         gaveUp'[t] = gaveUp[t], t \notin spinList' \cup syncList'
  PROVE  t \in Waiters /\ ~SureToTest(t) /\ SureToTest(t)' /\ \A c : ~Ahead(t, c)
<1>0. t \in Actors /\ PlacesKnown /\ how[t] # "async"
      /\ pc[t] \in {"unlock", "spin", "spin_expired", "park", "deadline", "check"}
  BY QueueFacts DEF NotifyInv
<1>1. t \in Waiters /\ ~gaveUp[t]
  BY <1>0, QueueFacts DEF PlacesKnown, NotifyPCs
<1>2. Unnotified(t) /\ ~Unnotified(t)'
  BY <1>0 DEF Unnotified
<1> QED BY <1>0, <1>1, <1>2 DEF SureToTest, WillTest, Ahead, WaitPCs

LEMMA TakeSpinCovers ==
  ASSUME IInv, NotifyInv, NEW a \in Actors, TakeSpin(a), UNCHANGED items PROVE NotifyInv'
<1> USE DEF asyncVars, spinVars, syncVars, callVars
<1>1. pc[a] = "spin_list"
      /\ UNCHANGED <<holder, how, all, gaveUp, wait, items, wstate, asyncList, syncList>>
  BY DEF TakeSpin
<1>2. CASE spinList = {}
  <2>1. Goto(a, "sync_list") /\ UNCHANGED <<spinList, taken>>
    BY <1>2 DEF TakeSpin
  <2>2. PairsOwned
    BY DEF NotifyInv
  <2>3. /\ PlacesKnown' /\ SleepsOnEmpty' /\ PairsOwned' /\ OnlyActs(a) /\ ~Unnotified(a)'
        /\ pc'[a] = "sync_list"
    BY <1>1, <2>1, <2>2, NotifierKeeps DEF NotifyPCs, PairsOwned
  <2>4. ASSUME NEW c \in Waiters, Unnotified(c)', a \in Helpers(c) PROVE a \in Helpers(c)'
    <3>1. Ahead(a, c)
      BY <1>1, <2>4 DEF Helpers, SureToTest, WaitPCs
    <3> QED BY <1>1, <1>2, <2>1, <2>3, <3>1 DEF Helpers, Ahead
  <2>5. SleepersCovered'
    BY <1>1, <2>3, <2>4, StillCovered
  <2> QED BY <2>3, <2>5 DEF NotifyInv
<1>3. CASE spinList # {}
  <2>1. PICK S \in SUBSET spinList :
          /\ S # {} /\ taken' = [taken EXCEPT ![a] = S] /\ spinList' = spinList \ S
          /\ Goto(a, "store")
    BY <1>3 DEF TakeSpin, Picks
  <2>2. /\ PairsOwned /\ taken'[a] = S /\ \A b \in Actors \ {a} : taken'[b] = taken[b]
        /\ S \cap asyncList = {}
    BY <2>1, QueueFacts DEF NotifyInv
  <2>3. /\ PlacesKnown' /\ SleepsOnEmpty' /\ PairsOwned' /\ OnlyActs(a) /\ ~Unnotified(a)'
        /\ \A b \in Actors \ {a} : pc'[b] = pc[b]
    BY <1>1, <2>1, <2>2, NotifierKeeps DEF NotifyPCs, PairsOwned
  <2>4. PICK t \in S : t \in spinList \cup syncList
    BY <2>1
  <2>5. t \in Actors /\ t # a /\ t \notin syncList
    BY <1>1, <2>4, <2>1, QueueFacts
  <2>6. t \in Waiters /\ ~SureToTest(t) /\ SureToTest(t)' /\ \A c : ~Ahead(t, c)
    BY <1>1, <2>1, <2>3, <2>4, <2>5, PoppedTests
  <2>7. ASSUME NEW c \in Waiters PROVE t \notin Helpers(c) /\ t \in Helpers(c)'
    BY <2>5, <2>6 DEF Helpers
  <2>8. SleepersCovered'
    BY <1>1, <2>3, <2>5, <2>7, StillCovered
  <2> QED BY <2>3, <2>8 DEF NotifyInv
<1> QED BY <1>2, <1>3

LEMMA TakeSyncCovers ==
  ASSUME IInv, NotifyInv, NEW a \in Actors, TakeSync(a), UNCHANGED items PROVE NotifyInv'
<1> USE DEF asyncVars, spinVars, syncVars, callVars
<1>1. pc[a] = "sync_list"
      /\ UNCHANGED <<holder, how, all, gaveUp, wait, items, wstate, asyncList, spinList>>
  BY DEF TakeSync
<1>2. CASE syncList = {}
  <2>1. Goto(a, "async_list") /\ UNCHANGED <<syncList, taken>>
    BY <1>2 DEF TakeSync
  <2>2. PairsOwned
    BY DEF NotifyInv
  <2>3. /\ PlacesKnown' /\ SleepsOnEmpty' /\ PairsOwned' /\ OnlyActs(a) /\ ~Unnotified(a)'
        /\ pc'[a] = "async_list"
    BY <1>1, <2>1, <2>2, NotifierKeeps DEF NotifyPCs, PairsOwned
  <2>4. ASSUME NEW c \in Waiters, Unnotified(c)', a \in Helpers(c) PROVE a \in Helpers(c)'
    <3>1. Ahead(a, c)
      BY <1>1, <2>4 DEF Helpers, SureToTest, WaitPCs
    <3> QED BY <1>1, <1>2, <2>1, <2>3, <3>1 DEF Helpers, Ahead
  <2>5. SleepersCovered'
    BY <1>1, <2>3, <2>4, StillCovered
  <2> QED BY <2>3, <2>5 DEF NotifyInv
<1>3. CASE syncList # {}
  <2>1. PICK S \in SUBSET syncList :
          /\ S # {} /\ taken' = [taken EXCEPT ![a] = S] /\ syncList' = syncList \ S
          /\ Goto(a, "unpark")
    BY <1>3 DEF TakeSync, Picks
  <2>2. /\ PairsOwned /\ taken'[a] = S /\ \A b \in Actors \ {a} : taken'[b] = taken[b]
        /\ S \cap asyncList = {}
    BY <2>1, QueueFacts DEF NotifyInv
  <2>3. /\ PlacesKnown' /\ SleepsOnEmpty' /\ PairsOwned' /\ OnlyActs(a) /\ ~Unnotified(a)'
        /\ \A b \in Actors \ {a} : pc'[b] = pc[b]
    BY <1>1, <2>1, <2>2, NotifierKeeps DEF NotifyPCs, PairsOwned
  <2>4. PICK t \in S : t \in spinList \cup syncList
    BY <2>1
  <2>5. t \in Actors /\ t # a /\ t \notin spinList
    BY <1>1, <2>4, <2>1, QueueFacts
  <2>6. t \in Waiters /\ ~SureToTest(t) /\ SureToTest(t)' /\ \A c : ~Ahead(t, c)
    BY <1>1, <2>1, <2>3, <2>4, <2>5, PoppedTests
  <2>7. ASSUME NEW c \in Waiters PROVE t \notin Helpers(c) /\ t \in Helpers(c)'
    BY <2>5, <2>6 DEF Helpers
  <2>8. SleepersCovered'
    BY <1>1, <2>3, <2>5, <2>7, StillCovered
  <2> QED BY <2>3, <2>8 DEF NotifyInv
<1> QED BY <1>2, <1>3

\* Nobody counts on a notifier while it tells the threads it has popped.
LEMMA TellCovers ==
  ASSUME IInv, NotifyInv, NEW a \in Actors, Store(a) \/ Unpark(a), UNCHANGED items
  PROVE  NotifyInv'
<1> USE DEF asyncVars, spinVars, syncVars, callVars
<1>1. /\ pc[a] \in {"store", "unpark"}
      /\ UNCHANGED <<holder, how, all, gaveUp, wait, items, wstate, asyncList, spinList, syncList>>
  BY DEF Store, Unpark
<1>2. PICK t \in taken[a], p \in {"store", "sync_list", "unpark", "async_list", NotifyDone(a)} :
        taken' = [taken EXCEPT ![a] = @ \ {t}] /\ Goto(a, p)
  BY DEF Store, Unpark, After
<1>3. /\ PairsOwned /\ taken'[a] = taken[a] \ {t}
      /\ \A b \in Actors \ {a} : taken'[b] = taken[b]
  BY <1>2, QueueFacts DEF NotifyInv
<1>4. p # "wake"
  BY <1>2 DEF NotifyDone
<1>5. /\ PlacesKnown' /\ SleepsOnEmpty' /\ PairsOwned' /\ OnlyActs(a) /\ ~Unnotified(a)'
  BY <1>1, <1>2, <1>3, <1>4, NotifierKeeps DEF NotifyPCs, PairsOwned
<1>6. ASSUME NEW c \in Waiters PROVE a \notin Helpers(c)
  BY <1>1 DEF Helpers, Ahead, SureToTest, WaitPCs
<1>7. SleepersCovered'
  BY <1>1, <1>5, <1>6, StillCovered
<1> QED BY <1>5, <1>7 DEF NotifyInv

\* A notify_one that takes a pair goes on to the sleepers whose pairs are left;
\* a notify_all leaves none.
LEMMA TakeAsyncCovers ==
  ASSUME IInv, NotifyInv, NEW a \in Actors, TakeAsync(a), UNCHANGED items PROVE NotifyInv'
<1> USE DEF asyncVars, spinVars, syncVars, callVars
<1>1. pc[a] = "async_list"
      /\ UNCHANGED <<holder, how, all, gaveUp, wait, items, wstate, spinList, syncList>>
  BY DEF TakeAsync
<1>2. PairsOwned
  BY DEF NotifyInv
<1>3. ASSUME NEW c \in Waiters, a \in Helpers(c)
      PROVE  how[c] = "async" /\ c \notin spinList \cup syncList
  BY <1>1, <1>3, QueueFacts DEF Helpers, Ahead, SureToTest, WaitPCs
<1>4. CASE asyncList = {}
  <2>1. Goto(a, NotifyDone(a)) /\ UNCHANGED <<asyncList, taken>> /\ NotifyDone(a) # "wake"
    BY <1>4 DEF TakeAsync, NotifyDone
  <2>2. PlacesKnown' /\ SleepsOnEmpty' /\ PairsOwned' /\ OnlyActs(a) /\ ~Unnotified(a)'
    BY <1>1, <1>2, <2>1, NotifierKeeps DEF NotifyPCs, PairsOwned
  <2>3. ASSUME NEW c \in Waiters, Unnotified(c) PROVE a \notin Helpers(c)
    BY <1>3, <1>4, <2>3 DEF Unnotified
  <2>4. SleepersCovered'
    BY <1>1, <2>2, <2>3, StillCovered
  <2> QED BY <2>2, <2>4 DEF NotifyInv
<1>5. CASE asyncList # {}
  <2>1. PICK S \in SUBSET asyncList :
          /\ taken' = [taken EXCEPT ![a] = S] /\ asyncList' = asyncList \ S
          /\ Goto(a, "wake") /\ (IF all[a] THEN S = asyncList ELSE \E x \in asyncList : S = {x})
    BY <1>5 DEF TakeAsync, Picks
  <2>2. /\ taken'[a] = S /\ \A b \in Actors \ {a} : taken'[b] = taken[b]
        /\ S \subseteq Waits /\ (~all[a] => \E x \in Waits : S = {x})
    BY <2>1, QueueFacts
  <2>3. /\ PlacesKnown' /\ SleepsOnEmpty' /\ PairsOwned' /\ OnlyActs(a) /\ ~Unnotified(a)'
        /\ pc'[a] = "wake"
    BY <1>1, <2>1, <2>2, NotifierKeeps DEF NotifyPCs
  <2>4. ASSUME NEW c \in Waiters, Unnotified(c)', a \in Helpers(c) PROVE a \in Helpers(c)'
    <3>1. how'[c] = "async" /\ c \notin spinList' \cup syncList'
      BY <1>1, <1>3, <2>4
    <3>2. asyncList' # {}
      BY <2>4, <3>1 DEF Unnotified
    <3>3. ~all'[a]
      BY <1>1, <2>1, <3>2
    <3> QED BY <2>3, <3>1, <3>3 DEF Helpers, Ahead
  <2>5. SleepersCovered'
    BY <1>1, <2>3, <2>4, StillCovered
  <2> QED BY <2>3, <2>5 DEF NotifyInv
<1> QED BY <1>4, <1>5

\* A wake finds the owner of its pair still waiting, or notify_one goes on.
LEMMA WakeCovers ==
  ASSUME IInv, NotifyInv, NEW a \in Actors, Wake(a), UNCHANGED items PROVE NotifyInv'
<1> USE DEF asyncVars, spinVars, syncVars, callVars
<1>0. PlacesKnown /\ PairsOwned
  BY DEF NotifyInv
<1>1. /\ pc[a] = "wake"
      /\ UNCHANGED <<holder, how, all, gaveUp, wait, items, asyncList, spinList, syncList>>
  BY DEF Wake
<1>2. PICK w \in taken[a], p \in {"wake", "async_list", NotifyDone(a)} :
        /\ wstate' = [wstate EXCEPT ![w] = IF @ = "waiting" THEN "woken" ELSE @]
        /\ taken' = [taken EXCEPT ![a] = @ \ {w}] /\ Goto(a, p)
        /\ p = "wake" => taken[a] # {w}
        /\ ~all[a] /\ taken[a] = {w} /\ wstate[w] # "waiting" => p = "async_list"
  <2>1. PICK w \in taken[a] :
          /\ wstate' = [wstate EXCEPT ![w] = IF @ = "waiting" THEN "woken" ELSE @]
          /\ taken' = [taken EXCEPT ![a] = @ \ {w}]
          /\ Goto(a, CASE taken[a] # {w} -> "wake"
                       [] ~all[a] /\ wstate[w] # "waiting" -> "async_list"
                       [] OTHER -> NotifyDone(a))
    BY DEF Wake
  <2> DEFINE p == CASE taken[a] # {w} -> "wake"
                    [] ~all[a] /\ wstate[w] # "waiting" -> "async_list"
                    [] OTHER -> NotifyDone(a)
  <2>2. /\ p \in {"wake", "async_list", NotifyDone(a)} /\ (p = "wake" => taken[a] # {w})
        /\ ~all[a] /\ taken[a] = {w} /\ wstate[w] # "waiting" => p = "async_list"
    BY DEF NotifyDone
  <2>3. Goto(a, p)
    BY <2>1
  <2> HIDE DEF p
  <2> QED BY <2>1, <2>2, <2>3
<1>3. taken[a] \subseteq Waits /\ (~all[a] => taken[a] = {w}) /\ w \in Waits /\ w \notin asyncList
  BY <1>0, <1>1, <1>2 DEF PairsOwned
<1>4. /\ taken'[a] = taken[a] \ {w} /\ \A b \in Actors \ {a} : taken'[b] = taken[b]
      /\ \A x \in Waits : wstate'[x] = "waiting" => wstate[x] = "waiting"
      /\ wstate'[w] # "waiting"
      /\ p = "wake" => all[a]
  BY <1>2, <1>3, QueueFacts
<1>5. /\ PlacesKnown' /\ SleepsOnEmpty' /\ PairsOwned' /\ OnlyActs(a) /\ ~Unnotified(a)'
      /\ pc'[a] = p /\ \A b \in Actors \ {a} : pc'[b] = pc[b]
  <2>1. taken'[a] \cap asyncList' = {} /\ p \in NotifyPCs \cup {NotifyDone(a)}
    BY <1>0, <1>1, <1>2, <1>4 DEF PairsOwned, NotifyPCs
  <2>2. p = "wake" => taken'[a] \subseteq Waits /\ (~all[a] => \E x \in Waits : taken'[a] = {x})
    BY <1>3, <1>4
  <2> QED BY <1>1, <1>2, <1>4, <2>1, <2>2, NotifierKeeps DEF NotifyPCs
<1>6. ASSUME NEW c \in Waiters, a \in Helpers(c) PROVE ~all[a] /\ how[c] = "async"
  BY <1>1, <1>6 DEF Helpers, Ahead, SureToTest, WaitPCs
<1>7. SleepersCovered'
  <2>1. CASE wstate[w] = "waiting"
    <3>1. PICK d \in Tasks : wait[d] = w /\ pc[d] \in {"unlock", "await"}
      BY <1>0, <1>3, <2>1 DEF PairsOwned
    <3>2. d \in Actors /\ d # a /\ how[d] = "async" /\ d \in Waiters /\ ~gaveUp[d]
      BY <1>0, <1>1, <3>1, QueueFacts DEF PairsOwned, PlacesKnown, NotifyPCs
    <3>3. ~SureToTest(d) /\ SureToTest(d)' /\ \A c : ~Ahead(d, c)
      <4>1. pc'[d] = pc[d] /\ d \notin spinList \cup syncList
        BY <1>5, <3>2, QueueFacts, CondvarAssumption
      <4> QED BY <1>1, <1>3, <1>4, <2>1, <3>1, <3>2, <4>1
              DEF SureToTest, WillTest, Unnotified, Ahead, WaitPCs
    <3>4. ASSUME NEW c \in Waiters PROVE d \notin Helpers(c) /\ d \in Helpers(c)'
      BY <3>2, <3>3 DEF Helpers
    <3> QED BY <1>1, <1>5, <3>2, <3>4, StillCovered
  <2>2. CASE wstate[w] # "waiting"
    <3>1. ASSUME NEW c \in Waiters, a \in Helpers(c) PROVE a \in Helpers(c)'
      <4>1. ~all[a] /\ how[c] = "async" /\ p = "async_list"
        BY <1>2, <1>3, <1>6, <2>2, <3>1
      <4> QED BY <1>1, <1>5, <4>1 DEF Helpers, Ahead
    <3> QED BY <1>1, <1>5, <3>1, StillCovered
  <2> QED BY <2>1, <2>2
<1> QED BY <1>5, <1>7 DEF NotifyInv

(***************************************************************************)
(* No notification is lost.                                                *)
(***************************************************************************)

LEMMA NotifyInit == Init => NotifyInv
<1> SUFFICES ASSUME Init PROVE NotifyInv
  OBVIOUS
<1> USE QueueAssumption, CondvarAssumption DEF Init, CondInit, Actors, Producers
<1>1. PlacesKnown /\ SleepsOnEmpty
  BY DEF PlacesKnown, SleepsOnEmpty, NotifyPCs
<1>2. PairsOwned
  BY DEF PairsOwned
<1>3. SleepersCovered
  BY DEF SleepersCovered, Unnotified
<1> QED BY <1>1, <1>2, <1>3 DEF NotifyInv

LEMMA NotifierCovers ==
  ASSUME IInv, NotifyInv, NEW a \in Actors, NotifyStep(a), UNCHANGED items PROVE NotifyInv'
BY TakeSpinCovers, TakeSyncCovers, TellCovers, TakeAsyncCovers, WakeCovers DEF NotifyStep

LEMMA NotifyKept == ~DropsWoken /\ IInv /\ NotifyInv /\ [Next]_vars => NotifyInv'
<1> SUFFICES ASSUME ~DropsWoken, IInv, NotifyInv, [Next]_vars PROVE NotifyInv'
  OBVIOUS
<1>0. Waiters \subseteq Actors /\ Producers \subseteq Actors
  BY QueueFacts
<1>1. ASSUME NEW c \in Waiters, Consume(c) \/ Test(c) \/ TimedOut(c) PROVE NotifyInv'
  BY <1>1, ConsumeCovers, TestCovers, TimedOutCovers
<1>2. ASSUME NEW c \in Waiters, Waiting(c) PROVE NotifyInv'
  BY <1>0, <1>2, RegisterCovers, DropGuardCovers, SpinWaitCovers, ParkWaitCovers, AwaitWokenCovers,
     AwaitTimedOutCovers, ForgetCovers, NotifierCovers DEF Waiting, WaitStep, AsyncWait
<1>3. ASSUME NEW c \in Waiters, Locking(c) \/ Passing(c) PROVE NotifyInv'
  BY <1>3, RelockCovers, DeadlineCovers, ParkWaitCovers DEF Locking, Passing
<1>4. ASSUME NEW p \in Producers, Produce(p) \/ Producing(p) PROVE NotifyInv'
  BY <1>0, <1>4, ProduceCovers, NotifiedCovers, NotifierCovers DEF Producing
<1>5. ASSUME NEW t \in Tasks \cap Waiters, Dropping(t) PROVE NotifyInv'
  BY <1>5, DroppingCovers
<1>6. CASE UNCHANGED vars
  <2>1. PlacesKnown' /\ SleepsOnEmpty' /\ PairsOwned'
    BY <1>6 DEF NotifyInv, PlacesKnown, SleepsOnEmpty, PairsOwned, vars, condVars
  <2>2. SleepersCovered'
    BY <1>6 DEF NotifyInv, SleepersCovered, Helpers, Ahead, SureToTest, WillTest, Unnotified, vars,
       condVars
  <2> QED BY <2>1, <2>2 DEF NotifyInv
<1> QED BY <1>1, <1>2, <1>3, <1>4, <1>5, <1>6 DEF Next, Stuck

\* Where no future is dropped after it was woken, no notification is lost: while
\* a waiter sleeps un-notified, every item has a consumer that will test or a
\* notify on its way, for any number of either and in any mix of strategies.
THEOREM NoneIsLost == ASSUME ~DropsWoken PROVE Spec => []NoLostNotify
<1>1. IInv /\ NotifyInv => NoLostNotify
  <2> SUFFICES ASSUME IInv, NotifyInv, NEW c \in Waiters, Unnotified(c) PROVE items <= InFlight
    BY DEF NoLostNotify
  <2> DEFINE N == {p \in Actors : Notifying(p)}
             W == {d \in Waiters : WillTest(d)}
  <2>1. Helpers(c) \subseteq N \cup W
    BY DEF Helpers, Ahead, SureToTest, Notifying, NotifyPCs
  <2>2. N \in SUBSET Actors /\ W \in SUBSET Actors /\ IsFiniteSet(Actors)
    BY QueueFacts
  <2>3. IsFiniteSet(N) /\ IsFiniteSet(W) /\ Cardinality(N) \in Nat /\ Cardinality(W) \in Nat
    BY <2>2, FS_Subset, FS_CardinalityType
  <2>4. /\ IsFiniteSet(N \cup W) /\ IsFiniteSet(N \cap W)
        /\ Cardinality(N \cup W) = Cardinality(N) + Cardinality(W) - Cardinality(N \cap W)
    BY <2>3, FS_Union, FS_Intersection
  <2>5. Cardinality(N \cap W) \in Nat /\ Cardinality(N \cup W) \in Nat
    BY <2>4, FS_CardinalityType
  <2>6. Cardinality(Helpers(c)) <= Cardinality(N \cup W) /\ Cardinality(Helpers(c)) \in Nat
    BY <2>1, <2>4, FS_Subset, FS_CardinalityType
  <2>7. items <= Cardinality(Helpers(c)) /\ items \in Nat
    BY QueueFacts DEF NotifyInv, SleepersCovered
  <2> QED BY <2>3, <2>4, <2>5, <2>6, <2>7 DEF InFlight
<1>2. Spec => []NotifyInv
  BY NotifyInit, NotifyKept, QueueInvariance, PTL DEF Spec
<1> QED BY <1>1, <1>2, QueueInvariance, PTL

=============================================================================
