--------------------------- MODULE CondvarQueue ---------------------------
(* The documented use of the condition variable: consumers wait_*_while the  *)
(* queue is empty, in any strategy, timed or not; producers push under the   *)
(* mutex, release it and notify.                                             *)
EXTENDS Condvar, TLC

CONSTANTS Waiters,          \* the actors that consume; the others produce
          MaxOps,           \* calls per actor
          DropsWoken        \* whether callers drop futures that were woken

Producers == Actors \ Waiters

ASSUME QueueAssumption ==
    /\ IsFiniteSet(Actors) /\ Waiters \subseteq Actors
    /\ MaxOps \in Nat /\ DropsWoken \in BOOLEAN

VARIABLES items,    \* how many items the mutex protects
          ops       \* calls made

vars == <<condVars, items, ops>>

ClientPCs == {"idle", "notified"}

TypeOK ==
    /\ CondTypeOK(ClientPCs)
    /\ items \in Nat
    /\ ops \in [Actors -> 0..MaxOps]

Init == CondInit /\ items = 0 /\ ops = [a \in Actors |-> 0]

Count(a) == pc[a] = "idle" /\ ops[a] < MaxOps /\ ops' = [ops EXCEPT ![a] = @ + 1]

\* A consumer locks and calls wait_*_while or wait_*_timeout_while.
Consume(c) ==
    /\ Count(c)
    /\ \E h \in Strategies(c), d \in BOOLEAN :
         how' = [how EXCEPT ![c] = h] /\ timed' = [timed EXCEPT ![c] = d]
    /\ late' = [late EXCEPT ![c] = FALSE]
    /\ Goto(c, "relock")
    /\ UNCHANGED <<holder, spinVars, syncVars, asyncVars, gaveUp, all, taken, items>>

\* The head of the while loop, with the guard held.
Test(c) ==
    /\ pc[c] = "test"
    /\ IF items = 0 THEN Goto(c, "register") /\ UNCHANGED <<holder, items>>
       ELSE items' = items - 1 /\ holder' = None /\ Goto(c, "idle")
    /\ UNCHANGED <<spinVars, syncVars, asyncVars, callVars, gaveUp, taken, ops>>

\* The timed loops return at once, with the guard, when the wait timed out.
TimedOut(c) ==
    /\ pc[c] = "timedout"
    /\ holder' = None
    /\ gaveUp' = [gaveUp EXCEPT ![c] = FALSE]
    /\ Goto(c, "idle")
    /\ UNCHANGED <<spinVars, syncVars, asyncVars, callVars, taken, items, ops>>

\* A producer locks, pushes, unlocks and enters notify_one or notify_all.
Produce(p) ==
    /\ Count(p) /\ holder = None
    /\ items' = items + 1
    /\ \E b \in BOOLEAN : all' = [all EXCEPT ![p] = b]
    /\ Goto(p, "spin_list")
    /\ UNCHANGED <<holder, spinVars, syncVars, asyncVars, how, timed, late, gaveUp, taken>>

Notified(p) ==
    /\ pc[p] = "notified"
    /\ Goto(p, "idle")
    /\ UNCHANGED <<holder, spinVars, syncVars, asyncVars, callVars, gaveUp, taken,
                   items, ops>>

Waiting(c) == (WaitStep(c) \/ NotifyStep(c)) /\ UNCHANGED <<items, ops>>
Locking(c) == Relock(c) /\ UNCHANGED <<items, ops>>
Passing(c) == (DeadlinePasses(c) \/ ParkSpurious(c)) /\ UNCHANGED <<items, ops>>
Producing(p) == Notified(p) \/ (NotifyStep(p) /\ UNCHANGED <<items, ops>>)

\* A future is dropped before, or also after, it was woken.
Dropping(t) ==
    /\ DropsWoken \/ (pc[t] = "await" /\ wstate[wait[t]] = "waiting")
    /\ WaitDropped(t) /\ UNCHANGED <<items, ops>>

\* Nobody is left to move: consumers may wait for items that never come.
Stuck ==
    /\ \A a \in Actors : (pc[a] = "idle" /\ ops[a] = MaxOps) \/ Unnotified(a)
    /\ UNCHANGED vars

Next ==
    \/ \E c \in Waiters : \/ Consume(c) \/ Test(c) \/ TimedOut(c)
                          \/ Waiting(c) \/ Locking(c) \/ Passing(c)
    \/ \E p \in Producers : Produce(p) \/ Producing(p)
    \/ \E t \in Tasks \cap Waiters : Dropping(t)
    \/ Stuck

Spec == Init /\ [][Next]_vars

(***************************************************************************)
(* Properties.                                                             *)
(***************************************************************************)

\* Awake and certain to test the condition: woken, or between two tests.
WillTest(c) ==
    /\ pc[c] \in WaitPCs \cup NotifyPCs
    /\ ~Unnotified(c) /\ pc[c] # "register" /\ pc[c] # "timedout"
    /\ ~gaveUp[c]

\* Where a notification is: with a notifier, or with a waiter it has woken.
InFlight == Cardinality({p \in Actors : Notifying(p)})
            + Cardinality({c \in Waiters : WillTest(c)})

\* No lost notification: while a waiter sleeps un-notified, every item has
\* somebody awake for it, a consumer that will test or a notify on its way.
NoLostNotify == (\E c \in Waiters : Unnotified(c)) => items <= InFlight

\* The same in time: an item that meets a sleeper is taken, or wakes it.
ItemsReachSleepers ==
    items > 0 /\ (\E c \in Waiters : Unnotified(c))
      ~> (items = 0 \/ \A c \in Waiters : ~Unnotified(c))

(***************************************************************************)
(* Why no notification is lost, where no future is dropped that was woken. *)
(***************************************************************************)

\* Where actors may be: producers only notify, consumers only pass on the
\* notification of a wait that they report as timed out.
PlacesKnown ==
    /\ \A a \in Actors : gaveUp[a] => pc[a] \in {"relock", "timedout"} \cup NotifyPCs
    /\ \A a \in Producers : pc[a] \in {"idle", "notified"} \cup NotifyPCs /\ ~gaveUp[a]
    /\ \A c \in Waiters : pc[c] \in NotifyPCs => gaveUp[c]

\* A consumer goes to sleep with the lock held and no item to take.
SleepsOnEmpty ==
    /\ \A c \in Waiters : pc[c] \in {"test", "register", "unlock", "timedout"} => holder = c
    /\ \A c \in Waiters : pc[c] \in {"register", "unlock"} => items = 0

\* A pair that can still be woken has its owner, who has not been woken yet; a
\* notify_one has one pair in hand, which is no longer in the list.
PairsOwned ==
    /\ \A a \in Actors : how[a] = "async" => a \in Tasks
    /\ \A a \in Actors : pc[a] \in {"await", "forget"} => how[a] = "async"
    /\ \A t \in Tasks : pc[t] = "unlock" => how[t] = "async"
    /\ \A t \in Tasks : pc[t] \in {"unlock", "await", "forget"} => wait[t] \in Waits
    /\ \A w \in Waits : wstate[w] = "waiting" =>
          \E t \in Tasks : wait[t] = w /\ pc[t] \in {"unlock", "await"}
    /\ \A a \in Actors : taken[a] \cap asyncList = {}
    /\ \A a \in Actors : pc[a] = "wake" =>
          taken[a] \subseteq Waits /\ (~all[a] => \E w \in Waits : taken[a] = {w})

\* Notifier a comes past the list in which the sleeper c has its entry.
Ahead(a, c) ==
    \/ c \in spinList /\ pc[a] = "spin_list"
    \/ c \in syncList /\ pc[a] \in {"spin_list", "sync_list"}
    \/ /\ how[c] = "async"
       /\ \/ pc[a] \in {"spin_list", "sync_list", "async_list"}
          \/ pc[a] = "wake" /\ ~all[a]

\* Consumer c will test, even if the caller drops its future while it may: a task
\* whose entry was taken is not woken before its pair says so.
SureToTest(c) ==
    /\ pc[c] \in WaitPCs /\ WillTest(c)
    /\ ~(pc[c] \in {"unlock", "await"} /\ how[c] = "async" /\ wstate[wait[c]] = "waiting")

Helpers(c) == {a \in Actors : Ahead(a, c) \/ (a \in Waiters /\ SureToTest(a))}

\* Every item has somebody who either tests or comes past the sleeper.
SleepersCovered == \A c \in Waiters : Unnotified(c) => items <= Cardinality(Helpers(c))

NotifyInv == PlacesKnown /\ SleepsOnEmpty /\ PairsOwned /\ SleepersCovered

\* Consumers of a kind are alike, and so are producers.
Symmetric == Permutations(Producers) \cup Permutations(CanPark \cap Waiters)
             \cup Permutations(Tasks) \cup Permutations(Waits)
=============================================================================
