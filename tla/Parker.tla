------------------------------ MODULE Parker ------------------------------
(* park, park_timeout and unpark on one thread's parking_state, over the     *)
(* wasm instructions memory.atomic.wait32 and memory.atomic.notify.  The     *)
(* instructions are external: wait32 compares and enqueues in one step and   *)
(* returns only when notified, on a different value, or on a timeout;        *)
(* notify dequeues the waiter if there is one.  One thread parks (only the   *)
(* owner of the state ever does); any number of others unpark it.            *)
EXTENDS Naturals

CONSTANTS Unparkers,   \* threads that unpark the owner
          MaxParks,    \* bound on the park calls the owner makes
          MaxUnparks   \* bound on the unpark calls of each unparker

VARIABLES
    token,    \* parking_state: 1 when an unpark token is present
    queued,   \* the owner is on the wait queue of the address
    owner,    \* where the owner is
    timed,    \* the owner's call is park_timeout
    at,       \* where each unparker is
    parks, unparks

vars == <<token, queued, owner, timed, at, parks, unparks>>

TypeOK ==
    /\ token \in {0, 1}
    /\ queued \in BOOLEAN
    /\ owner \in {"running", "claim", "wait", "asleep", "woken"}
    /\ timed \in BOOLEAN
    /\ at \in [Unparkers -> {"idle", "notify"}]
    /\ parks \in Nat
    /\ unparks \in [Unparkers -> Nat]

Init ==
    /\ token = 0 /\ queued = FALSE
    /\ owner = "running" /\ timed = FALSE
    /\ at = [u \in Unparkers |-> "idle"]
    /\ parks = 0 /\ unparks = [u \in Unparkers |-> 0]

(***************************************************************************)
(* The owner.                                                              *)
(***************************************************************************)

Call(b) ==
    /\ owner = "running" /\ parks < MaxParks
    /\ parks' = parks + 1
    /\ timed' = b
    /\ owner' = "claim"
    /\ UNCHANGED <<token, queued, at, unparks>>

ParkWait        == Call(FALSE)
ParkWaitTimeout == Call(TRUE)

\* compare_exchange(1, 0): a pending token is consumed without waiting.
Claim ==
    /\ owner = "claim"
    /\ owner' = IF token = 1 THEN "running" ELSE "wait"
    /\ token' = 0
    /\ UNCHANGED <<queued, timed, at, parks, unparks>>

\* Mutant: the owner goes to sleep without comparing the value.
WaitBlindly ==
    /\ owner = "wait"
    /\ queued' = TRUE /\ owner' = "asleep"
    /\ UNCHANGED <<token, timed, at, parks, unparks>>

\* memory_atomic_wait32(p, 0, ..): sleep while the value is 0.  On another
\* value park loops to consume the token, and park_timeout consumes it here.
Wait ==
    /\ owner = "wait"
    /\ IF token = 0
       THEN queued' = TRUE /\ owner' = "asleep"
       ELSE owner' = (IF timed THEN "woken" ELSE "claim") /\ UNCHANGED queued
    /\ UNCHANGED <<token, timed, at, parks, unparks>>

\* park_timeout returns WaitResult::TimedOut and leaves the token alone.
TimesOut ==
    /\ owner = "asleep" /\ queued /\ timed
    /\ queued' = FALSE /\ owner' = "running"
    /\ UNCHANGED <<token, timed, at, parks, unparks>>

\* Notified (or, timed, found another value): store 0 and return.
Consume ==
    /\ \/ owner = "asleep" /\ ~queued
       \/ owner = "woken"
    /\ token' = 0
    /\ owner' = "running"
    /\ UNCHANGED <<queued, timed, at, parks, unparks>>

(***************************************************************************)
(* unpark.                                                                 *)
(***************************************************************************)

Store(u) ==
    /\ at[u] = "idle" /\ unparks[u] < MaxUnparks
    /\ unparks' = [unparks EXCEPT ![u] = @ + 1]
    /\ token' = 1
    /\ at' = [at EXCEPT ![u] = "notify"]
    /\ UNCHANGED <<queued, owner, timed, parks>>

\* Mutant: the notify is skipped.
NotifyNobody(u) ==
    /\ at[u] = "notify"
    /\ at' = [at EXCEPT ![u] = "idle"]
    /\ UNCHANGED <<token, queued, owner, timed, parks, unparks>>

Notify(u) ==
    /\ at[u] = "notify"
    /\ queued' = FALSE
    /\ at' = [at EXCEPT ![u] = "idle"]
    /\ UNCHANGED <<token, owner, timed, parks, unparks>>

\* The owner has made its calls, or sleeps and nobody is left to unpark it.
Finished ==
    /\ \/ owner = "running" /\ parks = MaxParks
       \/ owner = "asleep" /\ queued
    /\ \A u \in Unparkers : at[u] = "idle" /\ unparks[u] = MaxUnparks
    /\ UNCHANGED vars

Owner == Claim \/ Wait \/ Consume
Next ==
    \/ ParkWait \/ ParkWaitTimeout \/ Owner \/ TimesOut
    \/ \E u \in Unparkers : Store(u) \/ Notify(u)
    \/ Finished

Spec == Init /\ [][Next]_vars

(***************************************************************************)
(* Properties.                                                             *)
(***************************************************************************)

\* The owner never sleeps over its token: if one is present while it is on the
\* wait queue, the unparker that stored it has still to notify.
NoSleepOverToken ==
    queued /\ token = 1 => \E u \in Unparkers : at[u] = "notify"

\* The wait queue holds the owner only while it is inside wait32.
QueuedIsAsleep == queued => owner = "asleep"

IInv == TypeOK /\ QueuedIsAsleep /\ NoSleepOverToken

\* A token of 1 is a permit until the return that consumes it.
Permit == token = 1
Parked == IF owner = "running" THEN "no" ELSE IF timed THEN "park_timeout" ELSE "park"
=============================================================================
