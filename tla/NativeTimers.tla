---------------------------- MODULE NativeTimers ----------------------------
(* sleep_async off the browser: one driver thread, a heap of deadlines and a  *)
(* map of the wakes still pending, under one lock and one condition variable. *)
EXTENDS Naturals, FiniteSets

CONSTANTS Timers,        \* Timer futures, each made once
          Durations      \* what is asked of them

Never == 1 + CHOOSE d \in Durations : \A e \in Durations : e <= d

VARIABLES heap,     \* the deadlines pushed and not popped, as time left, or Never
          pending,  \* timers whose wake the driver still holds
          driver,   \* "run" | "asleep" | "waking"
          alarm,    \* time left of the driver's wait, or Never: no timeout
          target,   \* the timer whose wake runs with the lock released
          timer     \* each future: its state and the time to go

vars == <<heap, pending, driver, alarm, target, timer>>

Nothing == "none"
Init ==
    /\ heap = [t \in Timers |-> Never] /\ pending = {}
    /\ driver = "run" /\ alarm = Never /\ target = Nothing
    /\ timer = [t \in Timers |-> [st |-> "unmade", toGo |-> 0]]

\* notify_one: nobody but the driver waits; it is lost unless the driver sleeps.
Notify == driver' = IF driver = "asleep" THEN "run" ELSE driver

\* The caller holds the lock in arm and in cancel, the driver does while it
\* scans: none of them is interrupted by another.
Arm(t, d) ==
    /\ timer[t].st = "unmade"
    /\ timer' = [timer EXCEPT ![t] = [st |-> "waiting", toGo |-> d]]
    /\ heap' = [heap EXCEPT ![t] = d] /\ pending' = pending \cup {t}
    /\ Notify
    /\ UNCHANGED <<alarm, target>>

\* Timer::drop.  The deadline stays in the heap until the driver meets it.
Cancel(t) ==
    /\ timer[t].st \in {"waiting", "woken"}
    /\ timer' = [timer EXCEPT ![t].st = "dropped"]
    /\ pending' = pending \ {t}
    /\ IF t \in pending THEN Notify ELSE UNCHANGED driver
    /\ UNCHANGED <<heap, alarm, target>>

Poll(t) == /\ timer[t].st = "woken" /\ timer' = [timer EXCEPT ![t].st = "done"]
           /\ UNCHANGED <<heap, pending, driver, alarm, target>>

\* ------------------------------------------------------------- the driver
\* One turn of its loop, under the lock: stale deadlines at the top are popped,
\* then it sleeps until the earliest one, or takes the wake that is due.
Earliest(h) == {t \in Timers : h[t] # Never /\ \A u \in Timers : h[t] <= h[u]}
Scan ==
    /\ driver = "run"
    /\ LET live == [t \in Timers |->
              IF t \notin pending /\ \A u \in pending : heap[t] <= heap[u]
              THEN Never ELSE heap[t]]
       IN IF \A t \in Timers : live[t] = Never
          THEN /\ driver' = "asleep" /\ alarm' = Never /\ heap' = live
               /\ UNCHANGED <<pending, target>>
          ELSE \E t \in Earliest(live) \cap pending :
             IF live[t] > 0
             THEN /\ driver' = "asleep" /\ alarm' = live[t] /\ heap' = live
                  /\ UNCHANGED <<pending, target>>
             ELSE /\ driver' = "waking" /\ target' = t /\ alarm' = Never
                  /\ heap' = [live EXCEPT ![t] = Never] /\ pending' = pending \ {t}
    /\ UNCHANGED timer

\* The wake runs without the lock, so its timer may be dropped by then.
Wake ==
    /\ driver = "waking" /\ driver' = "run" /\ target' = Nothing
    /\ timer' = IF timer[target].st = "waiting"
                THEN [timer EXCEPT ![target].st = "woken"] ELSE timer
    /\ UNCHANGED <<heap, pending, alarm>>

TimedOut == /\ driver = "asleep" /\ alarm = 0 /\ driver' = "run"
            /\ UNCHANGED <<heap, pending, alarm, target, timer>>
Spurious == /\ driver = "asleep" /\ driver' = "run"
            /\ UNCHANGED <<heap, pending, alarm, target, timer>>

Less(n) == IF n \in {0, Never} THEN n ELSE n - 1
Tick == /\ heap' = [t \in Timers |-> Less(heap[t])] /\ alarm' = Less(alarm)
        /\ timer' = [t \in Timers |-> [timer[t] EXCEPT !.toGo = IF @ = 0 THEN 0 ELSE @ - 1]]
        /\ UNCHANGED <<pending, driver, target>>

Driver == Scan \/ Wake \/ TimedOut
Next == \/ Tick \/ Driver \/ Spurious
        \/ \E t \in Timers : Cancel(t) \/ Poll(t) \/ \E d \in Durations : Arm(t, d)
Spec == Init /\ [][Next]_vars
-----------------------------------------------------------------------------
\* The driver never sleeps past a deadline, however timers are armed, dropped
\* and popped while it is on its way to sleep, and no wake comes too early or is
\* lost: a timer that still waits is pending, about to be woken, or dropped.
DriverOnTime ==
    /\ driver = "asleep" => \A t \in pending : alarm # Never /\ alarm <= heap[t]
    /\ \A t \in Timers : timer[t].st = "woken" => timer[t].toGo = 0
    /\ \A t \in Timers : timer[t].st = "waiting" <=> t \in pending \/
                            (target = t /\ timer[t].st # "dropped")
\* Why: a wake that is held has its deadline in the heap, no later than it should
\* be, and the driver runs no wake while it sleeps or scans.
TypeOK ==
    /\ heap \in [Timers -> 0..Never] /\ pending \subseteq Timers
    /\ driver \in {"run", "asleep", "waking"} /\ alarm \in 0..Never
    /\ target \in Timers \cup {Nothing}
    /\ timer \in [Timers -> [st : {"unmade", "waiting", "woken", "done", "dropped"}, toGo : Nat]]
IInv ==
    /\ TypeOK /\ DriverOnTime
    /\ target # Nothing <=> driver = "waking"
    /\ target # Nothing => target \notin pending /\ timer[target].toGo = 0
    /\ \A t \in pending : heap[t] # Never /\ timer[t].toGo <= heap[t]
=============================================================================
