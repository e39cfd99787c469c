------------------------------- MODULE Timers -------------------------------
(* sleep_async in a browser: futures that own a token, the registry of wakes  *)
(* that every thread shares, and the root realm's map of deadlines, which     *)
(* workers reach by messages that are ordered only per worker.                *)
EXTENDS Integers, Sequences, FiniteSets, Functions

CONSTANTS Sleeps,       \* SleepAsync futures, each made once
          Workers,      \* realms that proxy to the root
          Root,         \* the root realm
          Durations,    \* what is asked of sleep_async
          MaxTimeout,   \* MAX_TIMEOUT, the longest delay of one host timeout
          TokenSpace    \* tokens are counted modulo this (2^32)

Realms == Workers \cup {Root}
NoToken == 0            \* the code never hands out token 0
Tokens == 1..(TokenSpace - 1)
Never == MaxTimeout + 1

VARIABLES deadline,     \* __wl_timers: per token, the time that is left, or Never
          timeout,      \* the time that is left of the one host timeout, or Never
          registry,     \* TIMERS: the tokens whose wake waits to be consumed
          next,         \* NEXT_TOKEN
          mail,         \* per worker, messages on their way to the root
          sleep         \* each future: its state, token, legs and the time to go

vars == <<deadline, timeout, registry, next, mail, sleep>>

Unmade == [st |-> "unmade", token |-> NoToken, remaining |-> 0, toGo |-> 0]

Init ==
    /\ deadline = [t \in Tokens |-> Never] /\ timeout = Never
    /\ registry = {} /\ next = 1
    /\ mail = [w \in Workers |-> <<>>]
    /\ sleep = [f \in Sleeps |-> Unmade]

Lesser(a, b) == IF a < b THEN a ELSE b
Earliest(d) == CHOOSE e \in Range(d) : \A x \in Range(d) : e <= x

\* ------------------------------------------------------- the root realm's map
\* The one host timeout is set anew to the earliest deadline.
ScheduleUnlessDue(d) == IF timeout = 0 THEN Never ELSE Earliest(d)
Schedule(d) == Earliest(d)

\* The root's map and the registry, after one request.
ArmLocal(h, m) == [h EXCEPT !.deadline[m.t] = m.delay]
\* A token that is no longer in the map was consumed already.
CancelLocalBlindly(h, m) == [deadline |-> [h.deadline EXCEPT ![m.t] = Never],
                             registry |-> h.registry \ {m.t}]
CancelLocal(h, m) ==
    IF h.deadline[m.t] = Never THEN h
    ELSE [deadline |-> [h.deadline EXCEPT ![m.t] = Never], registry |-> h.registry \ {m.t}]
Handle(h, m) == IF m.do = "arm" THEN ArmLocal(h, m) ELSE CancelLocal(h, m)
Handles(h, msgs) ==
    LET first == Handle(h, Head(msgs))          \* there are one or two
        after == IF Len(msgs) = 1 THEN first ELSE Handle(first, msgs[2])
    IN /\ deadline' = after.deadline /\ registry' = after.registry
       /\ timeout' = Schedule(after.deadline)

Drain ==
    LET ready == {t \in Tokens : deadline[t] = 0}
        left == [t \in Tokens |-> IF t \in ready THEN Never ELSE deadline[t]]
    IN /\ timeout = 0
       /\ deadline' = left /\ timeout' = Schedule(left)
       /\ registry' = registry \ ready
       /\ sleep' = [f \in Sleeps |->
             IF sleep[f].st = "waiting" /\ sleep[f].token \in ready \cap registry
             THEN [sleep[f] EXCEPT !.st = "woken"] ELSE sleep[f]]
       /\ UNCHANGED <<next, mail>>

\* ------------------------------------------------ Timer::new and Timer::drop
ArmMsg(t, delay) == [do |-> "arm", t |-> t, delay |-> delay]
CancelMsg(t) == [do |-> "cancel", t |-> t, delay |-> 0]

\* What realm r asks of the root: done at once there, posted from a worker.
Ask(r, reg, msgs) ==
    IF r = Root
    THEN Handles([deadline |-> deadline, registry |-> reg], msgs) /\ UNCHANGED mail
    ELSE /\ mail' = [mail EXCEPT ![r] = @ \o msgs] /\ registry' = reg
         /\ UNCHANGED <<deadline, timeout>>

\* The counter goes on until it meets a token that is not registered.
FreshToken ==
    LET steps(t) == (t - next) % TokenSpace
    IN CHOOSE t \in Tokens \ registry : \A u \in Tokens \ registry : steps(t) <= steps(u)

\* One leg: a fresh token is registered and armed, then the timer of the leg
\* before is dropped.
Leg(f, r, rest, old, entry) ==
    LET t == FreshToken
        first == Lesser(rest, MaxTimeout)
    IN /\ Tokens \ registry # {}
       /\ next' = (t + 1) % TokenSpace
       /\ sleep' = [sleep EXCEPT ![f] = [entry EXCEPT !.st = "waiting", !.token = t,
                                                      !.remaining = rest - first]]
       /\ Ask(r, registry \cup {t},
              <<ArmMsg(t, first)>> \o (IF old = NoToken THEN <<>> ELSE <<CancelMsg(old)>>))

New(f, r, dur) ==
    /\ sleep[f].st = "unmade"
    /\ Leg(f, r, dur, NoToken, [Unmade EXCEPT !.toGo = dur])

\* SleepAsync::poll, in whichever realm runs the task by then.
Poll(f, r) ==
    /\ sleep[f].st = "woken"
    /\ IF sleep[f].remaining = 0
       THEN /\ sleep' = [sleep EXCEPT ![f].st = "done"]
            /\ UNCHANGED <<deadline, timeout, registry, next, mail>>
       ELSE Leg(f, r, sleep[f].remaining, sleep[f].token, sleep[f])

\* The future is dropped: its timer is cancelled, whatever became of it.
DropSleep(f, r) ==
    /\ sleep[f].st \in {"waiting", "woken", "done"}
    /\ sleep' = [sleep EXCEPT ![f].st = "dropped"]
    /\ Ask(r, registry, <<CancelMsg(sleep[f].token)>>)
    /\ UNCHANGED next

\* The root handles a worker's next message.
Deliver(w) ==
    /\ mail[w] # <<>>
    /\ mail' = [mail EXCEPT ![w] = Tail(@)]
    /\ Handles([deadline |-> deadline, registry |-> registry], <<Head(mail[w])>>)
    /\ UNCHANGED <<next, sleep>>

\* Time passes; a timeout that is due stays due until it is drained.
Less(t) == IF t \in {0, Never} THEN t ELSE t - 1
Tick ==
    /\ deadline' = [t \in Tokens |-> Less(deadline[t])] /\ timeout' = Less(timeout)
    /\ sleep' = [f \in Sleeps |-> [sleep[f] EXCEPT !.toGo = IF @ = 0 THEN 0 ELSE @ - 1]]
    /\ UNCHANGED <<registry, next, mail>>

Next ==
    \/ Tick \/ Drain
    \/ \E w \in Workers : Deliver(w)
    \/ \E f \in Sleeps, r \in Realms :
          (\E d \in Durations : New(f, r, d)) \/ Poll(f, r) \/ DropSleep(f, r)

\* The host's clock, timeouts and message ports keep going, and a woken task is
\* polled.  Nothing obliges anybody to make or to drop a sleep.
Fairness ==
    /\ WF_vars(Tick) /\ WF_vars(Drain)
    /\ \A w \in Workers : WF_vars(Deliver(w))
    /\ \A f \in Sleeps : WF_vars(\E r \in Realms : Poll(f, r))
Spec == Init /\ [][Next]_vars /\ Fairness
-----------------------------------------------------------------------------
Arming(t) == \E w \in Workers : \E i \in 1..Len(mail[w]) :
                mail[w][i].do = "arm" /\ mail[w][i].t = t

\* A registered wake is consumed exactly once: either its arm message is on its
\* way or the root holds its deadline, whatever order arm, cancel and fire are
\* handled in; a sleep that waits has its wake there.
TokensOnce ==
    /\ \A t \in Tokens : t \in registry <=> (Arming(t) # (deadline[t] # Never))
    /\ \A f \in Sleeps : sleep[f].st = "waiting" => sleep[f].token \in registry
    /\ \A f, g \in Sleeps : f # g /\ {sleep[f].st, sleep[g].st} \subseteq {"waiting"}
                            => sleep[f].token # sleep[g].token

\* "Treat the duration as a floor": no sleep is over before its duration, however
\* many legs it was cut into.
SleepsLongEnough ==
    \A f \in Sleeps : sleep[f].st = "done" => sleep[f].toGo = 0

\* A sleep that nobody drops ends, and the wake of one that was dropped is released.
SleepEnds == \A f \in Sleeps : sleep[f].st = "waiting" ~> sleep[f].st \in {"done", "dropped"}
WakesReleased == <>[](\A f \in Sleeps : sleep[f].st \in {"unmade", "done", "dropped"})
                 => <>[](registry = {})
\* Why, as long as the counter has not gone round: tokens are used in order, each
\* is armed once, and no cancellation is on its way for a sleep that waits.
Messages == [do : {"arm", "cancel"}, t : Tokens, delay : 0..MaxTimeout]
Entries == [st : {"unmade", "waiting", "woken", "done", "dropped"},
            token : Nat, remaining : Nat, toGo : Nat]
TypeOK ==
    /\ deadline \in [Tokens -> 0..Never] /\ registry \subseteq Tokens
    /\ next \in 0..(TokenSpace - 1)
    /\ mail \in [Workers -> Seq(Messages)] /\ sleep \in [Sleeps -> Entries]
Sent(m) == \E w \in Workers : \E i \in 1..Len(mail[w]) : mail[w][i] = m
ArmedOnce ==
    \A v, w \in Workers : \A i \in 1..Len(mail[v]), k \in 1..Len(mail[w]) :
        mail[v][i].do = "arm" /\ mail[w][k].do = "arm" /\ mail[v][i].t = mail[w][k].t
        => v = w /\ i = k
Registered(t) == /\ t \in registry <=> Arming(t) \/ deadline[t] # Never
                 /\ Arming(t) => deadline[t] = Never
InTime(s, delay) == s.toGo <= s.remaining + delay
SleepOK(f) ==
    LET s == sleep[f]
    IN /\ s.st # "unmade" => s.token \in Tokens /\ s.token < next
       /\ s.st = "waiting" =>
             /\ s.token \in registry
             /\ \A m \in Messages : Sent(m) /\ m.t = s.token => m.do = "arm" /\ InTime(s, m.delay)
             /\ deadline[s.token] # Never => InTime(s, deadline[s.token])
       /\ s.st = "woken" => InTime(s, 0)
       /\ s.st = "done" => s.toGo = 0
IInv ==
    /\ TypeOK /\ next # 0 /\ ArmedOnce
    /\ \A t \in Tokens : Registered(t) /\ (t \in registry => t < next)
    /\ \A m \in Messages : Sent(m) => m.t < next
    /\ \A f \in Sleeps : SleepOK(f)
    /\ \A f, g \in Sleeps :
          f # g /\ sleep[f].st # "unmade" /\ sleep[g].st # "unmade"
          => sleep[f].token # sleep[g].token
=============================================================================
