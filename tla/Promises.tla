------------------------------ MODULE Promises ------------------------------
(* JsFuture: a JavaScript promise awaited from Rust through two one-argument  *)
(* closures, whose registry ids its callbacks carry for ever.                 *)
EXTENDS Naturals, Sequences, FiniteSets, SequencesExt

CONSTANTS Futures        \* JsFutures, each made once, with a promise of its own

Kinds == {"ok", "err"}
Unsettled == [kind |-> "none", from |-> "nobody"]

VARIABLES slots,    \* ONE_ARG's slots: whose settle callback each one holds
          free,     \* its free list
          promise,  \* each promise: how it settled, and whether it told `then`
          fut,      \* each future: its state and the ids of its closures
          outcome   \* Shared::outcome

vars == <<slots, free, promise, fut, outcome>>

Gone == [f |-> "nobody", kind |-> "none"]
Unmade == [st |-> "unmade", ok |-> 0, err |-> 0]

Init ==
    /\ slots = <<>> /\ free = <<>>
    /\ promise = [f \in Futures |-> [kind |-> "none", told |-> FALSE]]
    /\ fut = [f \in Futures |-> Unmade]
    /\ outcome = [f \in Futures |-> Unsettled]

\* Registry::insert: the id freed last is used first.
Insert(r, callback) ==
    IF r.free # <<>>
    THEN [slots |-> [r.slots EXCEPT ![Last(r.free)] = callback],
          free |-> Front(r.free), id |-> Last(r.free)]
    ELSE [slots |-> Append(r.slots, callback), free |-> <<>>, id |-> Len(r.slots) + 1]

New(f) ==
    LET ok == Insert([slots |-> slots, free |-> free], [f |-> f, kind |-> "ok"])
        err == Insert([slots |-> ok.slots, free |-> ok.free], [f |-> f, kind |-> "err"])
    IN /\ fut[f] = Unmade
       /\ slots' = err.slots /\ free' = err.free
       /\ fut' = [fut EXCEPT ![f] = [st |-> "idle", ok |-> ok.id, err |-> err.id]]
       /\ UNCHANGED <<promise, outcome>>

\* A settled future keeps its closures until it is dropped; both ids are freed.
Drop(f) ==
    /\ fut[f].st \notin {"unmade", "dropped"}
    /\ fut' = [fut EXCEPT ![f].st = "dropped"]
    /\ slots' = [slots EXCEPT ![fut[f].ok] = Gone, ![fut[f].err] = Gone]
    /\ free' = free \o <<fut[f].ok, fut[f].err>>
    /\ UNCHANGED <<promise, outcome>>

Poll(f) ==
    /\ fut[f].st \in {"idle", "waiting", "woken"}
    /\ IF outcome[f] = Unsettled THEN fut' = [fut EXCEPT ![f].st = "waiting"]
       ELSE fut' = [fut EXCEPT ![f].st = "done"]
    /\ UNCHANGED <<slots, free, promise, outcome>>

\* The promise settles, once, before or after anybody awaits it.
Resolve(p, kind) ==
    /\ promise[p].kind = "none" /\ promise' = [promise EXCEPT ![p].kind = kind]
    /\ UNCHANGED <<slots, free, fut, outcome>>

\* settle: the first outcome counts and wakes the task that waits.
SettleAsleep(f, kind, p) ==
    /\ outcome' = [outcome EXCEPT ![f] = [kind |-> kind, from |-> p]] /\ UNCHANGED fut
Settle(f, kind, p) ==
    IF outcome[f] # Unsettled THEN UNCHANGED <<outcome, fut>>
    ELSE /\ outcome' = [outcome EXCEPT ![f] = [kind |-> kind, from |-> p]]
         /\ fut' = IF fut[f].st = "waiting" THEN [fut EXCEPT ![f].st = "woken"] ELSE fut

\* A settled promise calls the function it was given for how it settled, which
\* calls whatever closure has that function's id by then.
Tell(p) ==
    LET callback == slots[IF promise[p].kind = "ok" THEN fut[p].ok ELSE fut[p].err]
    IN /\ promise[p].kind # "none" /\ ~promise[p].told /\ fut[p] # Unmade
       /\ promise' = [promise EXCEPT ![p].told = TRUE]
       /\ IF callback = Gone THEN UNCHANGED <<outcome, fut>>
          ELSE Settle(callback.f, callback.kind, p)
       /\ UNCHANGED <<slots, free>>

Next == \E f \in Futures : New(f) \/ Drop(f) \/ Poll(f) \/ Tell(f)
                           \/ \E kind \in Kinds : Resolve(f, kind)
Spec == Init /\ [][Next]_vars
-----------------------------------------------------------------------------
\* A task that sleeps on a promise is woken when the promise settles: none waits
\* on a promise that has told its callbacks.
AwaitedSettles == \A f \in Futures : fut[f].st = "waiting" => ~promise[f].told

\* "Dropping it removes them from the closure registry and the promise's eventual
\* callbacks become no-ops": a future ends with what its own promise said.
OutcomeIsOwn == \A f \in Futures : outcome[f] # Unsettled => outcome[f].from = f

\* Why nobody sleeps on: a future that is not dropped is behind both of its ids,
\* free ids hold nothing, and a promise that has told has found its future there.
Callbacks == [f : Futures, kind : Kinds] \cup {Gone}
TypeOK ==
    /\ slots \in Seq(Callbacks) /\ free \in Seq(Nat)
    /\ promise \in [Futures -> [kind : Kinds \cup {"none"}, told : BOOLEAN]]
    /\ fut \in [Futures -> [st : {"unmade", "idle", "waiting", "woken", "done", "dropped"},
                            ok : Nat, err : Nat]]
    /\ outcome \in [Futures -> [kind : Kinds \cup {"none"}, from : Futures \cup {"nobody"}]]
Holds(id, f, kind) == id \in 1..Len(slots) /\ slots[id] = [f |-> f, kind |-> kind]
IInv ==
    /\ TypeOK
    /\ \A i \in 1..Len(free) :
          /\ free[i] \in 1..Len(slots) /\ slots[free[i]] = Gone
          /\ \A k \in 1..Len(free) : free[i] = free[k] => i = k
    /\ \A f \in Futures :
          /\ IF fut[f].st = "unmade" THEN fut[f] = Unmade
             ELSE fut[f].ok \in 1..Len(slots) /\ fut[f].err \in 1..Len(slots)
          /\ fut[f].st \notin {"unmade", "dropped"} =>
                Holds(fut[f].ok, f, "ok") /\ Holds(fut[f].err, f, "err")
          /\ promise[f].told =>
                fut[f] # Unmade /\ (fut[f].st # "dropped" => outcome[f] # Unsettled)
          /\ fut[f].st = "waiting" => outcome[f] = Unsettled
=============================================================================
