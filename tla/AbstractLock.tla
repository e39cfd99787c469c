--------------------------- MODULE AbstractLock ---------------------------
(* What Mutex promises its callers, with no word on how they wait: an actor *)
(* asks for the lock, gets it when nobody has it, or gives up; and a lock   *)
(* that is free while somebody keeps asking is granted to somebody.         *)
CONSTANT Actors
VARIABLE st

Init == st = [a \in Actors |-> "out"]

Owners  == {a \in Actors : st[a] = "in"}
Askers  == {a \in Actors : st[a] = "asking"}

Ask(a)    == st[a] = "out" /\ st' = [st EXCEPT ![a] = "asking"]
Enter(a)  == st[a] # "in" /\ Owners = {} /\ st' = [st EXCEPT ![a] = "in"]
GiveUp(a) == st[a] = "asking" /\ st' = [st EXCEPT ![a] = "out"]
Leave(a)  == st[a] = "in" /\ st' = [st EXCEPT ![a] = "out"]

Next == \E a \in Actors : Ask(a) \/ Enter(a) \/ GiveUp(a) \/ Leave(a)

SafeSpec == Init /\ [][Next]_st

\* A free lock with somebody asking is taken, unless every asker gives up.
Progress == (Owners = {} /\ Askers # {}) ~> (Owners # {} \/ Askers = {})

LockSpec == SafeSpec /\ Progress
=============================================================================
