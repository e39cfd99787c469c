-------------------------- MODULE AbstractRwLock --------------------------
(* What RwLock promises: an actor that asks to read gets in when no writer   *)
(* is in, one that asks to write when nobody is.  Reading is preferred: only *)
(* a writer that is in keeps a reader out.                                   *)
CONSTANT Actors
VARIABLES st,     \* "out", "asking" or "in"
          want    \* "read" or "write": what an actor asks for or holds

v == <<st, want>>

Init == st = [a \in Actors |-> "out"] /\ want \in [Actors -> {"read", "write"}]

In(k)     == {a \in Actors : st[a] = "in" /\ want[a] = k}
Asking(k) == {a \in Actors : st[a] = "asking" /\ want[a] = k}
Admits(k) == In("write") = {} /\ (k = "write" => In("read") = {})

Ask(a) ==
    /\ st[a] = "out" /\ st' = [st EXCEPT ![a] = "asking"]
    /\ \E k \in {"read", "write"} : want' = [want EXCEPT ![a] = k]
Enter(a) ==
    /\ st[a] # "in" /\ st' = [st EXCEPT ![a] = "in"]
    /\ \E k \in {"read", "write"} :
         /\ want' = [want EXCEPT ![a] = k]
         /\ st[a] = "asking" => k = want[a]
         /\ Admits(k)
GiveUp(a) == st[a] = "asking" /\ st' = [st EXCEPT ![a] = "out"] /\ UNCHANGED want
Leave(a)  == st[a] = "in" /\ st' = [st EXCEPT ![a] = "out"] /\ UNCHANGED want
Refuse(a) == st[a] = "out" /\ UNCHANGED st
             /\ \E k \in {"read", "write"} : want' = [want EXCEPT ![a] = k]

Next == \E a \in Actors : Ask(a) \/ Enter(a) \/ GiveUp(a) \/ Leave(a) \/ Refuse(a)

SafeSpec == Init /\ [][Next]_v

\* While no writer is in, a reader that asks gets in (or gives up); while
\* nobody is in, one of those who ask to write does, or a reader slips in.
Progress ==
    /\ \A a \in Actors :
         (a \in Asking("read") /\ In("write") = {})
           ~> (a \notin Asking("read") \/ In("write") # {})
    /\ (Asking("write") # {} /\ In("write") \cup In("read") = {})
         ~> (Asking("write") = {} \/ In("write") \cup In("read") # {})

RwLockSpec == SafeSpec /\ Progress
=============================================================================
