-------------------------- MODULE AbstractParker --------------------------
(* What park and unpark promise: one permit per thread, which unpark makes   *)
(* available and a return from park consumes.  park may also return without  *)
(* one, or time out and leave the permit alone.                              *)
VARIABLES permit,   \* the thread's next park returns at once
          parked    \* "no", or inside "park" or "park_timeout"

Init == permit = FALSE /\ parked = "no"

Unpark   == permit' = TRUE /\ UNCHANGED parked
Park     == parked = "no" /\ parked' = "park" /\ UNCHANGED permit
ParkFor  == parked = "no" /\ parked' = "park_timeout" /\ UNCHANGED permit
Return   == parked # "no" /\ parked' = "no" /\ permit' = FALSE
TimedOut == parked = "park_timeout" /\ parked' = "no" /\ UNCHANGED permit

Next == Unpark \/ Park \/ ParkFor \/ Return \/ TimedOut

SafeSpec == Init /\ [][Next]_<<permit, parked>>

\* A thread that is parked while its permit is available returns.
Progress == (parked # "no" /\ permit) ~> parked = "no"

ParkerSpec == SafeSpec /\ Progress
=============================================================================
