CONSTANTS
    k = k   l = l  p = p  q = q w1 = w1   w2 = w2   None = None
    Threads = {p,q}
    Tasks = {k,l}
    CanPark = {p,q}
    Waiters = {k,l}
    Waits = {w1, w2}
    MaxOps = 1
    DropsWoken = TRUE
SPECIFICATION Spec
INVARIANTS NoLostNotify
