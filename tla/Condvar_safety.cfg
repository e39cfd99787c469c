CONSTANTS
    b = b   k = k   l = l   p = p   q = q   w1 = w1   w2 = w2   None = None
    Threads = {b, p, q}
    Tasks = {k, l}
    CanPark = {b, p, q}
    Waiters = {b, k, l}
    Waits = {w1, w2}
    MaxOps = 1
    DropsWoken = FALSE
SPECIFICATION Spec
INVARIANTS NoLeakedEntry NoLostNotify
SYMMETRY Symmetric
