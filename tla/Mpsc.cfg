CONSTANTS
    r = r   s1 = s1   s2 = s2   None = None
    Threads = {r, s1, s2}
    Tasks = {}
    CanPark = {r, s1, s2}
    w1 = w1   w2 = w2
    Waits = {}
    Senders = {s1, s2}
    Rx = r
    MaxSends = 2
    MaxRecvs = 2
SPECIFICATION FairSpec
INVARIANTS DisconnectedIsFinal NoStuckReceiver
PROPERTIES ImplementsChannel
