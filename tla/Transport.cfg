CONSTANTS
    UPacket = {"p", "q"}
    NewCap = 1
    ProcessCap = 2
    MaxArrivals = 3
    MaxSends = 1
    Call = {c1, c2, c3}
    Peer = {p1, p2}
    Session = {s1, s2}
    NoCall = NoCall
    NoPeer = NoPeer
    ChanSize = 1
SPECIFICATION TSpec
INVARIANTS
    OneToken
    OneDialPerPeer
PROPERTIES
    UDPIsQueue
    UStopEndsLoops
    EveryDialReturns
CHECK_DEADLOCK FALSE
