CONSTANTS
    Workers = {w1, w2}
    Conns = {c1, c2}
    Acceptor = Acceptor
    Main = Main
    Nobody = Nobody
    NoConn = NoConn
    MaxStarts = 2
SPECIFICATION Spec
SYMMETRY Symmetry
INVARIANTS
    TypeOK
    OneOwner
    NoSleepOnWork
    RepliedBeforeClose
    StopQuiesces
    MutexNotHeldAcrossBlocking
    DropStopsThreads
PROPERTIES
    ImplementsPool
CHECK_DEADLOCK FALSE
