CONSTANTS
    Workers = {w1}
    Conns = {c1}
    Acceptor = Acceptor
    Main = Main
    Nobody = Nobody
    NoConn = NoConn
    MaxStarts = 1
SPECIFICATION FairSpec
PROPERTIES
    CallbackRuns
CHECK_DEADLOCK FALSE
