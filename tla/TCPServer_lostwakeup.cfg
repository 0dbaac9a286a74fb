CONSTANTS
    Workers = {w1}
    Conns = {}
    Acceptor = Acceptor
    Main = Main
    Nobody = Nobody
    NoConn = NoConn
    MaxStarts = 1
SPECIFICATION FairSpec
PROPERTIES
    StopWakesWorkers
CHECK_DEADLOCK FALSE
