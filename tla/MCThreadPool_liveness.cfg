SPECIFICATION FairSpec
CONSTANTS
    Nobody = Nobody
    NoFd = NoFd
    Main = main
    Workers = {w1, w2}
    Callers = {tester}
    Fds = {f1, f2}
    Capacity = 1
    MaxConns = 2
    MaxFaults = 1
PROPERTIES
    StopReturns
    EveryConnectionServed
