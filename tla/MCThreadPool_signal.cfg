SPECIFICATION Spec
CONSTANTS
    Nobody = Nobody
    NoFd = NoFd
    Main = main
    Workers = {w1, w2}
    Callers = {main, w1, w2}
    Fds = {f1, f2}
    Capacity = 1
    MaxConns = 1
    MaxFaults = 0
INVARIANT
    StopNeverWaitsForItself
