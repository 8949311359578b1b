SPECIFICATION ProcessSpec
CONSTANTS
    Nobody = Nobody
    NoFd = NoFd
    Main = main
    Workers = {w1, w2}
    Callers = {main, w1}
    Fds = {f1, f2}
    Capacity = 1
    MaxConns = 2
    MaxFaults = 1
SYMMETRY Symmetry
INVARIANTS
    StoreOutlivesWorkers
    UsedAfterDestroyOnlyByMain
CHECK_DEADLOCK FALSE
