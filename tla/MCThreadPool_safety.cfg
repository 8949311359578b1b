SPECIFICATION Spec
CONSTANTS
    Nobody = Nobody
    NoFd = NoFd
    Main = main
    Workers = {w1, w2}
    Callers = {tester}
    Fds = {f1, f2, f3}
    Capacity = 2
    MaxConns = 4
    MaxFaults = 1
SYMMETRY Symmetry
INVARIANTS
    TypeOK
    Ownership
    NoLostWakeup
    Conservation
    Classified
    Drained
PROPERTY
    ImplementsFifo
