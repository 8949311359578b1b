SPECIFICATION FairSpec
CONSTANTS
    Nobody = Nobody
    Absent = Absent
    Torn = Torn
    Workers = {w1, w2}
    BufferRows = 1
    Ops = {"kv_put", "kv_get", "kv_del", "metrics"}
    MaxRequests = 4
    Fallible = {"statement", "send"}
    MaxFaults = 1
    Keys = {k1}
    Texts = {t1, bad}
    Unprintable = {bad}
PROPERTIES
    Linearizable
    EveryRequestAnswered
