SPECIFICATION Spec
CONSTANTS
    Nobody = Nobody
    Absent = Absent
    Torn = Torn
    Workers = {w1}
    BufferRows = 1
    Ops = {"kv_put", "kv_get", "kv_del", "kv_list"}
    MaxRequests = 2
    Fallible = {"bind"}
    MaxFaults = 1
    Keys = {k1}
    Texts = {t1}
    Unprintable = {}
INVARIANT
    NeverSilentSuccess
