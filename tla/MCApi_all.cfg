SPECIFICATION Spec
CONSTANTS
    Nobody = Nobody
    Absent = Absent
    Torn = Torn
    Workers = {w1, w2}
    BufferRows = 1
    Ops = {"kv_put", "kv_get", "kv_del", "kv_list", "note_create", "note_get", "note_update", "note_del", "note_list", "metrics"}
    MaxRequests = 3
    Fallible = {"statement", "count", "bind", "send"}
    MaxFaults = 1
    Keys = {k1}
    Texts = {t1, bad}
    Unprintable = {bad}
INVARIANTS
    TypeOK
    CreatedIdsDistinct
    SilentOnlyWhereUnchecked
    MissingIsDeleted
