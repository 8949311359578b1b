SPECIFICATION Spec
CONSTANTS
    Nobody = Nobody
    Absent = Absent
    Torn = Torn
    Workers = {w1, w2}
    BufferRows = 1
    Ops = {"note_create", "note_get"}
    MaxRequests = 4
    Fallible = {}
    MaxFaults = 0
    Keys = {k1}
    Texts = {t1}
    Unprintable = {}
INVARIANT
    OwnNote
