SPECIFICATION FairSpec
CONSTANTS
    HeaderCap = 5
    BodyCap = 5
    MaxConns = 2
    Streams <- MCStreams
INVARIANTS
    TypeOK
    OwnBody
    SplitIndependent
    WriteNeedsKey
    NothingLeftUnread
PROPERTY
    EveryReadEnds
