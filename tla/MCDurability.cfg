SPECIFICATION FairSpec
CONSTANTS
    Workers = {w1, w2}
    MaxWrites = 4
    MaxCrashes = 4
INVARIANTS
    TypeOK
    AckedIsReadable
    CleanExitIsDurable
PROPERTIES
    CheckpointedIsFinal
    ReportComesTrue
