SPECIFICATION FairSpec
CONSTANTS
    Addr = {a1, a2}
    PipeSize = 2
    Flags = {TRUE, FALSE}
    Failures = TRUE
    Garbage = Garbage
    NULL = NULL
INVARIANTS
    TypeOK
    StoppedAtFinish
PROPERTIES
    ImplementsMotion
    StopEnds
    GoesToAndFro
CHECK_DEADLOCK FALSE
