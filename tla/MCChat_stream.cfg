SPECIFICATION FairSpec
CONSTANTS
    Typists = {t1}
    Mic = Mic
    Typed = {"stop", "wait", "open"}
    Spoken = {"stop", "wait, stop now", "talk"}
    MaxSaid = 2
    MaxRuns = 2
    MaxOffs = 1
INVARIANTS
    TypeOK
    StreamStops
PROPERTIES
    PortPromise
    StopEndsTheRun
    LinesAreAnswered
CHECK_DEADLOCK FALSE
