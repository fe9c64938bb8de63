SPECIFICATION FairSpec
CONSTANTS
    MaxX = 2
    Verify = TRUE
    Tries = 3
    MaxCorr = 1
    Offsets <- SomeOffsets
    Bare = {"close", "home"}
    Manual = {"open", "home"}
INVARIANTS
    TypeOK
    CorrectionBounded
    RetreatsOpen
PROPERTIES
    ClosesChecked
    PickTakes
    BusPromise
    CallEnds
