SPECIFICATION Spec
CONSTANTS
    Typists = {}
    Mic = Mic
    Typed = {}
    Spoken = {"stop", "talk"}
    MaxSaid = 3
    MaxRuns = 1
    MaxOffs = 1
INVARIANTS
    StopNeverWaits
CHECK_DEADLOCK FALSE
