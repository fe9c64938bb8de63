SPECIFICATION Spec
CONSTANTS
    Hud = {h1}
    Sessions = {s1}
    NoSession = NoSession
    Ops <- Buttons
    Poses = {p1, p2}
    Off = {p2}
    Line = {}
    Least = 1
    Enough = 2
    MaxSamples = 2
    MaxFaults = 0
INVARIANTS
    ToldBeforeSaved
CHECK_DEADLOCK FALSE
