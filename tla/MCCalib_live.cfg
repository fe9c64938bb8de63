SPECIFICATION FairSpec
CONSTANTS
    Hud = {h1, h2}
    Sessions = {s1}
    NoSession = NoSession
    Ops <- Edits
    Poses = {p1, p2}
    Off = {p2}
    Line = {p1}
    Least = 1
    Enough = 2
    MaxSamples = 2
    MaxFaults = 0
PROPERTIES
    TeleopEnds
    CallsReturn
CHECK_DEADLOCK FALSE
