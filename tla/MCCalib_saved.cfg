SPECIFICATION Spec
CONSTANTS
    Hud = {h1, h2}
    Sessions = {s1, s2}
    NoSession = NoSession
    Ops <- Triggers
    Poses = {p1}
    Off = {}
    Line = {}
    Least = 1
    Enough = 1
    MaxSamples = 1
    MaxFaults = 1
INVARIANTS
    TypeOK
    SavesAFit
    SavedIsLoaded
PROPERTIES
    NoStragglerTick
    LastCopy
SYMMETRY HudSymmetry
CHECK_DEADLOCK FALSE
