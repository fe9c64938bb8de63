SPECIFICATION Spec
CONSTANTS
    Hud = {h1, h2}
    Teleop = Teleop
    NoThread = NoThread
    MaxRuns = 2
    MaxSteps = 1
    MaxTokens = 1
    MaxDirectives = 1
    Ops = {"start", "stop", "step_once"}
    Speech = {"stop"}
INVARIANTS
    DroppedStopIsSet
PROPERTIES
    PortPromise
SYMMETRY HudSymmetry
CHECK_DEADLOCK FALSE
