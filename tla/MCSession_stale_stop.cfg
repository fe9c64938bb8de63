SPECIFICATION Spec
CONSTANTS
    Hud = {h1}
    Teleop = Teleop
    NoThread = NoThread
    MaxRuns = 2
    MaxSteps = 1
    MaxTokens = 1
    MaxDirectives = 1
    Ops = {"start", "stop"}
    Speech = {"stop"}
PROPERTIES
    StopIsForThisRun
CHECK_DEADLOCK FALSE
