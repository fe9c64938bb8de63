SPECIFICATION FairSpec
CONSTANTS
    Hud = {h1}
    Teleop = Teleop
    NoThread = NoThread
    MaxRuns = 1
    MaxSteps = 2
    MaxTokens = 1
    MaxDirectives = 1
    Ops = {"start", "pause", "torque_off", "calib_start"}
    Speech = {"stop"}
PROPERTIES
    StopIsServed
    EStopCompletes
    PauseParks
CHECK_DEADLOCK FALSE
