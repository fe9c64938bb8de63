SPECIFICATION Spec
CONSTANTS
    Hud = {h1, h2}
    Teleop = Teleop
    NoThread = NoThread
    MaxRuns = 1
    MaxSteps = 1
    MaxTokens = 1
    MaxDirectives = 1
    Ops = {"start", "pause", "resume", "step_once", "act", "poll", "torque_on", "torque_off", "calib_start", "calib_end"}
    Speech = {"pause", "cmd", "action"}
INVARIANTS
    TypeOK
    PausedMeansParked
    HumanFirst
    LockDiscipline
    OneLateWrite
    FlagTellsMotors
PROPERTIES
    BusPromise
SYMMETRY HudSymmetry
CHECK_DEADLOCK FALSE
