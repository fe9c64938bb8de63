SPECIFICATION Spec
CONSTANTS
    Threads = {t1, t2}
    NoThread = NoThread
    Rules = {r1, r2}
    Keys = {k1, k2}
    Values = {v0, v1}
    Default = v0
    Absent = Absent
    MaxCalls = 4
    MaxRules = 3
INVARIANTS
    TypeOK
    Durable
    ConfigKept
CHECK_DEADLOCK FALSE
