SPECIFICATION Spec
CONSTANTS
    Turns = {t1, t2}
    Tools = {a, b}
    Outputs = {x, y}
    MaxBatch = 2
    MaxToolIterations = 2
    AutoContinueMax = 1
    MaxRetries = 2
    WindowSize = 3
    StopRepeatThreshold = 3
    PollNoProgressThreshold = 2
    PingPongCycles = 1
    KeptResults = 4
SYMMETRY Symmetry
CHECK_DEADLOCK FALSE
INVARIANTS TypeOK LoopSafe
PROPERTY TurnsAreBounded
