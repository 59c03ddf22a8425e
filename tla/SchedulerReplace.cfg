SPECIFICATION Spec
CONSTANTS
    None = None
    Tasks = {t1, t2}
    Names = {n1}
    NameOf <- OneName
    OneShot = {t2}
    MaxRuns = 2
CHECK_DEADLOCK FALSE
INVARIANT RunOnce
