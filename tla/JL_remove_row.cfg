CONSTANTS
    Callers = {c1, c2}
    Ops = {"pause", "remove"}
    MaxRuns = 1
    MaxGens = 3
    MaxEdits = 0
    MaxCrashes = 0
    GraceExpires = FALSE
SPECIFICATION Spec
INVARIANTS RemovedStaysRemoved
CHECK_DEADLOCK FALSE
