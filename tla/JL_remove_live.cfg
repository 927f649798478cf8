CONSTANTS
    Callers = {c1, c2}
    Ops = {"start", "remove"}
    MaxRuns = 1
    MaxGens = 3
    MaxEdits = 0
    MaxCrashes = 0
    GraceExpires = FALSE
SPECIFICATION Spec
INVARIANTS RemoveSparesLiveRun
CHECK_DEADLOCK FALSE
