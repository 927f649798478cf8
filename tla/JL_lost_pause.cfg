CONSTANTS
    Callers = {c1, c2}
    Ops = {"start", "pause"}
    MaxRuns = 1
    MaxGens = 3
    MaxEdits = 0
    MaxCrashes = 0
    GraceExpires = FALSE
SPECIFICATION Spec
INVARIANTS PausedMeansStopping
CHECK_DEADLOCK FALSE
