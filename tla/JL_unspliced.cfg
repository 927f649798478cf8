CONSTANTS
    Callers = {c1}
    Ops = {"start"}
    MaxRuns = 1
    MaxGens = 4
    MaxEdits = 1
    MaxCrashes = 0
    GraceExpires = FALSE
SPECIFICATION Spec
INVARIANTS StopIsNeverLost
CHECK_DEADLOCK FALSE
