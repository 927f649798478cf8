CONSTANTS
    Callers = {c1}
    Ops = {"start", "pause"}
    MaxRuns = 1
    MaxGens = 3
    MaxEdits = 0
    MaxCrashes = 0
    GraceExpires = FALSE
SPECIFICATION Spec
PROPERTIES FinishedStaysFinished
CHECK_DEADLOCK FALSE
