CONSTANTS
    Callers = {c1}
    Ops = {"start", "pause"}
    MaxRuns = 2
    MaxGens = 4
    MaxEdits = 0
    MaxCrashes = 0
    GraceExpires = TRUE
SPECIFICATION Spec
PROPERTIES StartedMeansRunning
CHECK_DEADLOCK FALSE
