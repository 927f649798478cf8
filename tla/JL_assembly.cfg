CONSTANTS
    Callers = {c1}
    Ops = {"start", "restart"}
    MaxRuns = 1
    MaxGens = 3
    MaxEdits = 0
    MaxCrashes = 0
    GraceExpires = FALSE
SPECIFICATION Spec
PROPERTIES RestartSparesAssembly
CHECK_DEADLOCK FALSE
