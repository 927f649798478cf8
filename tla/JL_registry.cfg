CONSTANTS
    Callers = {c1, c2}
    Ops = {"start", "pause", "remove"}
    MaxRuns = 2
    MaxGens = 4
    MaxEdits = 1
    MaxCrashes = 0
    GraceExpires = TRUE
SPECIFICATION Spec
INVARIANTS TypeOK SingleRunner LiveRunIsRegistered
PROPERTIES StoppedRunStaysStopped
CHECK_DEADLOCK FALSE
SYMMETRY CallerSymmetry
VIEW LiveView
