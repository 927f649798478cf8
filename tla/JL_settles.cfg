CONSTANTS
    Callers = {c1, c2}
    Ops = {"start", "pause", "remove"}
    MaxRuns = 2
    MaxGens = 3
    MaxEdits = 0
    MaxCrashes = 1
    GraceExpires = FALSE
SPECIFICATION Spec
INVARIANTS RunningReleased SettledPhase StopIsOnDisk
CHECK_DEADLOCK FALSE
SYMMETRY CallerSymmetry
VIEW HeldView
