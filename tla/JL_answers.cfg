CONSTANTS
    Callers = {c1}
    Ops = {"start", "pause", "cancel", "restart"}
    MaxRuns = 2
    MaxGens = 4
    MaxEdits = 0
    MaxCrashes = 1
    GraceExpires = TRUE
SPECIFICATION FairSpec
INVARIANTS SettledPhase StopIsOnDisk
PROPERTIES StartAnswers
CHECK_DEADLOCK FALSE
VIEW HeldView
