CONSTANTS
    MaxArms = 1
    Disabled = FALSE
    ExitApp = TRUE
SPECIFICATION Spec
INVARIANTS ExitDropsNothing
CHECK_DEADLOCK FALSE
