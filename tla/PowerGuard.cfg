CONSTANTS
    MaxArms = 3
    Disabled = FALSE
    ExitApp = TRUE
SPECIFICATION FairSpec
INVARIANTS ExecutesOnlyOwnClaim
PROPERTIES KeepsPromises ArmingEnds
CHECK_DEADLOCK FALSE
