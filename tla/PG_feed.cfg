CONSTANTS
    MaxArms = 2
    Disabled = FALSE
    ExitApp = FALSE
SPECIFICATION Spec
INVARIANTS FeedShowsPending
CHECK_DEADLOCK FALSE
