CONSTANTS
    Jobs = {j1, j2}
    Nil = Nil
    Automatic = {j1}
    Pausable = {j1}
    MayRefuse = TRUE
SPECIFICATION FairSpec
INVARIANTS WakeupNotLost ShownIsNotCut InFlightIsSaved
PROPERTIES QuitEnds
