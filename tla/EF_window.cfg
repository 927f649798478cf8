CONSTANTS
    Jobs = {a, b}
    Fresh = {b}
    Nil = Nil
    BusCap = 1
    Room = 2
    MaxChanges = 2
SPECIFICATION FairWindowSpec
INVARIANTS WindowTypeOK ListIsCurrent
PROPERTIES PhasesCatchUp
CHECK_DEADLOCK FALSE
