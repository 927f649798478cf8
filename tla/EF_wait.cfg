CONSTANTS
    Jobs = {a, b}
    Tracked = {a, b}
    Nil = Nil
    BusCap = 1
    Room = 2
    MaxChanges = 2
SPECIFICATION FairSpec
INVARIANTS TypeOK RemovalIsSeen
PROPERTIES WaitEnds
CHECK_DEADLOCK FALSE
