CONSTANTS
    Jobs = {a, b}
    Fresh = {b}
    Nil = Nil
    BusCap = 1
    Room = 2
    MaxChanges = 2
SPECIFICATION WindowSpec
INVARIANTS AddsAreGenuine
CHECK_DEADLOCK FALSE
