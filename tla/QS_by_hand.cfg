CONSTANTS
    Nil = Nil
    DayLen = 2
    Grace = 2
    OneshotWindow = 2
    FirstDay = 6
    LastDay = 7
    Schedules <- MCSchedules
    Cmds = {c1, c2}
    AnyTrigger = FALSE
    Booked = FALSE
    Commands <- Cmds
    Available = {"JobAdded", "AcPower", "Command"}
SPECIFICATION Spec
PROPERTIES ByHandIsSpared
CHECK_DEADLOCK FALSE
