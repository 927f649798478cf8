CONSTANTS
    Jobs = {j1, j2, j3}
    Elsewhere = {j3}
    PerQueue = 1
    Queues <- MCQueues
    QueueOf <- MCQueueOf
    QueueCap <- MCQueueCap
    Nil = Nil
    GlobalCap = 2
    Users = {u1}
    Ops = {"start_queue", "resume_all", "add"}
    MaxCalls = 3
    MaxRuns = 3
    Unlisted = {j2}
    MayRefuse = FALSE
SPECIFICATION Spec
INVARIANTS TypeOK RunsWithinCaps NoStall
SYMMETRY Symmetry
CHECK_DEADLOCK FALSE
