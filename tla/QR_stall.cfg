CONSTANTS
    Jobs = {j1, j2, j3}
    Elsewhere = {j3}
    PerQueue = 1
    Queues <- MCQueues
    QueueOf <- MCQueueOf
    QueueCap <- MCQueueCap
    Nil = Nil
    GlobalCap = 1
    Users = {u1}
    Ops = {"start_queue"}
    MaxCalls = 2
    MaxRuns = 3
    Unlisted = {}
    MayRefuse = FALSE
SPECIFICATION Spec
INVARIANTS NoStall
SYMMETRY Symmetry
CHECK_DEADLOCK FALSE
