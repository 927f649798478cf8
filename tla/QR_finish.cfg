CONSTANTS
    Jobs = {j1, j2}
    Elsewhere = {}
    PerQueue = 0
    Queues <- MCQueues
    QueueOf <- MCQueueOf
    QueueCap <- MCQueueCap
    Nil = Nil
    GlobalCap = 1
    Users = {u1, u2}
    Ops = {"start_queue", "add"}
    MaxCalls = 2
    MaxRuns = 3
    Unlisted = {j2}
    MayRefuse = FALSE
SPECIFICATION Spec
PROPERTIES FinishedMeansDrained
CHECK_DEADLOCK FALSE
