CONSTANTS
    Jobs = {j1, j2}
    Elsewhere = {}
    PerQueue = 0
    Queues <- MCQueues
    QueueOf <- MCQueueOf
    QueueCap <- MCQueueCap
    Nil = Nil
    GlobalCap = 1
    Users = {u1, u2}
    Ops = {"start_queue", "stop_queue"}
    MaxCalls = 2
    MaxRuns = 3
    Unlisted = {}
    MayRefuse = FALSE
SPECIFICATION Spec
PROPERTIES FillerStopsWithRun
CHECK_DEADLOCK FALSE
