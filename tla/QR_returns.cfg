CONSTANTS
    Jobs = {j1, j2}
    Elsewhere = {j2}
    PerQueue = 0
    Queues <- MCQueues
    QueueOf <- MCQueueOf
    QueueCap <- MCQueueCap
    Nil = Nil
    GlobalCap = 1
    Users = {u1}
    Ops = {"start_queue", "stop_queue", "play", "pause", "pause_all", "stop_all", "resume_all"}
    MaxCalls = 2
    MaxRuns = 3
    Unlisted = {}
    MayRefuse = TRUE
SPECIFICATION FairSpec
PROPERTIES CallsReturn
CHECK_DEADLOCK FALSE
