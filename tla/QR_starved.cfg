CONSTANTS
    Jobs = {j1, j2}
    Elsewhere = {}
    PerQueue = 0
    Queues <- MCQueues
    QueueOf <- MCQueueOf
    QueueCap <- MCQueueCap
    Nil = Nil
    GlobalCap = 1
    Users = {u1}
    Ops = {"resume_all"}
    MaxCalls = 1
    MaxRuns = 3
    Unlisted = {}
    MayRefuse = FALSE
SPECIFICATION Spec
INVARIANTS DeferredIsServed
CHECK_DEADLOCK FALSE
