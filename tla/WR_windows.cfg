CONSTANTS
    MaxWindows = 3
    Triggers = {t1, t2}
    Reporters = {1}
    Deaf = {2}
    MayFail = TRUE
SPECIFICATION FairSpec
INVARIANTS RegistryIsLive LatestIsReachable OneStarting
PROPERTIES NeverShutOut
