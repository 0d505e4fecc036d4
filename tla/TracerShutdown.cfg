SPECIFICATION FairSpec
CONSTANTS
    Tids = {1, 2}
    Disposition <- Dispositions
    MaxIds = 5
    Configs <- ShutdownConfigs
INVARIANTS SignalsPreserved AllDetached StringsOwned
PROPERTIES StopsAnswered CleanupEnds
CHECK_DEADLOCK FALSE
