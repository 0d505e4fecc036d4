SPECIFICATION FairSpec
CONSTANTS
    Tids = {1, 2}
    Disposition <- Dispositions
    MaxIds = 3
    Configs <- Quiet
PROPERTIES ShutdownEnds
CHECK_DEADLOCK FALSE
