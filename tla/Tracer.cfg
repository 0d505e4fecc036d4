SPECIFICATION Spec
CONSTANTS
    Tids = {1, 2}
    Disposition <- Dispositions
    MaxIds = 6
    Configs <- LoopConfigs
INVARIANTS TypeOK ReportsComplete PendingInStep SetupFailureTold LinesPaired StatusPropagated SignalsPreserved GroupStopHonoured StringsOwned
PROPERTIES RefinesContract
