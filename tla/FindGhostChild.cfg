SPECIFICATION Spec
CONSTANTS
    Tids = {1, 2}
    Disposition <- Dispositions
    MaxIds = 3
    Configs <- QuickChild
INVARIANTS CommandStatus
