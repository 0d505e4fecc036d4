SPECIFICATION Spec
CONSTANTS
    Tids = {1, 2}
    Disposition <- Dispositions
    MaxIds = 6
    Configs <- TwoHandlers
INVARIANTS NoPhantomErrors
