SPECIFICATION Spec
CONSTANTS
    CommandLines <- Lines
    MaxWords = 4
    NoText = NoText
    Number <- NumberOf
    FilterOf <- Filters
    IntMax = 7
    MaxStringLimit = 7
    DefaultLimit = 2
    MaxLines = 2
    Codes = {0, 3}
    Signals = {2, 15}
INVARIANTS UsageAccepted StreamInOrder OutputComplete 
