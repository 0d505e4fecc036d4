SPECIFICATION Spec
CONSTANTS
    Count <- TableSize
    Numbers <- TableNumbers
    Limit = 16
    Asked <- Questions
    Descriptors <- TableEntries
    Images <- SmallImages
    Overwritten <- Fill
    Arguments <- ArgumentLists
    StringLimit = 2
    MaxArgv = 3
    Class <- Classes
    FlagNames <- Names
    AccessMode = {0, 1}
    Creating = {2, 5}
    Getting = {1}
    Results = {0, 1, 3}
INVARIANTS LookupExact InputsAsEntered QuotesDelimit ExtentTrue FlagsExact
