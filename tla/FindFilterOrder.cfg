SPECIFICATION Spec
CONSTANTS
    Catalog = {0, 1, 2, 3, 5}
    Classes <- SmallClasses
    WordBits = 3
    Words = 2
    RtSigreturn = 3
    X32Bit = 8
    MaxTerms = 3
INVARIANTS FilterAsDocumented
