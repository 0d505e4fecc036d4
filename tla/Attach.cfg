SPECIFICATION Spec
CONSTANTS
    Threads = {1, 2, 3, 4, 5}
    Initial = {1, 2}
    Follow = TRUE
    MaxRounds = 3
    MemoryFails = TRUE
INVARIANTS TypeOK NoGhosts RoundsProgress AttachComplete
