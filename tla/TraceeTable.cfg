SPECIFICATION Spec
CONSTANTS
    Tids <- MCTids
    NoTid = 0
    Data = {"new", "running"}
    NewData = "new"
    Absent = "absent"
    Hash <- MCHash
    InitialCapacity = 2
    MaxCapacity = 8
INVARIANTS TypeOK ProbeTerminates FindsStored CountsExact
PROPERTY RefinesMap

