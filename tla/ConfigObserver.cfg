SPECIFICATION LiveSpec
CONSTANTS
    n1 = n1
    n2 = n2
    Name <- TwoNames
    NoObj = NoObj
    Edited <- OneName
    DeletesSeen = TRUE
    MaxEdits = 3
    MaxFaults = 1
INVARIANTS LoadedBeforeServing NoLostSignal
PROPERTIES StaysEnforced CacheConverges ReadinessRecovers
CHECK_DEADLOCK FALSE
