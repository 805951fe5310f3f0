SPECIFICATION Spec
CONSTANTS
    stsA = stsA
    stsB = stsB
    req1 = req1
    req2 = req2
    Set <- TwoSets
    Group <- OneGroup
    MinTime <- MinTimes
    Second = 2
    Replicas = 2
    Req <- TwoReqs
    UseZoneTracker = {TRUE, FALSE}
    Serial = TRUE
    MaxTime = 6
    MaxFaults = 1
INVARIANT TypeOK
INVARIANT ZonesApart
INVARIANT NothingLeftPrepared
PROPERTY PreparedWhenApplied
SYMMETRY ReqSymmetry
