SPECIFICATION Spec
CONSTANTS
    stsA = stsA
    stsB = stsB
    req1 = req1
    req2 = req2
    Set <- TwoSets
    Group <- OneGroup
    MinTime <- MinTimes
    Second = 1
    Replicas = 1
    Req <- TwoReqs
    UseZoneTracker = {TRUE}
    Serial = FALSE
    MaxTime = 4
    MaxFaults = 0
INVARIANT ZonesApart
SYMMETRY ReqSymmetry
