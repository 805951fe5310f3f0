SPECIFICATION LiveSpec
CONSTANTS
    NumSets = 3
    Configs <- AllConfigs
    MaxReplicas = 2
    MaxMinTime = 2
    MaxEdits = 2
    StatusPrompt = TRUE
INVARIANTS TypeOK
PROPERTIES DownscalesApart ScaleUpWaitsForLeader FollowersConverge
CHECK_DEADLOCK FALSE
