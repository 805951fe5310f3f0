SPECIFICATION LiveSpec
CONSTANTS
    NumSets = 2
    MaxReplicas = 3
    Delay = 2
    Denied = {}
    ExcludeFromStatus = TRUE
    InformerPrompt = TRUE
    MaxEdits = 3
    MaxFaults = 1
INVARIANT TypeOK
PROPERTY DelayRespected
PROPERTY StatusCountsUnprepared
PROPERTY ScalingSettles
PROPERTY PreparationsCancelled
