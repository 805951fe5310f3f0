SPECIFICATION LiveSpec
CONSTANTS
    NumSets = 2
    Replicas <- OneEach
    MaxUnavailable <- OneEach
    Revision = {0, 1}
    Bad = {1}
    Protected = FALSE
    ZpdbMax = 1
    InformerPrompt = TRUE
    StatusPrompt = TRUE
    SnapshotPrompt = TRUE
    ApiPrompt = FALSE
    EventPrompt = FALSE
    Edits = {"release"}
    MaxEdits = 2
    MaxFaults = 0
    MaxEvictions = 1
PROPERTY RolloutCompletes
CHECK_DEADLOCK FALSE
