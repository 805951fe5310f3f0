SPECIFICATION LiveSpec
CONSTANTS
    NumSets = 2
    Replicas <- TwoAndOne
    MaxUnavailable <- OneEach
    Revision = {0, 1}
    Bad = {1}
    Protected = FALSE
    ZpdbMax = 1
    InformerPrompt = TRUE
    StatusPrompt = TRUE
    SnapshotPrompt = TRUE
    ApiPrompt = FALSE
    EventPrompt = FALSE
    Edits = {"template", "pause", "strategy"}
    MaxEdits = 2
    MaxFaults = 1
    MaxEvictions = 0
INVARIANTS TypeOK OneSetAtATime WithinMaxUnavailable
PROPERTIES RolloutCompletes StatusShowsActiveSet StatusSettles
CHECK_DEADLOCK FALSE
