SPECIFICATION Spec
CONSTANTS
    NumSets = 2
    Replicas <- TwoAndOne
    MaxUnavailable <- OneEach
    Revision = {0, 1}
    Bad = {}
    Protected = FALSE
    ZpdbMax = 1
    InformerPrompt = TRUE
    StatusPrompt = TRUE
    SnapshotPrompt = TRUE
    ApiPrompt = FALSE
    EventPrompt = FALSE
    Edits = {"template"}
    MaxEdits = 2
    MaxFaults = 0
    MaxEvictions = 0
INVARIANT WithinMaxUnavailable
CHECK_DEADLOCK FALSE
