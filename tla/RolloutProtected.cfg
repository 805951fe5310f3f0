SPECIFICATION Spec
CONSTANTS
    NumSets = 2
    Replicas <- TwoAndOne
    MaxUnavailable <- OneEach
    Revision = {0, 1}
    Bad = {}
    Protected = TRUE
    ZpdbMax = 1
    InformerPrompt = FALSE
    StatusPrompt = TRUE
    SnapshotPrompt = TRUE
    ApiPrompt = TRUE
    EventPrompt = TRUE
    Edits = {"release"}
    MaxEdits = 1
    MaxFaults = 0
    MaxEvictions = 1
INVARIANTS OneSetAtATime WithinBudget
PROPERTY PromotedWhenRolledOut
CHECK_DEADLOCK FALSE
