SPECIFICATION Spec
CONSTANTS
    zoneA = zoneA
    zoneB = zoneB
    zoneC = zoneC
    part0 = part0
    part1 = part1
    part2 = part2
    budget1 = budget1
    budget2 = budget2
    pdb = pdb
    Zone = {zoneA, zoneB, zoneC}
    Partition = {part0, part1, part2}
    Pod <- PartitionPod
    Target <- PartitionTarget
    Faulty <- PartitionTarget
    Config = {budget1}
    Name = {budget1}
    Pdb <- PartitionPdb
    Req = {r1, r2}
    NoCfg = NoCfg
    NoReq = NoReq
    MaxOverride = 0
    MaxLag = 1
    InformerPrompt = TRUE
    ScanPrompt = TRUE
    ApiPrompt = TRUE
INVARIANTS BudgetRespected
SYMMETRY ZoneSymmetry
