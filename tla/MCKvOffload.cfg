CONSTANTS
    a = a
    b = b
    c = c
    d = d
    partial = partial
    Hashes <- MCHashes
    GpuBlocks = {g1, g2, g3}
    Capacity = 2
    None = None
    Requests <- MCRequests
    Blocks <- MCBlocks
    PromptLen <- MCPromptLen
    Partial <- partial
SPECIFICATION MCSpec
SYMMETRY BlockSymmetry
INVARIANTS
    TablesHoldContent
    TierAccepts
    AdmissionCompletes
    IndexConsistent
    TransfersDisjoint
PROPERTIES
    TierContract
    PinnedSlotsKeepContent
