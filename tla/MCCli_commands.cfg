SPECIFICATION Spec
CONSTANTS
    Workers = {w1, w2}
    NSims = 3
    NCalls = 2
    Word = 16
    Submissions <- MCSubmissions
    Inputs <- MCInputs
    Sizes <- MCSizes
    Delta = 1
    StepTol = 1
    Uncertainty = 1
    MergeEps = 0
    BuyProbe = 5
    SellProbe = 2
    RandomStates = 2
    Parts = 10
    ParityTol = 1
    ParityStart = 9
    ParityStride = 7
    Edge <- MCEdge
    Sessions <- MCSessions
    MaxRuns = 2
INVARIANTS TypeOK BatchIsMap PanicIsNeverAResult StreamsApart GoodPasses PassIsEarned Reproducible
PROPERTIES CommandsEnd
