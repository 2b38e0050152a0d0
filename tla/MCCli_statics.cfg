SPECIFICATION Spec
CONSTANTS
    Workers = {w1, w2}
    NSims = 2
    NCalls = 2
    Word = 16
    Submissions <- StaticSubmissions
    Inputs <- MCInputs
    Sizes <- MCSizes
    Delta = 1
    StepTol = 1
    Uncertainty = 1
    MergeEps = 0
    BuyProbe = 5
    SellProbe = 2
    RandomStates = 2
    Parts = 10
    ParityTol = 1
    ParityStart = 9
    ParityStride = 7
    Edge <- MCEdge
    Sessions <- StaticSessions
    MaxRuns = 2
INVARIANT LocalRunsAreDeterministic
