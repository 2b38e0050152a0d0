CONSTANTS
    Curves <- MCCurves
    Score <- MCScore
    Peak <- MCPeak
    Scale = 100000
    Totals <- MCTotals
    Iters = 14
    AlphaTol = 100
    AmountTol = 100
    GapTol = 100
SPECIFICATION Spec
INVARIANTS BestOfSamples PeakInBracket LittleIsLost
