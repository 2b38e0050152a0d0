CONSTANTS
    Curves <- MCCurves
    Value <- MCValue
    Peak <- MCPeak
    Starts <- MCStarts
    MinInput = 100000
    MaxInput = 2000000
    BracketSteps = 3
    GoldenIters = 12
    RelTol = 100
SPECIFICATION Spec
INVARIANTS BestOfSamples PeakInBracket SizedToTolerance
