CONSTANTS
    Uncertainty = 2
    MergeEps = 1
    MinDx = 3
    MinInput = 1
    Curves <- MCCurves
    Parts = 10
    Inputs <- MCInputs
    Outputs = {0, 1, 2, 4, 7}
    MaxSamples = 4
SPECIFICATION Spec
INVARIANTS NoFalseAlarm FallsAreNoise SteepeningIsNoise
CHECK_DEADLOCK FALSE
