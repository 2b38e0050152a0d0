CONSTANTS
    Backends = {"native"}
    Values = {0, 1}
    Contents = {0, 1}
    Zeroes = 0
    Budget = 3
    Burst = 2
    MeterDisabled = FALSE
SPECIFICATION Spec
PROPERTIES HookPersists
