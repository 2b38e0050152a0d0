CONSTANTS
    Backends = {"bpf", "native"}
    Values = {0, 1, 2}
    Contents = {0, 1}
    Zeroes = 0
    Budget = 4
    Burst = 2
    MeterDisabled = FALSE
SPECIFICATION Spec
INVARIANTS TypeOK
PROPERTIES AnswerIsThisRuns QuoteLeavesNoTrace StorageOnlyFromHook BpfHookPersists CallsReturn
