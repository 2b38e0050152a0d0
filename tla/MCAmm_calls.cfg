CONSTANTS
    Unit = 3
    U64Max = 15
    BPS = 10
    DefaultFee = 1
    NormBackend = "native"
    MinReserve = 1
    Storages <- MCChecksums
    SubReplies <- AnyReply
    SubHooks <- ChecksumHook
    InitialAmms <- MCAmms
    Inputs <- MCInputs
    Steps <- MCSteps
    ZeroStorage = 0
    MaxReserve = 49
SPECIFICATION BoundedSpec
INVARIANTS TypeOK ReserveFloor
PROPERTIES HookOncePerTrade KNeverFalls
