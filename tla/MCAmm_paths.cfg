CONSTANTS
    Unit = 3
    U64Max = 100
    BPS = 10
    DefaultFee = 1
    NormBackend = "native"
    MinReserve = 1
    Storages = {0}
    SubReplies <- NoReply
    SubHooks <- NoHook
    InitialAmms <- MCNormAmms
    Inputs <- MCNormInputs
    Steps = {0}
    ZeroStorage = 0
    MaxReserve = 75
SPECIFICATION BoundedSpec
INVARIANTS PathsAgree
