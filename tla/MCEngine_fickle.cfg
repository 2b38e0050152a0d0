CONSTANTS
    Unit = 2
    U64Max = 5000
    BPS = 100
    DefaultFee = 1
    NormBackend = "native"
    MinReserve = 1
    Storages <- MCStorages
    ZeroStorage = 1
    SubReplies <- FickleReply
    SubHooks <- FickleHook
    SearchInputs <- MCSearchInputs
    MinInput = 2
    MinArbNotionalY = 3
    MaxInput = 400
    MinArbProfit = 5
    MinTrade = 1
    Amounts <- MCAmounts
    NSteps = 1
    Prices = {1, 2, 3}
    OrderFlows <- FewFlows
    SubAtStart <- MCSub
    NormAtStart <- MCNormOff
    Misshapen = TRUE
SPECIFICATION Spec
INVARIANTS EdgeIsMarkToMarket NormArbExhausts
