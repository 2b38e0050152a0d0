CONSTANTS
    Unit = 2
    U64Max = 127
    BPS = 10
    DefaultFee = 1
    NormBackend = "native"
    MinReserve = 1
    Storages <- MCStorages
    ZeroStorage = 1
    SubReplies <- AdaptiveReply
    SubHooks <- AdaptiveHook
    SearchInputs <- MCSearchInputs
    MinInput = 2
    MinArbNotionalY = 3
    MaxInput = 200
    MinArbProfit = 1
    MinTrade = 1
    Amounts <- MCAmounts
    NSteps = 2
    Prices <- MCPrices
    OrderFlows <- MCFlows
    SubAtStart <- MCSub
    NormAtStart <- MCNorm
    Misshapen = FALSE
SPECIFICATION Spec
INVARIANTS TypeOK EdgeIsMarkToMarket RouterDelivers
PROPERTIES ArbTakesItsProfit Terminates SubPoolIsAmm NormPoolIsAmm
