SPECIFICATION Spec
CONSTANTS
    Pairs = {eth, eur}
    Guaranteed = {eur}
    Prices = {800, 945, 1000, 1076, 1600}
    Confs = {0, 40}
    MaxConfP = 300
    MaxDeviationP = 1000
    Spreads = {100}
    SlippageP = 200
    Wanted = {1000}
    Collaterals = {1000}
    Leverages = {1000}
    Tps = {0, 1060}
    Sls = {0, 940, 1060}
    Protections = {80, 100}
    CloseAmounts = {400}
    Margins = {600}
    SlFees = {20}
    CloseFeeP = 8
    LimitFeeP = 100
    LiqFeeP = 5
    LiqTotalFeeP = 10
    MaxExecReward = 8
    LiqThreshold = 85
    MaxSlP = 80
    MaxGainP = 500
    WithdrawThresholdP = 80
    MinLeverage = 200
    MaxLeverage = 2500
    Precision = 100
    MaxAccrued = 1
    MaxSteps = 4
INVARIANTS
    TypeOK
    InsolventTradesAreCloseable
    PayoutsWithinMaxGain
PROPERTIES
    SolventTradesAreNotLiquidated
    WithdrawalsLeaveTradesSolvent
CHECK_DEADLOCK FALSE
