SPECIFICATION Spec
CONSTANTS
    TargetReserveRatio = 65
    ConstrainedThreshold = 6750
    BaseMultiplier = 100
    MinMultiplier = 80
    MultiplierCoeff = 3103
    MultiplierDenom = 9366500
    WithdrawThreshold = 90
    RewardPeriod = 2
    Precision = 10
    t1 = t1
    t2 = t2
    Traders = {t1, t2}
    TradesPerTrader = 1
    Sizes = {9}
    Leverages = {3}
    ExecFees = {0, 1}
    Charges <- WithReferrer
    Rollovers = {0, 1}
    Gains <- MCGains
    CloseAmounts = {2}
    Rewards = {0, 1}
    Margins = {2}
    MinLeverage = 2
    MaxLeverage = 6
    LevPrecision = 2
    VaultFeeP = 50
    LiqThreshold = 85
    TvlCap = 80
    GroupMaxP = 70
    WalletMaxP = 50
    BlockOILimit = 16
    Capital = 25
    MaxSteps = 6
INVARIANTS
    FlatMarketReservesNothing
CHECK_DEADLOCK FALSE
