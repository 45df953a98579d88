SPECIFICATION Spec
CONSTANTS
    ann = ann
    ben = ben
    Lps = {ann, ben}
    Manager = Manager
    IsJunior = TRUE
    OtherAssets = 8
    BalancingFee = 1
    BalancingDeltaThreshold = 6000
    CollateralFees = {0, 2}
    DepositCap = 20
    WithdrawThreshold = 160
    Amounts = {1, 4, 7}
    Moved = {3}
    MaxAssets = 20
    MaxSteps = 7
    MaxLocks = 2
    Shares = {1, 4}
    Multipliers = {3}
    EarlyWithdrawFee = 3
    FeeBase = 10
    MaxDistributions = 2
    Precision = 2
SYMMETRY LpsSymmetry
INVARIANTS
    TypeOK
    SharesExact
    RewardsBacked
    RedeemWithinLimitSucceeds
PROPERTIES
    ShareValueNeverFalls
CHECK_DEADLOCK FALSE
