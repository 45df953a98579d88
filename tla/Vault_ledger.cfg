SPECIFICATION VaultSpec
CONSTANTS
    TargetReserveRatio = 65
    ConstrainedThreshold = 6750
    BaseMultiplier = 100
    MinMultiplier = 80
    MultiplierCoeff = 3103
    MultiplierDenom = 9366500
    WithdrawThreshold = 90
    RewardPeriod = 2
    Precision = 10
    Amounts = {1, 3}
    Fees = {0, 1}
    Collected = {0, 1}
    DepositCap = 5
    MaxUSDC = 3
INVARIANTS
    VaultTypeOK
    ReleaseFits
PROPERTIES
    OnlyPayoutsDrawOnReserves
    RewardsAreNotPaidOut
