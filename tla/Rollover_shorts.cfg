SPECIFICATION Spec
CONSTANTS
    eur = eur
    jpy = jpy
    s1 = s1
    s2 = s2
    Slots = {s1, s2}
    Pairs = {eur, jpy}
    IsForex = TRUE
    UsdAligned = {jpy}
    GroupMaxP = 50
    PairP <- MC_PairP
    Balances = {160, 240}
    Collaterals = {20}
    Leverages = {3}
    OpeningFees = {0, 1}
    CloseAmounts = {10}
    ClosingFees = {1}
    Margins = {5}
    MinLeverage = 2
    MaxLeverage = 4
    BlockFees = {20, 30}
    Precision = 100
    MaxBlock = 3
    MaxSteps = 5
INVARIANTS
    OnlyIdlePairsAreFree
