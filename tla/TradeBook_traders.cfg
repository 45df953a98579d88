SPECIFICATION Spec
CONSTANTS
    alice = alice
    bob = bob
    btc = btc
    eur = eur
    NoOrder = NoOrder
    Traders = {alice, bob}
    Pairs = {btc}
    MaxTradesPerPair = 2
    MaxPendingMarketOrders = 1
    Sizes = {1}
    CloseAmounts = {1}
    Fees = {0}
    Prices = {1, 2}
    Slippages = {1}
    GuaranteedSlPairs = {}
    BackupModes = {TRUE, FALSE}
    Shortages = {FALSE}
    MaxOrders = 3
SYMMETRY TradersSymmetry
INVARIANTS
    SlotBudget
    CountersExact
    SlotForEveryOrder
    TraderRegistry
    LimitRegistry
PROPERTIES
    LimitOrdersKeepTheirTerms
