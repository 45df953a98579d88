SPECIFICATION FairSpec
CONSTANTS
    alice = alice
    bob = bob
    btc = btc
    eur = eur
    NoOrder = NoOrder
    Traders = {alice}
    Pairs = {btc}
    MaxTradesPerPair = 2
    MaxPendingMarketOrders = 2
    Sizes = {2}
    CloseAmounts = {1, 2}
    Fees = {0, 1}
    Prices = {1}
    Slippages = {1}
    GuaranteedSlPairs = {btc}
    BackupModes = {TRUE, FALSE}
    Shortages = {TRUE, FALSE}
    MaxOrders = 4
INVARIANTS
    TypeOK
    PendingRegistry
PROPERTIES
    OrdersSettle
    ImplementsIdealBook
