SPECIFICATION Spec
CONSTANTS
    alice = alice
    bob = bob
    btc = btc
    eur = eur
    NoOrder = NoOrder
    Traders = {alice}
    Pairs = {btc}
    MaxTradesPerPair = 1
    MaxPendingMarketOrders = 2
    Sizes = {1}
    CloseAmounts = {1}
    Fees = {0}
    Prices = {1}
    Slippages = {1}
    GuaranteedSlPairs = {}
    BackupModes = {FALSE}
    Shortages = {FALSE}
    MaxOrders = 4
INVARIANTS
    BeingClosedIsMarked
