SPECIFICATION Spec
CONSTANTS
    alice = alice
    bob = bob
    carol = carol
    Accounts = {alice, bob, carol}
    Traders = {dave}
    Zero = zero
    Codes = {x, y}
    NoCode = noCode
    TierIds = {2}
SYMMETRY AccountsSymmetry
INVARIANTS
    TypeOK
    CodeHolderOwns
    DiscountsHaveASource
