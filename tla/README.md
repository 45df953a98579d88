# Avantis in TLA+

Models, model checking and proofs of the Avantis perpetual exchange (the Solidity
contracts under `src/`; everything under `lib/` is vendored).

| module | what it is |
|---|---|
| `TradeBook` | trades, pending market orders and limit orders: Trading, PriceAggregator, the registrations of TradingCallbacks, TradingStorage |
| `IdealBook`, `TradeBookRefinement` | what the book promises, and that `TradeBook` implements it |
| `VaultLedger` | what VaultManager and the two tranches keep, and each call as a function on it |
| `Vault` | callbacks, liquidity providers and the keeper calling the ledger in any order |
| `Settlement` | `VaultLedger` composed with the money side of TradingCallbacks, TradingStorage, PairStorage and Execute |
| `Rollover` | rollover fees: the accumulators of PairInfos over blocks, open interest and liquidity |
| `TrancheShares` | shares of a tranche with their fees, composed with `VeTranche`, the locks of shares and their rewards |
| `Position` | one position and the prices it meets: slippage, stops, liquidation, margin, value |
| `Referral` | codes, owners, tiers |
| `Sums_proofs` | what sums over finite sets are, for the proofs about totals |
| `TradeBook_proofs`, `Vault_proofs`, `Settlement_proofs`, `Referral_proofs`, `Rollover_proofs`, `TrancheShares_proofs`, `Position_proofs` | the theorems |
| `MC_*`, `*.cfg` | instances for TLC |

Definitions have the contracts' names where TLA+ allows. `Slip_X` (or `SlipByOne_X`,
`SlipOnTop_X`) is `X` with a plausible mistake; nothing uses it, and substituting it for
`X` must make a run fail. PROJECT.json says which property each one is for, and which
lines each definition stands for.

## The system

| part | state | operations | talks to |
|---|---|---|---|
| Trading | operators, whitelist, limit order timelock | open, close, amend, cancel, update margin, TP, SL; execute limit orders; execute and cancel market orders | storage, aggregator, Execute |
| PriceAggregator | orders initiated, pending SL and margin updates, backup mode | getPrice, fulfill | Pyth, Chainlink; calls back TradingCallbacks |
| TradingCallbacks | fee shares | one callback per kind of order | storage, VaultManager, PairStorage, PairInfos, Execute |
| TradingStorage | trades, pending and limit orders with their arrays, back-pointers and counters; open interest; USDC of orders; fees, rebates | store, update and remove each; claims | USDC, Referral |
| PairStorage, PairInfos | pairs, groups and their open interest, order ids; rollover accumulators, spreads | lookups; updateGroupOI; storeTradeInitialAccFees; trade value | storage, VaultManager |
| Execute | triggers, executors' rewards | trigger, reward, claim | TradingCallbacks |
| VaultManager | USDC of open trades, totalRewards, pnlRewards, ratios | reserve, release, send, receive, allocate, distribute | tranches, veTranches |
| Tranche (junior, senior) | assets, totalReserved, shares | deposit, mint, withdraw, redeem; reserve, release | VaultManager |
| VeTranche | locks, lock points, accumulator of rewards | lock, unlock, forceUnlock, claimRewards | Tranche, VaultManager |
| Referral | codes, owners, pending transfers, tiers | register, transfer, accept, reassign | TradingStorage |

A contract call is a transaction: it happens as a whole or reverts. So there are no
interleavings within a call, and each action of the models is one transaction, enabled
when it would not revert. What is hard lies between transactions:

- a market order takes two, the trader's and the operator's. Everything can happen in
  between: its trade is closed by a stop loss, its collateral shrinks, its slot is given
  away, the operator gives it up while the aggregator still has it;
- limits are checked when an order is placed and matter when it is filled;
- arrays with swap-and-pop deletion and back-pointers of several traders;
- USDC of several owners in one balance: storage holds orders, fees and rebates; the
  manager holds the collateral of all trades, rewards and losses;
- the open interest, the reserves and the group's interest each count the same trades
  and are reduced by differently rounded amounts;
- liquidity providers, keeper and traders act on the tranches in any order;
- amounts are rounded down at each step, and checked arithmetic makes a wrong last unit
  a transaction that can never be executed.

What makes each part correct: the book loses, duplicates or swaps no order and keeps to
its limits; each pending order is settled; the vault can release what it reserved and
lets nobody but winners take reserved assets; each contract's USDC equals what it owes,
or the difference is known; locks get what was distributed, or the difference is known; a code
has one owner.
The full list of hazards, each at its line with the properties about it, is in
PROJECT.json.

## TradeBook

State: `openTrades`, `beingMarketClosed`, `pendingOrderIds`, `openLimitOrders` and the
others are the mappings and arrays of TradingStorage, with their own 0-based
back-pointers; `orders` and `currentOrderId` are the aggregator's. Collateral is the
only amount. A price is not a number but the outcome of the callback's checks:
`MarketOpenFills`/`MarketOpenRefunds`, `ExecuteLimitOpen`/`ExecuteLimitMiss` and so on are
the branches of the callbacks. TP, SL and liquidation close a trade at any time.
`LimitOrderRipens` is the passing of `limitOrdersTimelock` blocks.

A request and its fulfilment in the same transaction (margin, SL, limit orders) are one
action that uses an order id. `executeMarketOrders` is one action per order: the batch
reverts as a whole when one of its orders does, so the successful batches are sequences of
these actions.

`IdealBook` has three partial functions and no arrays, counters, pointers, lists or marks.
`ImplementsIdealBook` says that every transaction is one of its steps or none.

Runs, and what they show:

| run | instance | properties |
|---|---|---|
| closing | one trader, two slots, four order ids, fees 0 and 1, both closing amounts, guaranteed stop loss, backup mode on and off, storage short and not | `TypeOK`, `PendingRegistry`, `OrdersSettle`, `ImplementsIdealBook` |
| traders | two traders, two slots, two prices, three order ids | `SlotBudget`, `CountersExact`, `SlotForEveryOrder`, `TraderRegistry`, `LimitRegistry`, `LimitOrdersKeepTheirTerms` |
| stale | expected violation | `BeingClosedIsMarked` |

Order ids bound the number of requests; four allow two opens and two closes, so that an
order is pending while its slot is emptied and filled again, which is the longest story
the properties of `closing` tell apart. In `traders` limit orders cost no id to place, so
that three ids leave enough for a market order of each trader and a fill. Two traders and two slots make every swap of swap-and-pop
happen: the removed element first, in the middle and last, of the same and of another
trader. `Traders` are symmetric where no temporal property is checked.

Whether storage can send the collateral of an order is `storageShort`: fees and rebates that were
credited without their USDC are claimed out of the same balance (the run `escrow` of
`Settlement` shows how), and what comes in later makes up for it. Here it changes at any time.
While it is set, every transaction that has to send collateral reverts: fills and refunds of opens,
the cancellation of limit orders, and `cancelPendingMarketOrder` of an open, which ends in a transfer
(TradingStorage.sol:422). For a close that transfer is of 0, since its order is stored with no
position (Trading.sol:412).

Fairness. `FairSpec` assumes, for each pending order, that the operator executes or cancels it if
one of the two stays possible: `executeMarketOrders` and `cancelPendingMarketOrder` are the
operator's only tasks. Neither alone would do, and both can be impossible. A close asked for the
full collateral reverts for good once a guaranteed stop loss has taken its fee from it (the
amount is then more than the collateral), and only the fallback takes it out. An open reverts
whatever is tried while storage is short. So `OrdersSettle` says that every close leaves the
book, without condition, and that every open does if storage is short for the last time at some
point; with a storage that is short for ever, or over and over at the moments the operator
tries, an open and its slot stay taken. Nothing is assumed of traders, executors, liquidity providers
or governance.

`stale` shows that a close order outlives the trade it was asked for and then closes the
next one in the slot, which is not marked as being closed.

## VaultLedger and Vault

A ledger is the record of the six balances and reserves and of `pnlRewards`. `Reserve`,
`Release`, `Send`, `Distribute` and the others are functions of VaultManager with the
tranche calls they make, `CanX` their requirements, so that `Settlement` can chain the
calls of one callback. `Vault` puts every caller around them, in any order, with any
amounts: the callbacks are not assumed to release what they reserved.

Distribution is in the order of the code: the junior tranche's lockers, the junior
tranche, the redemption of its shares collected as unlock fees, then the senior ones.
Which part goes to lockers is chosen freely, since it depends on the shares and points
that `VeTranche` has.

Run `ledger`: amounts 1 and 3, the deployed ratios and coefficients, balances up to 3.
All 65,536 ledgers within the bound are reached, among them those whose tranches have lost
what they reserved. `VaultTypeOK` here is not a formality: each of the splits between junior
and senior could take more than there is. The step properties are
`OnlyPayoutsDrawOnReserves` and `RewardsAreNotPaidOut`.

Left out: shares, their previews and fees, which are in `TrancheShares` (here deposits and
withdrawals are in assets, with any fee); both tranches are assumed to have shares when rewards are distributed, time since
the last distribution counts to one more than `RewardPeriod`, governance's setters and
its own distributions (`distributeVeRewards`, `distributeTrancheRewards`,
`distributeCollectedFeeShares`), allocations by contracts that are not trading contracts
(deployment makes storage, callbacks, Trading and both tranches trading contracts).

## Settlement

Each slot lives through an order, a trade and closings; here are the amounts that
`TradeBook` abstracts from, and here there is one pair. `Settle` is the part of
`_unregisterTrade` shared by all closings: pay the value, allocate the loss and the fees,
send the rebate, release the reserve. Fees, rebates, gains and rewards are chosen from
small sets; `TradeValue`, `Leveraged`, `NewLeverage` and the split of fees are computed as
the code does, with its rounding.

`unbacked` and `advanced` are history variables: they add up what the code credits without
moving USDC, so that the accounts can be stated as equalities and every other unit
must be in its place.

| run | properties |
|---|---|
| money | `TypeOK`, `OpenInterestExact`, `TradesCanBeReleased`, `StorageAccountsExact`, `ManagerAccountsExact` |
| escrow | expected violation of `OrdersCanBeRefunded` |
| flat | expected violation of `FlatMarketReservesNothing` |

Two traders with a slot each, six transactions: enough for both to open, a margin update
or a partial close, and closings of both, with gains, a loss and a total loss. Both
trades do not fit one block of `BlockOILimit`, so that `NewBlock` matters. `escrow`:
fees of guaranteed stop losses and rebates of openings are credited in storage while their
USDC is in the manager, and claiming them takes the USDC of waiting orders (`storageShort` of
`TradeBook` is that state). `flat`: a
partial close releases its amount and reduces the trade by amount and fees, so that some
reserve stays in the tranches when nothing is open.

Left out: calls of liquidity providers and the keeper, which are in `Vault`. How much a trade
gains, with its loss protection, is in `Position`; the interest per pair and against USD, and
what the rollover fee of a trade is, in `Rollover`. Here gains and rollover fees are amounts
chosen freely.

## Rollover

The pairs of one group. Each pair has the accumulators of its two sides, the block they were
stored in, its fee per block and its open interest; each trade has the accumulator it
started from. A transaction stores the accumulators, moves USDC and changes the open interest of
pair, group and dollar in the order of the code, which differs between openings and closings
(store first) and margin updates (store last): what the blocks passed cost depends on it.
`Defined` is where `getPendingAccRolloverFees` does not revert and guards each of them.
`BalanceMoves` stands for everything that happens to the tranches in between.

The leverage of a trade is the exact ratio of its open interest to its collateral (the code
rounds it, see `Settlement`). The limits of the wallet, of the block and of the protocol
refuse transactions and change nothing else; they are left out, and so are setters of the
other parameters of a pair.

| run | properties |
|---|---|
| rollover | `TypeOK`, `StartsBehind`, `PastBlocksKeepTheirPrice`, `MarginUpdateForgivesNothing`, `UsdOIExact`, `HeavierSidePaysMore`, `ClosableBelowFull` |
| shorts | expected violation of `OnlyIdlePairsAreFree` |

Two trades on two forex pairs, which count on opposite sides of the dollar, three blocks, two
liquidities, two fees, five transactions besides new blocks and moves of liquidity: two
openings, a partial close or a margin update of either, and a closing. Fees are some tenths
of the open interest per block, far above the real ones, so that small collaterals change.
With two liquidities a market goes from half used to full and over it.

What the properties say, and do not: a change of a pair's own open interest or fee never reprices
the blocks that have passed. A change by another pair of the group, or of the liquidity, does:
the code charges past blocks at the utilization of the moment it stores.
`MarginUpdateForgivesNothing` leaves aside updates whose withdrawal the tranches pay, and says
nothing of charging twice, since the group's interest is reduced before the
accumulator is stored and the trade can restart behind what it has paid. `ClosableBelowFull` stops
short of the limits: a pair that fills them with longs only has a multiplier of x / 0, and then
nothing of the pair can be closed until liquidity comes. `shorts`: the utilization is
computed among the fees of the longs, so a pair with shorts only charges nothing.

## TrancheShares, with VeTranche

One tranche, its shares and its veTranche. `assets`, `balanceOf`, `totalSupply`,
`totalReserved` and `feesOn` are Tranche's; `locks`, points, the accumulator and the USDC of rewards are
VeTranche's, whose actions are conjuncts of the composed ones where shares move (`LockShares`,
`UnlockShares`, `ForceUnlockShares`). Conversions and the four public calls are ERC4626Upgradeable's
(under `src/lib`), with its virtual share and unit, each rounded in the direction of the code. A fee depends on the amount it is charged on, since that
amount moves the ratio of the two tranches; the fee on the open PnL is any of
`CollateralFees`. The vault manager reserves, releases, sends and takes in any order.

Run `shares`: two providers, amounts that cross the balancing threshold, seven transactions,
two locks and two distributions: enough to deposit, lock, end the lock early, have its
fee distributed and redeem, with a payout to a trader in between. `Precision` is 2 and the
multiplier 3, one and a half points per share, so that a lock of one share has points that are not whole
and one of four shares has, alone or together. Properties:

- `SharesExact`: the shares of holders, locks and the manager are all there are, and locks have
  their points;
- `RewardsBacked`: the veTranche has the USDC that its locks can claim, but for `excess`;
- `RedeemWithinLimitSucceeds`: `maxRedeem` promises nothing that `redeem` refuses. It
  names two exceptions the code has: taking the free assets to the last unit, which the
  check on utilization refuses, and an amount so small that its two fees, each rounded up,
  are more than itself, which underflows (Tranche.sol:183-186);
- `ShareValueNeverFalls`: only payouts to traders lower the value of a share.

`excess` is a history variable. A distribution raises the accumulator by the rewards over the
*whole* points (VeTranche.sol:114-116, 272), while a lock earns on all of its points
(VeTranche.sol:298-301). Points come in units of 1 / `Precision`, and `lock` takes any number of shares with
multipliers of at least 1.2, so that usually they do not add up to whole points: the rest earns
what nobody paid in, at most rewards * rest / whole points in a distribution
(`CreditedBeyond`, rounded up). Then what the locks can claim is more than the USDC that is there, and the last
of them can neither claim nor end its lock until another distribution. `RewardsBacked` says
that nothing else is missing: roundings of accumulator and claims never add to it, locks earn from
when they start, and what is claimed is not claimed again. Where points are whole, `excess`
stays 0 and all of it is there; without `excess` the run finds the property violated.

Left out: the other tranche's movements (its assets are constant), governance's setters but for
`setFeesOn`, transfers of the token that owns a lock, the curve of lock points (`Multipliers`
gives them), and `distributeReward`, which nothing calls.

## Position

One trade from its opening to its close, with numbers for prices. An answer of the
aggregator is a price that its checks let through: Pyth's confidence interval, the deviation
from Chainlink, and a price of 0 in backup mode, except for liquidations. The actions are
the callbacks with slippage, spread or price impact as an amount, `correctTp` and `correctSl`,
the guaranteed stop loss, the withdrawal limit of margin, the liquidation price with its rollover fee, and
the value of a closed amount. `paidIn`, `paidOut` and `unpaid` are history variables: the
trader's money in and out, and the margin changed without USDC moving.

Run `position`: a long or a short at 1000, ten times leveraged; prices that double or crush it, reach TP,
stop loss and liquidation, and leave it alone; a partial close, one amount of margin either
way, a guaranteed stop loss, loss protection on and off, both oracle modes; four transactions. Properties:

- `SolventTradesAreNotLiquidated`: the liquidation price is exact to one unit after any
  change of margin;
- `InsolventTradesAreCloseable`: no gap between the check of the trigger and the check of the price.
  A trade whose stop loss is nearer than its liquidation price is closed by the stop.
  Its third case is a refusal of the code: a total loss that owes no fee allocates rewards of
  0, which the manager rejects (VaultManager.sol:284);
- `PayoutsWithinMaxGain`: `maxGainP` bounds what all payouts of a trade add up to, although each is
  computed on a part and leverage changes in between;
- `WithdrawalsLeaveTradesSolvent`: margin cannot be withdrawn past the liquidation price.

In backup mode a stop is not executed, so a trade with a nearer stop loss cannot be closed at
all until the mode ends; and an update of margin is applied to the trade without USDC being
moved (TradingCallbacks.sol:75, PriceAggregator.sol:123), which `unpaid` counts.

`PositionAssumption` states what the deployment gives: leverages of at least one, percentages up to
100, spreads of less than 100 percent. Left out: the referral discount, which lowers the closing
fee; the time locks of TP and SL; exponents of feeds.

## Referral

Both tables of codes, pending transfers, tiers and traders' codes. Accounts send transactions; a
trader with a code is a constant of its own, `Traders`, since nothing else depends on who trades. Governance may
name any address, and a code may be offered to any: `address(0)` is `Zero`, `bytes32(0)` is `NoCode`, and both
are inputs of every action that takes an address or a code.

Two history variables carry what the properties have to set apart: `graded`, the addresses whose
tier was given by `setReferrerTier`, and `reclaimed`, the codes taken from an owner because
`address(0)` was given another. Giving `address(0)` a code makes it a referrer: everybody who is
referred by nobody has its tier from then on (`traderReferralDiscount` looks up
`referrerTiers[address(0)]`). The code itself counts as free, whoever registers it owns it, and
the next code given to `address(0)` takes it from that owner. Properties:

- `CodeHolderOwns`: a code that an account has as its own is owned by that account, but for those
  `reclaimed`;
- `DiscountsHaveASource`: the referrer in whose tier a trader is has a code or is `graded`. For a
  trader nobody referred this says that there is no tier, unless governance gave
  `address(0)` a code or a tier.

Run `codes`: three accounts and two codes, so that a code passes from one account to a second
that has another one, while a third waits to accept it; with `address(0)` among the owners, so that
a code is registered again, transferred and reclaimed. Left out: the tables of tiers, handlers,
change of governance.

## What is proved

For all values of the constants that satisfy the named assumptions of the modules.

*TradeBook* (`LimitsAssumption`, `AmountsAssumption`, `NoOrderAssumption`). The inductive
invariant is `IInv == TypeOK /\ LimitRegistry /\ PendingRegistry /\ SlotBudget`. The types
alone are not inductive: `UnregisterOpenLimitOrder` and the pending lists index arrays by
stored positions, which are inside the arrays because of the two registries. The budget
needs `PendingRegistry` too: an open that is filled is still in its list, so that its
counter falls when the counter of trades rises. `LimitRegistry` is inductive because the
element moved into the freed place is the one whose pointer is rewritten, also when the
removed and the last are the same. Theorems: `NextKeepsIInv`, `TypeCorrect`,
`LimitRegistryCorrect`, `PendingRegistryCorrect`, `SlotBudgetCorrect`.

On top of `IInv`: `LimitOrdersKeepTheirTermsAlways` needs `LimitRegistry`: deleting
an order moves another one, which is still found under its key because the pointer
rewritten is its own. `TraderRegistryCorrect` is inductive together with the types; the trader moved
into the freed place is a book of the same pair, so that his pointer and nobody else's
is rewritten. `CountersExactAlways` splits the counters in three (trades, limit orders, pending
orders): each step adds an element to one finite set, removes one, or leaves the set alone.
That a limit order is removed from the set at most once is `LimitRegistry` again, that an id is
used once and that a cancelled order is an open or a close `PendingRegistry`.
`SlotForEveryOrderAlways` is then arithmetic: the budget, in which the counters may be read
as cardinalities, against the `MaxTradesPerPair` keys of a book.

*The refinement.* `BookImplementsIdealBook`: every behaviour of `TradeBook` is one of
`IdealBook` under the mapping of `TradeBookRefinement`. The invariant is `Sound == IInv /\ Counted
/\ IdealTyped`: the arrays and pointers are right (`IInv`), the counters that guard an
opening are cardinalities, hence the `Load` of the ideal book (`LoadIsCounted`), and what is
stored can be written in the ideal book's terms (`IdealTyped`). Each registration of
TradingStorage adds one pair to one of the three partial functions or takes one out, and each
action is then one ideal step, or, where it only touches marks, lists and pointers, none. The
step that needs most is the fill of an order: the slot found by searching is one that the
ideal book has free, and the order vanishes from the ideal book as its trade appears.

*Vault* (`RatiosAssumption`, `VaultAssumption`). `VaultTypeOK` is inductive by itself, and the
work is arithmetic: `ShareFits` shows that a share computed as amount * (a * s \div (a+b))
\div s stays within a when the amount is within a+b, whatever the roundings, from which the release
fits (`ReleaseFitsCorrect`); ratios are between 0 and 100; a tranche whose utilization is
below the threshold has what it reserved (`BelowThresholdIsFunded`), from which
withdrawals and redemptions do not draw on reserves (`PayoutsAloneDrawOnReserves`). A
payout takes exactly its shortfall from the tranches (`RewardsStay`).

*Sums.* The totals that contracts keep by hand are sums over slots, locks, holders or pairs,
written with `SumFunction`, a recursive function over the subsets of the domain. That
there is such a function, what it yields and how it changes with one term are proved by an
induction over finite subsets that is stated with a least element, as the library's fact about
least elements takes a set where its induction rules take an operator.

*Settlement* (`SettlementAssumption` and the ledger's). `SettlementIInv` is `TypeOK`, that a slot
is an order or a trade (`OneUse`), that each of the four counters of interest is the sum of
its trades' (`Counted`), that the tranches have reserved what the total counts and no trade stands for more
than its open interest (`Backed`), and the two balances. None of them is inductive alone: a
counter is not clamped because the closed trade is one of its terms, a release fits because
the trade is backed, and a trade stays backed because `NewLeverage` rounds down
(`NewLeverageFits`) and two leveraged parts are at most the whole (`LeveragedSplits`). `SettleEffect`
says once what all closings do to the accounts. Theorems: `SettlementTypeCorrect`,
`OpenInterestAlwaysExact`, `TradesCanAlwaysBeReleased`, `StorageAccountsAlwaysExact`,
`ManagerAccountsAlwaysExact`.

*Referral* (`ReferralAssumption` alone). `CodeHolderOwns`, the types and that a tier has a source
(for `address(0)` as for every address) are inductive together: of two holders of a code that
is not `reclaimed` only one could be its owner, so a transfer that takes it from its owner takes it from its only
holder, and the tier goes with the code. Nothing is assumed of governance. Theorems: `TypeCorrect`,
`CodeHolderOwnsAlways`, `DiscountsHaveASourceAlways`.

*Rollover* (`RolloverAssumption`). `IInv == TypeOK /\ StartsBehind`: the accumulators are
natural numbers only if fees are defined and not negative, which `LoadInRange` derives from
`Defined`, and the collateral of a closed part stays one only if the fee, computed from the
difference to the start, is not negative. `PendingGrows` and `StoreGrows` show that storing
never takes an accumulator back, and every start is read from one just stored, so that it
stays behind. `PastBlocksKeepTheirPriceAlways` follows action by action: each that touches
`interest` or `feePerBlock` of a pair stores that pair, and touches no other.
`HeavierSidePaysMoreAlways` and `MarginUpdateForgivesNothingAlways` rest on monotony: of the load in
the interest, of the multiplier in the load, of the cost in both. `UsdOIExactAlways`: what a
change of a pair's interest adds to a side of the dollar, with the sides swapped for pairs
quoted in it, is what it adds to the sum over pairs. `ClosableBelowFullAlways` follows: where
a forex pair has interest, so has the dollar.

*TrancheShares* (`TrancheSharesAssumption`, `VeTrancheAssumption`). `SharesIInv` is the types and
that the shares and points in the veTranche are the sums over its locks, and `totalSupply` is
those shares and the sum of all balances; `SharesAlwaysExact` is read off it. From it `totalSupply` is never less than what is burnt,
and then: deposits round shares down and mints round assets up, so that the rate of
assets to shares, with its virtual units, does not fall (`MoreIn`); withdrawals round the
other way (`LessOut`), which gives `ValueOfShares`. A fee on what remains after a fee is at most the fee on all, which is
where the two computations of the same fee could disagree. `LimitsHold`: what
`maxRedeem` converts to is within the free assets, and then the check on utilization, which
multiplies where the limit divides, agrees. `RewardsAlwaysBacked` adds `RewardsIInv`: no lock starts ahead of
the accumulator, and `usdc + excess` covers the sum of what all locks have earned before
rounding. `SharedByPoints` is the arithmetic of a distribution over w whole points and a rest: what it
credits is at most the rewards and, rounded up, the rewards times the rest over w.
From there the earned amounts add up (`SumOfParts`, `SumGrows`), for any shares and multipliers.

*Position* (`PositionAssumption`). `IInv` is the types, that an open trade has a price above 0,
and `PayoutsWithinMaxGain`. The work is the division of signed numbers: the gain is cut at `maxGainP`
before it is applied to the amount closed, and the collateral falls by the amount and the fees, so that
what can still be paid falls by at least what was paid (`PayoutsWithinMaxGainAlways`).
`SolventTradesAreNotLiquidatedAlways` is the rounding of the liquidation price in either
direction. `InsolventTradesAreCloseableAlways` needs `2 * LiqFeeP <= LiqTotalFeeP`, the values
5 and 10 that the callbacks are initialized with (TradingCallbacks.sol:44-45): with a smaller share
for the vault, the fee of a small liquidation is 0 and the manager refuses it.

`WithdrawalsLeaveTradesSolventAlways` compares two thresholds: a withdrawal asks that the
trade keep more than 20 percent after its loss, the liquidation price stands at a loss of 85. Four
roundings lie between: of the profit, of the loss, of the position and of the distance. They
are together less than five percent when a trade has `RoomToRound`: at least 100 units of collateral, and
a leverage of which fifty times is at most its price, both in their units. With ten decimals
of price that is a leverage of 100 for any price above 5000 units of 10^-10. The theorem
assumes that trades have that room and `WithdrawThresholdP + 5 <= LiqThreshold`; five is what
the code has, and is named because closer thresholds would need more room. The run checks
the property on small numbers, where trades without that room are reached too.

## Only model-checked

Liveness: `OrdersSettle`, with its fairness and `ENABLED`, is out of the proof system's reach. It is
checked in the run `closing`, for closes without and for opens with the condition on storage. Every other property of the runs that are expected to pass
is also a theorem.

## Where code and its texts differ

Four runs are expected to fail, each with one property taken from a comment, a message or
a document of the repository: `stale`, `escrow`, `flat`, `shorts`. PROJECT.json
quotes the text and says what the run shows. Each is a statement about correctness of
bookkeeping as modelled.

## Not modelled

Everything under `src/lib` (a Chainlink node, OpenZeppelin, forge-std, the Pyth SDK) is
third-party code that the contracts import or test with; of it only the conversions and calls of
ERC4626Upgradeable and the rounding of MathUpgradeable.mulDiv are modelled, in `TrancheShares`. Of the project's own: Multicall (views),
Timelock (a library contract, renamed), OpenInterestCheck (a view), mocks and the test
token. Of the modelled parts: governance's setters, which would make every constant a
variable; the whitelist and pausing; ETH; time locks of TP and SL; spreads and price impact as
functions of the open interest, and the tier of loss protection (their results are constants
of `Position`); events.

## Plan

Done, in this order, the parts that hold orders and money first: `TradeBook` with
`IdealBook`; `VaultLedger` and `Vault`; `Settlement` on top of the ledger; `Referral`;
`VeTranche` and `TrancheShares` on top of it; `Rollover`; `Position`; the theorems above.

Next, models: `Settlement` with the prices of `Position` and the fees of `Rollover`, on an
instance small enough; loss protection tiers and price impact by the skew of the pair.

Next, proofs:

1. `Vault`: that a distribution gives each part its share, whatever the roundings.
2. `Position`: the payouts of a trade against `unpaid`, the margin changed without USDC.

Properties that need the same instance share a run. Runs and bounds stay as small as the
story of a property allows; each finishes within two minutes on two workers.
