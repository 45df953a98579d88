--------------------------- MODULE Rollover_proofs ---------------------------
(* Proofs about Rollover, for every value of its constants. *)
EXTENDS Rollover, Sums_proofs, TLAPS

-----------------------------------------------------------------------------
(* Arithmetic and helpers. *)

\* Products and quotients of naturals are naturals.
LEMMA Product == ASSUME NEW a \in Nat, NEW b \in Nat PROVE a * b \in Nat
BY SMT

LEMMA Quotient == ASSUME NEW x \in Nat, NEW n \in Nat \ {0} PROVE x \div n \in Nat
BY SMT

\* A part of a whole, taken of another amount, is at most that amount.
LEMMA PartOfWhole ==
    ASSUME NEW part \in Nat, NEW whole \in Nat \ {0}, part <= whole, NEW oi \in Nat
    PROVE  (part * oi) \div whole \in 0 .. oi
<1> DEFINE x == part * oi
<1>1. x \in Nat /\ whole * oi \in Nat /\ x <= whole * oi
  BY SMT
<1> HIDE DEF x
<1>2. x \div whole \in Nat /\ (x \div whole) * whole <= x
  BY <1>1, SMT
<1> DEFINE q == x \div whole
<1>3. q * whole <= oi * whole
  BY <1>1, <1>2, SMT
<1> HIDE DEF q
<1>4. q <= oi
  <2>1. q \in Nat
    BY <1>2 DEF q
  <2>2. SUFFICES ASSUME oi + 1 <= q PROVE FALSE
    BY <2>1, SMT
  <2>3. (oi + 1) * whole <= q * whole /\ (oi + 1) * whole = oi * whole + whole
    BY <2>1, <2>2, SMT
  <2> QED
    BY <1>3, <2>1, <2>3, SMT
<1> QED
  BY <1>2, <1>4 DEF q, x

\* The sides of a pair.
LEMMA SideTypes ==
    ASSUME NEW p, NEW side \in Sides
    PROVE  Other(side) \in Sides /\ UsdSide(p, side) \in Sides
BY DEF Sides, Other, UsdSide

\* An open interest to subtract is never made negative.
LEMMA LessIsNat == ASSUME NEW n \in Nat, NEW a \in Nat PROVE Less(n, a) \in Nat
BY SMT DEF Less

-----------------------------------------------------------------------------
(* What a block costs. *)

\* Where the fees of a pair with longs are defined, its limits are positive.
LEMMA LimitsArePositive ==
    ASSUME RolloverAssumption, NEW p \in Pairs, NEW g, NEW b \in Balances,
           Defined(p, g, b), interest[p]["long"] > 0
    PROVE  GroupMaxOI(b) \in Nat \ {0} /\ PairMaxOI(p, b) \in Nat \ {0}
<1>1. GroupMaxOI(b) > 0 /\ PairMaxOI(p, b) > 0
  BY DEF Defined
<1>2. GroupMaxP \in Nat /\ b \in Nat /\ PairP[p] \in Nat
  BY DEF RolloverAssumption
<1>3. GroupMaxOI(b) \in Nat
  BY <1>2, Product, Quotient DEF GroupMaxOI
<1>4. PairMaxOI(p, b) \in Nat
  <2>1. PairP[p] * GroupMaxOI(b) \in Nat
    BY <1>2, <1>3, Product
  <2> QED
    BY <2>1, Quotient DEF PairMaxOI
<1> QED
  BY <1>1, <1>3, <1>4, SMT

\* The utilization, as a blend of two ratios.
LEMMA UtilizationIsNat ==
    ASSUME RolloverAssumption, TypeOK, NEW p \in Pairs, NEW g \in [Sides -> Nat],
           NEW b \in Balances, Defined(p, g, b), interest[p]["long"] > 0
    PROVE  BlendedUtilizationRatio(p, g, b) \in Nat
<1> DEFINE x == (Both(g) * Precision) \div GroupMaxOI(b)
           y == (Both(interest[p]) * Precision) \div PairMaxOI(p, b)
<1>1. /\ interest[p] \in [Sides -> Nat] /\ "long" \in Sides /\ "short" \in Sides
      /\ Precision \in Nat
  BY DEF TypeOK, Sides, RolloverAssumption
<1>2. Both(interest[p]) \in Nat /\ Both(g) \in Nat
  BY <1>1, SMT DEF Both
<1>3. x \in Nat /\ y \in Nat
  <2>1. Both(g) * Precision \in Nat /\ Both(interest[p]) * Precision \in Nat
    BY <1>1, <1>2, Product
  <2> QED
    BY <2>1, LimitsArePositive, Quotient
<1>4. BlendedUtilizationRatio(p, g, b) = (75 * x + 25 * y) \div 100
  BY DEF BlendedUtilizationRatio
<1> HIDE DEF x, y
<1> QED
  BY <1>3, <1>4, SMT

\* The skews of a side of a pair that has open interest.
LEMMA SkewIsNat ==
    ASSUME RolloverAssumption, TypeOK, NEW p \in Pairs, NEW side \in Sides,
           Both(interest[p]) > 0, IsForex => Both(usdOI) > 0
    PROVE  /\ Both(interest[p]) \in Nat \ {0} /\ AssetSkew(p, side) \in Nat
           /\ IsForex => Both(usdOI) \in Nat \ {0} /\ UsdSkew(p, side) \in Nat
           /\ BlendedSkew(p, side) \in Nat
<1>1. /\ interest[p] \in [Sides -> Nat] /\ "long" \in Sides /\ "short" \in Sides
      /\ usdOI \in [Sides -> Nat]
  BY DEF TypeOK, Sides
<1>2. Both(interest[p]) \in Nat \ {0} /\ Both(usdOI) \in Nat
  BY <1>1, SMT DEF Both
<1>3. AssetSkew(p, side) \in Nat
  <2>1. 100 * interest[p][side] \in Nat
    BY <1>1, Product
  <2> QED
    BY <2>1, <1>2, Quotient DEF AssetSkew
<1>4. IsForex => Both(usdOI) \in Nat \ {0} /\ UsdSkew(p, side) \in Nat
  <2>1. SUFFICES ASSUME IsForex PROVE Both(usdOI) \in Nat \ {0} /\ UsdSkew(p, side) \in Nat
    OBVIOUS
  <2>2. Both(usdOI) \in Nat \ {0}
    BY <1>2, <2>1, SMT
  <2>3. 100 * usdOI[UsdSide(p, side)] \in Nat
    BY <1>1, SideTypes, Product
  <2> QED
    BY <2>2, <2>3, Quotient DEF UsdSkew
<1>5. CASE IsForex
  <2>1. BlendedSkew(p, side) = (75 * UsdSkew(p, side) + 25 * AssetSkew(p, side)) \div 100
    BY <1>5 DEF BlendedSkew
  <2> QED
    BY <1>2, <1>3, <1>4, <1>5, <2>1, SMT
<1>6. CASE ~IsForex
  BY <1>2, <1>3, <1>6 DEF BlendedSkew
<1> QED
  BY <1>2, <1>3, <1>4, <1>5, <1>6

\* The load of a side with open interest is a natural below the point where
\* the multiplier is undefined.
LEMMA LoadInRange ==
    ASSUME RolloverAssumption, TypeOK,
           NEW p \in Pairs, NEW side \in Sides, NEW g \in [Sides -> Nat], NEW b \in Balances,
           Defined(p, g, b), interest[p][side] > 0
    PROVE  Load(p, side, g, b) \in Nat /\ Load(p, side, g, b) < Precision * 100
<1>1. Load(p, side, g, b) < Precision * 100
  BY DEF Defined
<1>2. CASE interest[p]["long"] = 0
  BY <1>1, <1>2 DEF Load
<1>3. CASE interest[p]["long"] # 0
  <2>1. interest[p]["long"] > 0 /\ Both(interest[p]) > 0
    <3>1. interest[p] \in [Sides -> Nat] /\ "long" \in Sides /\ "short" \in Sides
      BY DEF TypeOK, Sides
    <3> QED
      BY <1>3, <3>1, SMT DEF Both
  <2>2. BlendedUtilizationRatio(p, g, b) \in Nat
    BY <2>1, UtilizationIsNat
  <2>3. BlendedSkew(p, side) \in Nat
    BY <2>1, SkewIsNat DEF Defined
  <2>4. Load(p, side, g, b) \in Nat
    BY <1>3, <2>2, <2>3, Product DEF Load
  <2> QED
    BY <1>1, <2>4
<1> QED
  BY <1>2, <1>3

\* Accumulators only grow: where the fees of a pair are defined, what is
\* pending on a side is at least what is stored.
LEMMA PendingGrows ==
    ASSUME RolloverAssumption, TypeOK,
           NEW p \in Pairs, NEW side \in Sides, NEW g \in [Sides -> Nat], NEW b \in Balances,
           Defined(p, g, b)
    PROVE  PendingAcc(p, side, g, b) \in Nat /\ acc[p][side] <= PendingAcc(p, side, g, b)
<1> DEFINE blocks == block - lastUpdateBlock[p]
           load   == Load(p, side, g, b)
<1>1. acc[p][side] \in Nat /\ interest[p][side] \in Nat
  BY DEF TypeOK
<1>2. blocks \in Nat
  BY SMT DEF TypeOK
<1>3. feePerBlock[p] \in Nat /\ Precision \in Nat \ {0}
  BY DEF TypeOK, RolloverAssumption
<1>4. Accrued(p, side, blocks, g, b) \in Nat
  <2>1. CASE interest[p][side] = 0
    BY <2>1 DEF Accrued
  <2>2. CASE interest[p][side] # 0
    <3>1. load \in Nat /\ load < Precision * 100
      <4>1. interest[p][side] > 0
        BY <1>1, <2>2, SMT
      <4> QED
        BY <4>1, LoadInRange
    <3>2. Accrued(p, side, blocks, g, b) = (Multiplier(load) * blocks * feePerBlock[p]) \div Precision
      BY <2>2 DEF Accrued
    <3> HIDE DEF load, blocks
    <3>3. Multiplier(load) \in Nat
      <4>1. Precision * load \in Nat /\ Precision * 100 - load \in Nat \ {0}
        BY <3>1, <1>3, Product, SMT
      <4> QED
        BY <4>1, Quotient DEF Multiplier
    <3>4. Multiplier(load) * blocks \in Nat
      BY <3>3, <1>2, Product
    <3>5. Multiplier(load) * blocks * feePerBlock[p] \in Nat
      BY <3>4, <1>3, Product
    <3> QED
      BY <3>2, <3>5, <1>3, Quotient
  <2> QED
    BY <2>1, <2>2
<1>5. PendingAcc(p, side, g, b) = acc[p][side] + Accrued(p, side, blocks, g, b)
  BY DEF PendingAcc
<1> HIDE DEF blocks
<1> QED
  BY <1>1, <1>4, <1>5, SMT

\* What a transaction stores is a natural and no less than what was stored.
LEMMA StoreGrows ==
    ASSUME RolloverAssumption, TypeOK, NEW p \in Pairs,
           NEW g \in [Sides -> Nat], NEW b \in Balances, StoreAccRolloverFees(p, g, b)
    PROVE  /\ acc' \in [Pairs -> [Sides -> Nat]]
           /\ lastUpdateBlock' \in [Pairs -> 0 .. block]
           /\ \A q \in Pairs, side \in Sides : acc[q][side] <= acc'[q][side]
<1>1. /\ acc \in [Pairs -> [Sides -> Nat]] /\ block \in Nat
      /\ lastUpdateBlock \in [Pairs -> 0 .. block]
  BY DEF TypeOK
<1>2. /\ acc' = [acc EXCEPT ![p] = [side \in Sides |-> PendingAcc(p, side, g, b)]]
      /\ lastUpdateBlock' = [lastUpdateBlock EXCEPT ![p] = block]
      /\ Defined(p, g, b)
  BY DEF StoreAccRolloverFees
<1>3. \A side \in Sides : /\ PendingAcc(p, side, g, b) \in Nat
                          /\ acc[p][side] <= PendingAcc(p, side, g, b)
  BY <1>2, PendingGrows
<1>4. [side \in Sides |-> PendingAcc(p, side, g, b)] \in [Sides -> Nat]
  BY <1>3
<1>5. acc' \in [Pairs -> [Sides -> Nat]]
  BY <1>1, <1>2, <1>4
<1>6. lastUpdateBlock' \in [Pairs -> 0 .. block]
  <2>1. block \in 0 .. block
    BY <1>1, SMT
  <2> QED
    BY <1>1, <1>2, <2>1
<1>7. ASSUME NEW q \in Pairs, NEW side \in Sides PROVE acc[q][side] <= acc'[q][side]
  <2>1. CASE q = p
    <3>1. acc'[p][side] = PendingAcc(p, side, g, b)
      BY <1>1, <1>2
    <3> QED
      BY <3>1, <2>1, <1>3
  <2>2. CASE q # p
    <3>1. acc'[q] = acc[q]
      BY <1>1, <1>2, <2>2
    <3>2. acc[q][side] \in Nat
      BY <1>1
    <3> QED
      BY <3>1, <3>2, SMT
  <2> QED
    BY <2>1, <2>2
<1> QED
  BY <1>5, <1>6, <1>7

-----------------------------------------------------------------------------
(* Open interest. *)

\* Adding open interest keeps the types.
LEMMA AddTypes ==
    ASSUME TypeOK, NEW p \in Pairs, NEW side \in Sides, NEW n \in Nat,
           AddOpenInterest(p, side, n)
    PROVE  interest' \in [Pairs -> [Sides -> Nat]] /\ usdOI' \in [Sides -> Nat]
<1>1. interest \in [Pairs -> [Sides -> Nat]] /\ usdOI \in [Sides -> Nat]
  BY DEF TypeOK
<1>2. [interest[p] EXCEPT ![side] = @ + n] \in [Sides -> Nat]
  <2>1. interest[p][side] + n \in Nat
    BY <1>1, SMT
  <2> QED
    BY <1>1, <2>1
<1>3. interest' = [interest EXCEPT ![p] = [interest[p] EXCEPT ![side] = @ + n]]
  BY <1>1 DEF AddOpenInterest
<1>4. usdOI' \in [Sides -> Nat]
  <2>1. usdOI[UsdSide(p, side)] + n \in Nat
    BY <1>1, SideTypes, SMT
  <2> QED
    BY <1>1, <2>1 DEF AddOpenInterest
<1> QED
  BY <1>1, <1>2, <1>3, <1>4

\* So does reducing it: neither the pair nor the dollar goes below zero.
LEMMA ReduceTypes ==
    ASSUME TypeOK, NEW p \in Pairs, NEW side \in Sides, NEW n \in Nat,
           ReduceOpenInterest(p, side, n)
    PROVE  interest' \in [Pairs -> [Sides -> Nat]] /\ usdOI' \in [Sides -> Nat]
<1> DEFINE dust == IF n > interest[p][side] THEN interest[p][side] ELSE n
<1>1. interest \in [Pairs -> [Sides -> Nat]] /\ usdOI \in [Sides -> Nat]
  BY DEF TypeOK
<1>2. dust \in Nat /\ interest[p][side] - dust \in Nat
  <2>1. interest[p][side] \in Nat
    BY <1>1
  <2> QED
    BY <2>1, SMT
<1>3. /\ interest' = [interest EXCEPT ![p][side] = @ - dust]
      /\ IF IsForex
         THEN /\ dust <= usdOI[UsdSide(p, side)]
              /\ usdOI' = [usdOI EXCEPT ![UsdSide(p, side)] = @ - dust]
         ELSE usdOI' = usdOI
  BY DEF ReduceOpenInterest
<1> HIDE DEF dust
<1>4. interest' \in [Pairs -> [Sides -> Nat]]
  <2>1. [interest[p] EXCEPT ![side] = @ - dust] \in [Sides -> Nat]
    BY <1>1, <1>2
  <2>2. interest' = [interest EXCEPT ![p] = [interest[p] EXCEPT ![side] = @ - dust]]
    BY <1>1, <1>3
  <2> QED
    BY <1>1, <2>1, <2>2
<1>5. usdOI' \in [Sides -> Nat]
  <2>1. CASE IsForex
    <3>1. UsdSide(p, side) \in Sides /\ usdOI[UsdSide(p, side)] \in Nat
      BY <1>1, SideTypes
    <3>2. usdOI[UsdSide(p, side)] - dust \in Nat
      BY <3>1, <2>1, <1>2, <1>3, SMT
    <3> QED
      BY <1>1, <1>3, <2>1, <3>1, <3>2
  <2>2. CASE ~IsForex
    BY <1>1, <1>3, <2>2
  <2> QED
    BY <2>1, <2>2
<1> QED
  BY <1>4, <1>5

\* The open interest of the group keeps its type.
LEMMA GroupTypes ==
    ASSUME TypeOK, NEW side \in Sides, NEW n \in Nat
    PROVE  GroupLess(side, n) \in [Sides -> Nat]
<1>1. groupOI \in [Sides -> Nat]
  BY DEF TypeOK
<1>2. Less(groupOI[side], n) \in Nat
  BY <1>1, LessIsNat
<1> QED
  BY <1>1, <1>2 DEF GroupLess

-----------------------------------------------------------------------------
(* Trades. *)

\* The fields of an open trade.
LEMMA TradeFields ==
    ASSUME TypeOK, NEW s \in Slots, IsTrade(s)
    PROVE  /\ trade[s] \in Trades
           /\ trade[s].pair \in Pairs /\ trade[s].side \in Sides
           /\ trade[s].coll \in Nat /\ trade[s].oi \in Nat /\ trade[s].start \in Nat
BY DEF TypeOK, IsTrade, Trades

\* The open interest of a part of a trade's collateral is at most the trade's.
LEMMA LeveragedPart ==
    ASSUME TypeOK, NEW s \in Slots, IsTrade(s), NEW n \in Nat, n <= trade[s].coll
    PROVE  Leveraged(s, n) \in 0 .. trade[s].oi
<1>1. trade[s].coll \in Nat /\ trade[s].oi \in Nat
  BY TradeFields
<1>2. CASE trade[s].coll = 0
  BY <1>1, <1>2, SMT DEF Leveraged
<1>3. CASE trade[s].coll # 0
  <2>1. trade[s].coll \in Nat \ {0}
    BY <1>1, <1>3
  <2> QED
    BY <1>1, <1>3, <2>1, PartOfWhole DEF Leveraged
<1> QED
  BY <1>2, <1>3

LEMMA LeveragedIsNat ==
    ASSUME TypeOK, NEW s \in Slots, IsTrade(s), NEW n \in Nat
    PROVE  Leveraged(s, n) \in Nat
<1>1. trade[s].coll \in Nat /\ n * trade[s].oi \in Nat
  BY TradeFields, Product
<1>2. CASE trade[s].coll = 0
  BY <1>2 DEF Leveraged
<1>3. CASE trade[s].coll # 0
  BY <1>1, <1>3, Quotient DEF Leveraged
<1> QED
  BY <1>2, <1>3

IInv == TypeOK /\ StartsBehind

\* The fee of a trade that starts behind its accumulator is a natural.
LEMMA FeeIsNat ==
    ASSUME RolloverAssumption, IInv, NEW s \in Slots, IsTrade(s), NEW oi \in Nat,
           Defined(trade[s].pair, groupOI, balance)
    PROVE  RolloverFee(s, oi) \in Nat
<1> DEFINE t == trade[s]
           due == PendingAcc(t.pair, t.side, groupOI, balance) - t.start
<1>1. TypeOK /\ groupOI \in [Sides -> Nat] /\ balance \in Balances
  BY DEF IInv, TypeOK
<1>2. t.pair \in Pairs /\ t.side \in Sides /\ t.start \in Nat
  BY <1>1, TradeFields
<1>3. /\ PendingAcc(t.pair, t.side, groupOI, balance) \in Nat
      /\ acc[t.pair][t.side] <= PendingAcc(t.pair, t.side, groupOI, balance)
  BY <1>1, <1>2, PendingGrows
<1>4. t.start <= acc[t.pair][t.side] /\ acc[t.pair][t.side] \in Nat
  BY <1>2 DEF IInv, StartsBehind, TypeOK
<1>5. due \in Nat
  BY <1>2, <1>3, <1>4, SMT
<1>6. RolloverFee(s, oi) = (due * oi) \div Precision
  BY DEF RolloverFee
<1> HIDE DEF due
<1>7. due * oi \in Nat /\ Precision \in Nat \ {0}
  BY <1>5, Product DEF RolloverAssumption
<1> QED
  BY <1>6, <1>7, Quotient

\* A step in which accumulators only grow, and each trade keeps its start or
\* takes it from them, leaves no trade ahead.
LEMMA StartsStayBehind ==
    ASSUME IInv, TypeOK',
           \A q \in Pairs, side \in Sides : acc[q][side] <= acc'[q][side],
           \A s \in Slots : IsTrade(s)' =>
             \/ /\ IsTrade(s)
                /\ trade'[s].pair = trade[s].pair /\ trade'[s].side = trade[s].side
                /\ trade'[s].start = trade[s].start
             \/ trade'[s].start = acc'[trade'[s].pair][trade'[s].side]
    PROVE  StartsBehind'
<1> SUFFICES ASSUME NEW s \in Slots, IsTrade(s)'
             PROVE  trade'[s].start <= acc'[trade'[s].pair][trade'[s].side]
  BY DEF StartsBehind, IsTrade
<1>1. trade'[s] \in Trades
  BY DEF TypeOK, IsTrade
<1>2. trade'[s].pair \in Pairs /\ trade'[s].side \in Sides
  BY <1>1 DEF Trades
<1>3. acc'[trade'[s].pair][trade'[s].side] \in Nat
  BY <1>2 DEF TypeOK
<1>4. CASE trade'[s].start = acc'[trade'[s].pair][trade'[s].side]
  BY <1>3, <1>4, SMT
<1>5. CASE /\ IsTrade(s)
           /\ trade'[s].pair = trade[s].pair /\ trade'[s].side = trade[s].side
           /\ trade'[s].start = trade[s].start
  <2>1. TypeOK
    BY DEF IInv
  <2>2. trade[s].start \in Nat /\ acc[trade[s].pair][trade[s].side] \in Nat
    BY <1>5, <2>1, TradeFields DEF TypeOK
  <2>3. trade[s].start <= acc[trade[s].pair][trade[s].side]
    BY <1>5 DEF IInv, StartsBehind
  <2> QED
    BY <1>2, <1>3, <1>5, <2>2, <2>3, SMT
<1> QED
  BY <1>4, <1>5

-----------------------------------------------------------------------------
(* Each transaction keeps the invariant. *)

\* An opening stores the accumulators, then takes its start from them.
LEMMA RegisterTradeKeeps ==
    ASSUME RolloverAssumption, IInv, Step, NEW s \in Slots, NEW p \in Pairs, NEW side \in Sides,
           NEW coll \in Nat, NEW oi \in Nat, NEW asked \in Nat,
           RegisterTrade(s, p, side, coll, oi, asked)
    PROVE  IInv'
<1>1. TypeOK /\ groupOI \in [Sides -> Nat] /\ balance \in Balances
  BY DEF IInv, TypeOK
<1>2. /\ acc' \in [Pairs -> [Sides -> Nat]]
      /\ lastUpdateBlock' \in [Pairs -> 0 .. block]
      /\ \A q \in Pairs, d \in Sides : acc[q][d] <= acc'[q][d]
  BY <1>1, StoreGrows DEF RegisterTrade
<1>3. interest' \in [Pairs -> [Sides -> Nat]] /\ usdOI' \in [Sides -> Nat]
  BY <1>1, AddTypes DEF RegisterTrade
<1>4. groupOI' \in [Sides -> Nat]
  <2>1. groupOI[side] + oi \in Nat
    BY <1>1, SMT
  <2> QED
    BY <1>1, <2>1 DEF RegisterTrade
<1> DEFINE new == [pair |-> p, side |-> side, coll |-> coll, oi |-> oi,
                   start |-> acc'[p][side]]
<1>5. new \in Trades
  BY <1>2 DEF Trades
<1>6. trade' = [trade EXCEPT ![s] = new]
  BY DEF RegisterTrade
<1>7. trade' \in [Slots -> Trades \cup {NoTrade}]
  BY <1>1, <1>5, <1>6 DEF TypeOK
<1>8. TypeOK'
  <2>1. steps' \in 0 .. MaxSteps /\ feePerBlock' = feePerBlock /\ balance' = balance /\ block' = block
    BY <1>1, SMT DEF TypeOK, Step, RegisterTrade, RolloverAssumption
  <2> QED
    BY <1>1, <1>2, <1>3, <1>4, <1>7, <2>1 DEF TypeOK
<1>9. StartsBehind'
  <2>1. ASSUME NEW r \in Slots, IsTrade(r)'
        PROVE  \/ /\ IsTrade(r)
                  /\ trade'[r].pair = trade[r].pair /\ trade'[r].side = trade[r].side
                  /\ trade'[r].start = trade[r].start
               \/ trade'[r].start = acc'[trade'[r].pair][trade'[r].side]
    <3>1. CASE r = s
      <4>1. trade'[s] = new
        BY <1>1, <1>6 DEF TypeOK
      <4>2. new.pair = p /\ new.side = side /\ new.start = acc'[p][side]
        BY DEF new
      <4> QED
        BY <3>1, <4>1, <4>2
    <3>2. CASE r # s
      <4>1. trade'[r] = trade[r]
        BY <1>1, <1>6, <3>2 DEF TypeOK
      <4> QED
        BY <4>1, <2>1 DEF IsTrade
    <3> QED
      BY <3>1, <3>2
  <2> QED
    BY <1>2, <1>8, <2>1, StartsStayBehind
<1> QED
  BY <1>8, <1>9 DEF IInv

\* A closing frees the slot.
LEMMA CloseTradeKeeps ==
    ASSUME RolloverAssumption, IInv, Step, NEW s \in Slots, CloseTrade(s)
    PROVE  IInv'
<1> DEFINE t == trade[s]
<1>1. TypeOK /\ groupOI \in [Sides -> Nat] /\ balance \in Balances
  BY DEF IInv, TypeOK
<1>2. t.pair \in Pairs /\ t.side \in Sides /\ t.oi \in Nat
  BY <1>1, TradeFields DEF CloseTrade
<1>3. /\ acc' \in [Pairs -> [Sides -> Nat]]
      /\ lastUpdateBlock' \in [Pairs -> 0 .. block]
      /\ \A q \in Pairs, d \in Sides : acc[q][d] <= acc'[q][d]
  BY <1>1, <1>2, StoreGrows DEF CloseTrade
<1>4. interest' \in [Pairs -> [Sides -> Nat]] /\ usdOI' \in [Sides -> Nat]
  BY <1>1, <1>2, ReduceTypes DEF CloseTrade
<1>5. groupOI' \in [Sides -> Nat]
  BY <1>1, <1>2, GroupTypes DEF CloseTrade
<1>6. trade' = [trade EXCEPT ![s] = NoTrade]
  BY DEF CloseTrade
<1>7. TypeOK'
  <2>1. /\ steps' \in 0 .. MaxSteps /\ feePerBlock' = feePerBlock
        /\ balance' \in Balances /\ block' = block
    BY <1>1, SMT DEF TypeOK, Step, CloseTrade, Payout, RolloverAssumption
  <2>2. trade' \in [Slots -> Trades \cup {NoTrade}]
    BY <1>1, <1>6 DEF TypeOK
  <2> QED
    BY <1>1, <1>3, <1>4, <1>5, <2>1, <2>2 DEF TypeOK
<1>8. StartsBehind'
  <2>1. ASSUME NEW r \in Slots, IsTrade(r)'
        PROVE  IsTrade(r) /\ trade'[r] = trade[r]
    <3>1. r # s
      BY <1>1, <1>6, <2>1 DEF TypeOK, IsTrade
    <3>2. trade'[r] = trade[r]
      BY <1>1, <1>6, <3>1 DEF TypeOK
    <3> QED
      BY <3>2, <2>1 DEF IsTrade
  <2> QED
    BY <1>3, <1>7, <2>1, StartsStayBehind
<1> QED
  BY <1>7, <1>8 DEF IInv

\* A trade is the record of its fields.
LEMMA TradeIsItsFields ==
    ASSUME NEW t \in Trades
    PROVE  t = [pair |-> t.pair, side |-> t.side, coll |-> t.coll, oi |-> t.oi,
                start |-> t.start]
BY DEF Trades

\* Replacing collateral, open interest or start of a trade keeps its type.
LEMMA TradeReplaced ==
    ASSUME TypeOK, NEW s \in Slots, IsTrade(s), NEW coll \in Nat, NEW oi \in Nat,
           NEW start \in Nat,
           trade' = [trade EXCEPT ![s] = [pair |-> trade[s].pair, side |-> trade[s].side,
                                          coll |-> coll, oi |-> oi, start |-> start]]
    PROVE  /\ trade' \in [Slots -> Trades \cup {NoTrade}]
           /\ trade'[s].pair = trade[s].pair /\ trade'[s].side = trade[s].side
           /\ trade'[s].start = start
           /\ \A r \in Slots \ {s} : trade'[r] = trade[r]
<1> DEFINE new == [pair |-> trade[s].pair, side |-> trade[s].side,
                   coll |-> coll, oi |-> oi, start |-> start]
<1>1. new \in Trades
  BY TradeFields DEF Trades
<1>2. trade \in [Slots -> Trades \cup {NoTrade}] /\ trade' = [trade EXCEPT ![s] = new]
  BY DEF TypeOK
<1>3. new.pair = trade[s].pair /\ new.side = trade[s].side /\ new.start = start
  BY DEF new
<1> HIDE DEF new
<1> QED
  BY <1>1, <1>2, <1>3

\* A partial closing takes no more than the trade has, and keeps its start.
LEMMA ClosePartiallyKeeps ==
    ASSUME RolloverAssumption, IInv, Step, NEW s \in Slots, NEW amount \in Nat,
           NEW closingFee \in Nat, ClosePartially(s, amount, closingFee)
    PROVE  IInv'
<1> DEFINE t    == trade[s]
           paid == amount + RolloverFee(s, Leveraged(s, amount)) + closingFee
           left == t.coll - paid
           oi   == t.oi - Leveraged(s, paid)
<1>1. TypeOK /\ groupOI \in [Sides -> Nat] /\ balance \in Balances /\ IsTrade(s)
  BY DEF IInv, TypeOK, ClosePartially
<1>2. /\ t.pair \in Pairs /\ t.side \in Sides /\ t \in Trades
      /\ t.coll \in Nat /\ t.oi \in Nat /\ t.start \in Nat
  BY <1>1, TradeFields
<1>3. /\ acc' \in [Pairs -> [Sides -> Nat]]
      /\ lastUpdateBlock' \in [Pairs -> 0 .. block]
      /\ \A q \in Pairs, d \in Sides : acc[q][d] <= acc'[q][d]
  BY <1>1, <1>2, StoreGrows DEF ClosePartially
<1>4. Leveraged(s, amount) \in Nat
  BY <1>1, LeveragedIsNat
<1>5. RolloverFee(s, Leveraged(s, amount)) \in Nat
  <2>1. Defined(t.pair, groupOI, balance)
    BY DEF ClosePartially, StoreAccRolloverFees
  <2> QED
    BY <1>1, <1>4, <2>1, FeeIsNat
<1>6. paid \in Nat /\ paid <= t.coll
  BY <1>5, SMT DEF ClosePartially
<1>7. /\ trade' = [trade EXCEPT ![s] =
           [t EXCEPT !.coll = t.coll - paid, !.oi = t.oi - Leveraged(s, paid)]]
      /\ ReduceOpenInterest(t.pair, t.side, Leveraged(s, paid))
      /\ groupOI' = GroupLess(t.side, Leveraged(s, amount))
      /\ Payout /\ UNCHANGED <<feePerBlock, block>>
  BY DEF ClosePartially
<1> HIDE DEF paid
<1>8. Leveraged(s, paid) \in 0 .. t.oi
  BY <1>1, <1>6, LeveragedPart
<1>9. left \in Nat /\ oi \in Nat /\ Leveraged(s, paid) \in Nat
  BY <1>2, <1>6, <1>8, SMT
<1>10. interest' \in [Pairs -> [Sides -> Nat]] /\ usdOI' \in [Sides -> Nat]
  BY <1>1, <1>2, <1>7, <1>9, ReduceTypes
<1>11. groupOI' \in [Sides -> Nat]
  BY <1>1, <1>2, <1>4, <1>7, GroupTypes
<1>12. trade' = [trade EXCEPT ![s] = [pair |-> t.pair, side |-> t.side, coll |-> left,
                                      oi |-> oi, start |-> t.start]]
  <2> DEFINE new == [t EXCEPT !.coll = left, !.oi = oi]
  <2>1. trade' = [trade EXCEPT ![s] = new]
    BY <1>7 DEF left, oi
  <2>2. /\ new \in Trades
        /\ new.pair = t.pair /\ new.side = t.side /\ new.coll = left /\ new.oi = oi
        /\ new.start = t.start
    BY <1>2, <1>9 DEF Trades
  <2> HIDE DEF new
  <2> QED
    BY <2>1, <2>2, TradeIsItsFields
<1> HIDE DEF left, oi
<1>13. /\ trade' \in [Slots -> Trades \cup {NoTrade}]
       /\ trade'[s].pair = t.pair /\ trade'[s].side = t.side /\ trade'[s].start = t.start
       /\ \A r \in Slots \ {s} : trade'[r] = trade[r]
  BY <1>1, <1>2, <1>9, <1>12, TradeReplaced
<1>14. TypeOK'
  <2>1. steps' \in 0 .. MaxSteps /\ balance' \in Balances
    BY <1>1, <1>7, SMT DEF TypeOK, Step, Payout, RolloverAssumption
  <2> QED
    BY <1>1, <1>3, <1>7, <1>10, <1>11, <1>13, <2>1 DEF TypeOK
<1>15. StartsBehind'
  <2>1. ASSUME NEW r \in Slots, IsTrade(r)'
        PROVE  /\ IsTrade(r)
               /\ trade'[r].pair = trade[r].pair /\ trade'[r].side = trade[r].side
               /\ trade'[r].start = trade[r].start
    <3>1. CASE r = s
      BY <1>1, <1>13, <3>1
    <3>2. CASE r # s
      BY <1>13, <3>2, <2>1 DEF IsTrade
    <3> QED
      BY <3>1, <3>2
  <2> QED
    BY <1>3, <1>14, <2>1, StartsStayBehind
<1> QED
  BY <1>14, <1>15 DEF IInv

\* A margin update takes its new start from what it stores.
LEMMA UpdateMarginKeeps ==
    ASSUME RolloverAssumption, IInv, Step, NEW s \in Slots, NEW deposit \in BOOLEAN,
           NEW amount \in Nat, UpdateMargin(s, deposit, amount)
    PROVE  IInv'
<1> DEFINE t    == trade[s]
           fee  == RolloverFee(s, t.oi)
           coll == IF deposit THEN t.coll + amount - fee ELSE t.coll - amount - fee
<1>1. TypeOK /\ groupOI \in [Sides -> Nat] /\ balance \in Balances /\ IsTrade(s)
  BY DEF IInv, TypeOK, UpdateMargin
<1>2. /\ t.pair \in Pairs /\ t.side \in Sides /\ t \in Trades
      /\ t.coll \in Nat /\ t.oi \in Nat /\ t.start \in Nat
  BY <1>1, TradeFields
<1>3. fee \in Nat
  <2>1. Defined(t.pair, groupOI, balance)
    BY DEF UpdateMargin
  <2> QED
    BY <1>1, <1>2, <2>1, FeeIsNat
<1>4. Leveraged(s, fee) \in Nat
  BY <1>1, <1>3, LeveragedIsNat
<1>5. /\ coll > 0
      /\ IF deposit THEN balance' = balance ELSE Payout
      /\ groupOI' = GroupLess(t.side, Leveraged(s, fee))
      /\ StoreAccRolloverFees(t.pair, groupOI', balance')
      /\ trade' = [trade EXCEPT ![s] = [t EXCEPT !.coll = coll, !.start = acc'[t.pair][t.side]]]
      /\ UNCHANGED <<interest, usdOI, feePerBlock, block>>
  BY DEF UpdateMargin
<1> HIDE DEF fee
<1>6. coll \in Nat
  <2>1. coll \in Int
    BY <1>2, <1>3, SMT
  <2> HIDE DEF coll
  <2> QED
    BY <1>5, <2>1, SMT
<1> HIDE DEF coll
<1>7. groupOI' \in [Sides -> Nat] /\ balance' \in Balances
  <2>1. groupOI' \in [Sides -> Nat]
    BY <1>1, <1>2, <1>4, <1>5, GroupTypes
  <2> QED
    BY <1>1, <1>5, <2>1 DEF Payout
<1>8. /\ acc' \in [Pairs -> [Sides -> Nat]]
      /\ lastUpdateBlock' \in [Pairs -> 0 .. block]
      /\ \A q \in Pairs, d \in Sides : acc[q][d] <= acc'[q][d]
  BY <1>1, <1>2, <1>5, <1>7, StoreGrows
<1>9. acc'[t.pair][t.side] \in Nat
  BY <1>2, <1>8
<1>10. trade' = [trade EXCEPT ![s] = [pair |-> t.pair, side |-> t.side, coll |-> coll,
                                      oi |-> t.oi, start |-> acc'[t.pair][t.side]]]
  <2> DEFINE new == [t EXCEPT !.coll = coll, !.start = acc'[t.pair][t.side]]
  <2>1. trade' = [trade EXCEPT ![s] = new]
    BY <1>5
  <2>2. /\ new \in Trades
        /\ new.pair = t.pair /\ new.side = t.side /\ new.coll = coll /\ new.oi = t.oi
        /\ new.start = acc'[t.pair][t.side]
    BY <1>2, <1>6, <1>9 DEF Trades
  <2> HIDE DEF new
  <2> QED
    BY <2>1, <2>2, TradeIsItsFields
<1>11. /\ trade' \in [Slots -> Trades \cup {NoTrade}]
       /\ trade'[s].pair = t.pair /\ trade'[s].side = t.side
       /\ trade'[s].start = acc'[t.pair][t.side]
       /\ \A r \in Slots \ {s} : trade'[r] = trade[r]
  BY <1>1, <1>2, <1>6, <1>9, <1>10, TradeReplaced
<1>12. TypeOK'
  <2>1. steps' \in 0 .. MaxSteps
    BY <1>1, SMT DEF TypeOK, Step, RolloverAssumption
  <2> QED
    BY <1>1, <1>5, <1>7, <1>8, <1>11, <2>1 DEF TypeOK
<1>13. StartsBehind'
  <2>1. ASSUME NEW r \in Slots, IsTrade(r)'
        PROVE  \/ /\ IsTrade(r)
                  /\ trade'[r].pair = trade[r].pair /\ trade'[r].side = trade[r].side
                  /\ trade'[r].start = trade[r].start
               \/ trade'[r].start = acc'[trade'[r].pair][trade'[r].side]
    <3>1. CASE r = s
      BY <1>11, <3>1
    <3>2. CASE r # s
      BY <1>11, <3>2, <2>1 DEF IsTrade
    <3> QED
      BY <3>1, <3>2
  <2> QED
    BY <1>8, <1>12, <2>1, StartsStayBehind
<1> QED
  BY <1>12, <1>13 DEF IInv

\* The setter stores the accumulators at the old fee.
LEMMA SetRolloverFeePerBlockPKeeps ==
    ASSUME RolloverAssumption, IInv, Step, NEW p \in Pairs, NEW value \in BlockFees,
           SetRolloverFeePerBlockP(p, value)
    PROVE  IInv'
<1>1. TypeOK /\ groupOI \in [Sides -> Nat] /\ balance \in Balances
  BY DEF IInv, TypeOK
<1>2. /\ acc' \in [Pairs -> [Sides -> Nat]]
      /\ lastUpdateBlock' \in [Pairs -> 0 .. block]
      /\ \A q \in Pairs, d \in Sides : acc[q][d] <= acc'[q][d]
  BY <1>1, StoreGrows DEF SetRolloverFeePerBlockP
<1>3. TypeOK'
  <2>1. steps' \in 0 .. MaxSteps
    BY <1>1, SMT DEF TypeOK, Step, RolloverAssumption
  <2>2. feePerBlock' \in [Pairs -> BlockFees]
    BY <1>1 DEF TypeOK, SetRolloverFeePerBlockP
  <2> QED
    BY <1>1, <1>2, <2>1, <2>2 DEF TypeOK, SetRolloverFeePerBlockP
<1>4. \A r \in Slots : IsTrade(r)' => IsTrade(r) /\ trade'[r] = trade[r]
  BY DEF IsTrade, SetRolloverFeePerBlockP
<1>5. StartsBehind'
  BY <1>2, <1>3, <1>4, StartsStayBehind
<1> QED
  BY <1>3, <1>5 DEF IInv

\* The invariant is inductive.
THEOREM NextKeepsIInv ==
    ASSUME RolloverAssumption, IInv, [Next]_vars
    PROVE  IInv'
<1>1. CASE Step /\ \E s \in Slots : OnSlot(s)
  <2>1. PICK s \in Slots : OnSlot(s)
    BY <1>1
  <2>2. ASSUME NEW p \in Pairs, NEW side \in Sides, NEW coll \in Collaterals,
               NEW lev \in Leverages, NEW fee \in OpeningFees,
               RegisterTrade(s, p, side, coll, coll * lev, (coll + fee) * lev)
        PROVE  IInv'
    <3>1. coll \in Nat /\ coll * lev \in Nat /\ (coll + fee) * lev \in Nat
      <4>1. coll \in Nat /\ lev \in Nat /\ coll + fee \in Nat
        BY SMT DEF RolloverAssumption
      <4> QED
        BY <4>1, Product
    <3> QED
      BY <1>1, <2>2, <3>1, RegisterTradeKeeps
  <2>3. CASE CloseTrade(s)
    BY <1>1, <2>3, CloseTradeKeeps
  <2>4. ASSUME NEW amount \in CloseAmounts, NEW fee \in ClosingFees,
               ClosePartially(s, amount, fee)
        PROVE  IInv'
    <3>1. amount \in Nat /\ fee \in Nat
      BY DEF RolloverAssumption
    <3> QED
      BY <1>1, <2>4, <3>1, ClosePartiallyKeeps
  <2>5. ASSUME NEW deposit \in BOOLEAN, NEW amount \in Margins,
               UpdateMargin(s, deposit, amount)
        PROVE  IInv'
    <3>1. amount \in Nat
      BY DEF RolloverAssumption
    <3> QED
      BY <1>1, <2>5, <3>1, UpdateMarginKeeps
  <2> QED
    BY <2>1, <2>2, <2>3, <2>4, <2>5 DEF OnSlot
<1>2. CASE Step /\ \E p \in Pairs, value \in BlockFees : SetRolloverFeePerBlockP(p, value)
  BY <1>2, SetRolloverFeePerBlockPKeeps
<1>3. CASE BalanceMoves /\ UNCHANGED steps
  BY <1>3 DEF IInv, TypeOK, StartsBehind, IsTrade, BalanceMoves
<1>4. CASE NewBlock /\ UNCHANGED steps
  <2>1. TypeOK'
    <3>1. block \in 0 .. MaxBlock /\ lastUpdateBlock \in [Pairs -> 0 .. block]
      BY DEF IInv, TypeOK
    <3>2. block' \in 0 .. MaxBlock /\ (0 .. block) \subseteq (0 .. block')
      BY <1>4, <3>1, SMT DEF NewBlock, RolloverAssumption
    <3>3. lastUpdateBlock' \in [Pairs -> 0 .. block']
      BY <1>4, <3>1, <3>2 DEF NewBlock
    <3> QED
      BY <1>4, <3>2, <3>3 DEF IInv, TypeOK, NewBlock
  <2> QED
    BY <1>4, <2>1 DEF IInv, StartsBehind, IsTrade, NewBlock
<1>5. CASE UNCHANGED vars
  BY <1>5 DEF IInv, TypeOK, StartsBehind, IsTrade, vars
<1> QED
  BY <1>1, <1>2, <1>3, <1>4, <1>5 DEF Next

LEMMA InitIInv == ASSUME RolloverAssumption, Init PROVE IInv
<1>1. Zero \in [Sides -> Nat]
  BY DEF Zero
<1>2. 0 \in 0 .. MaxBlock /\ 0 \in 0 .. MaxSteps /\ 0 \in 0 .. 0
  BY SMT DEF RolloverAssumption
<1>3. TypeOK
  BY <1>1, <1>2 DEF Init, TypeOK
<1>4. StartsBehind
  BY DEF Init, StartsBehind, IsTrade
<1> QED
  BY <1>3, <1>4 DEF IInv

LEMMA IInvHolds == Spec => []IInv
<1>1. Init => IInv
  BY InitIInv, RolloverAssumption
<1>2. IInv /\ [Next]_vars => IInv'
  BY NextKeepsIInv, RolloverAssumption
<1> QED
  BY <1>1, <1>2, PTL DEF Spec

\* Every variable keeps its type in every instance.
THEOREM TypeCorrect == Spec => []TypeOK
<1>1. IInv => TypeOK
  BY DEF IInv
<1> QED
  BY <1>1, IInvHolds, PTL

\* No trade is ahead of its accumulator, whatever the terms, the balances and
\* the order of the transactions: rollover fees are never negative.
THEOREM StartsBehindCorrect == Spec => []StartsBehind
<1>1. IInv => StartsBehind
  BY DEF IInv
<1> QED
  BY <1>1, IInvHolds, PTL

-----------------------------------------------------------------------------
(* The dollar's open interest. *)

\* What the dollar has on a side, pair by pair.
DollarsOf(oi, u) == [p \in Pairs |-> oi[p][UsdSide(p, u)]]

LEMMA ExactMeans ==
    UsdOIExact <=> (IsForex => \A u \in Sides : usdOI[u] = SumFunction(DollarsOf(interest, u)))
BY DEF UsdOIExact, DollarsOf

\* The side of a side of the dollar is the side itself.
LEMMA SidesCorrespond ==
    ASSUME NEW p, NEW u \in Sides, NEW side \in Sides
    PROVE  UsdSide(p, UsdSide(p, u)) = u /\ (UsdSide(p, u) = side <=> u = UsdSide(p, side))
BY DEF Sides, UsdSide, Other

\* The open interest of one side of a pair moves, and that of the dollar on the
\* side it counts for moves by as much.
DollarFollows(p, side, d) ==
    /\ interest'[p][side] = interest[p][side] + d
    /\ \A q \in Pairs, s \in Sides : q # p \/ s # side => interest'[q][s] = interest[q][s]
    /\ IsForex => /\ usdOI'[UsdSide(p, side)] = usdOI[UsdSide(p, side)] + d
                  /\ \A u \in Sides : u # UsdSide(p, side) => usdOI'[u] = usdOI[u]

LEMMA FollowingKeepsExact ==
    ASSUME RolloverAssumption, TypeOK, TypeOK', UsdOIExact,
           NEW p \in Pairs, NEW side \in Sides, NEW d \in Int, DollarFollows(p, side, d)
    PROVE  UsdOIExact'
<1> SUFFICES ASSUME IsForex, NEW u \in Sides
             PROVE  usdOI'[u] = SumFunction(DollarsOf(interest', u))
  BY DEF UsdOIExact, DollarsOf
<1> DEFINE f == DollarsOf(interest, u)
           h == DollarsOf(interest', u)
           v == UsdSide(p, u)
<1>1. \A q \in Pairs : UsdSide(q, u) \in Sides
  BY SideTypes
<1>2. f \in [Pairs -> Nat] /\ h \in [Pairs -> Nat]
  BY <1>1 DEF TypeOK, DollarsOf
<1>3. \A q \in Pairs \ {p} : h[q] = f[q]
  BY <1>1 DEF DollarsOf, DollarFollows
<1>4. f[p] = interest[p][v] /\ h[p] = interest'[p][v] /\ v \in Sides
  BY <1>1 DEF DollarsOf
<1>5. usdOI[u] = SumFunction(f) /\ usdOI[u] \in Nat
  BY ExactMeans DEF TypeOK
<1>6. f[p] \in Nat /\ h[p] \in Nat
  BY <1>2
<1>7. SumFunction(h) = SumFunction(f) - f[p] + h[p]
  <2>1. IsFiniteSet(Pairs)
    BY DEF RolloverAssumption
  <2> HIDE DEF f, h
  <2> QED
    BY <1>2, <1>3, <2>1, SumChanges
<1>8. v = side <=> u = UsdSide(p, side)
  BY SidesCorrespond
<1>9. CASE v = side
  <2>1. h[p] = f[p] + d /\ usdOI'[u] = usdOI[u] + d
    BY <1>4, <1>8, <1>9 DEF DollarFollows
  <2> HIDE DEF f, h
  <2>2. usdOI'[u] = SumFunction(h)
    BY <1>5, <1>6, <1>7, <2>1, SMT
  <2> QED
    BY <2>2 DEF h
<1>10. CASE v # side
  <2>1. h[p] = f[p] /\ usdOI'[u] = usdOI[u]
    BY <1>4, <1>8, <1>10 DEF DollarFollows
  <2> HIDE DEF f, h
  <2>2. usdOI'[u] = SumFunction(h)
    BY <1>5, <1>6, <1>7, <2>1, SMT
  <2> QED
    BY <2>2 DEF h
<1> QED
  BY <1>9, <1>10

\* It follows what an opening adds,
LEMMA AddFollows ==
    ASSUME TypeOK, NEW p \in Pairs, NEW side \in Sides, NEW n \in Nat,
           AddOpenInterest(p, side, n)
    PROVE  DollarFollows(p, side, n)
<1>1. interest \in [Pairs -> [Sides -> Nat]] /\ usdOI \in [Sides -> Nat]
  BY DEF TypeOK
<1>2. UsdSide(p, side) \in Sides
  BY SideTypes
<1>3. /\ interest' = [interest EXCEPT ![p][side] = @ + n]
      /\ IsForex => usdOI' = [usdOI EXCEPT ![UsdSide(p, side)] = @ + n]
  BY DEF AddOpenInterest
<1> QED
  BY <1>1, <1>2, <1>3 DEF DollarFollows

\* and what is left of a closing that takes no more than the pair has.
LEMMA ReduceFollows ==
    ASSUME TypeOK, NEW p \in Pairs, NEW side \in Sides, NEW n \in Nat,
           ReduceOpenInterest(p, side, n)
    PROVE  \E d \in Int : DollarFollows(p, side, d)
<1> DEFINE dust == IF n > interest[p][side] THEN interest[p][side] ELSE n
<1>1. interest \in [Pairs -> [Sides -> Nat]] /\ usdOI \in [Sides -> Nat]
  BY DEF TypeOK
<1>2. UsdSide(p, side) \in Sides
  BY SideTypes
<1>3. dust \in Nat /\ interest[p][side] \in Nat /\ usdOI[UsdSide(p, side)] \in Nat
  BY <1>1, <1>2
<1>4. /\ interest' = [interest EXCEPT ![p][side] = @ - dust]
      /\ IsForex => usdOI' = [usdOI EXCEPT ![UsdSide(p, side)] = @ - dust]
  BY DEF ReduceOpenInterest
<1> HIDE DEF dust
<1>5. /\ interest'[p][side] = interest[p][side] - dust
      /\ \A q \in Pairs, s \in Sides : q # p \/ s # side => interest'[q][s] = interest[q][s]
      /\ IsForex => /\ usdOI'[UsdSide(p, side)] = usdOI[UsdSide(p, side)] - dust
                    /\ \A u \in Sides : u # UsdSide(p, side) => usdOI'[u] = usdOI[u]
  BY <1>1, <1>2, <1>4
<1>6. -dust \in Int /\ interest[p][side] - dust = interest[p][side] + (-dust)
      /\ usdOI[UsdSide(p, side)] - dust = usdOI[UsdSide(p, side)] + (-dust)
  BY <1>3, SMT
<1>7. DollarFollows(p, side, -dust)
  BY <1>5, <1>6 DEF DollarFollows
<1> QED
  BY <1>6, <1>7

\* No other step touches either.
LEMMA DollarsMoveTogether ==
    ASSUME RolloverAssumption, IInv, [Next]_vars
    PROVE  \/ UNCHANGED <<interest, usdOI>>
           \/ \E p \in Pairs, side \in Sides, d \in Int : DollarFollows(p, side, d)
<1>1. TypeOK
  BY DEF IInv
<1>2. CASE Step /\ \E s \in Slots : OnSlot(s)
  <2>1. PICK s \in Slots : OnSlot(s)
    BY <1>2
  <2>2. ASSUME NEW p \in Pairs, NEW side \in Sides, NEW coll \in Collaterals,
               NEW lev \in Leverages, NEW fee \in OpeningFees,
               RegisterTrade(s, p, side, coll, coll * lev, (coll + fee) * lev)
        PROVE  \E d \in Int : DollarFollows(p, side, d)
    <3>1. coll * lev \in Nat /\ coll * lev \in Int
      BY SMT DEF RolloverAssumption
    <3>2. AddOpenInterest(p, side, coll * lev)
      BY <2>2 DEF RegisterTrade
    <3> QED
      BY <1>1, <3>1, <3>2, AddFollows
  <2>3. ASSUME CloseTrade(s)
        PROVE  \E p \in Pairs, side \in Sides, d \in Int : DollarFollows(p, side, d)
    <3>1. IsTrade(s) /\ ReduceOpenInterest(trade[s].pair, trade[s].side, trade[s].oi)
      BY <2>3 DEF CloseTrade
    <3> QED
      BY <1>1, <3>1, TradeFields, ReduceFollows
  <2>4. ASSUME NEW amount \in CloseAmounts, NEW fee \in ClosingFees,
               ClosePartially(s, amount, fee)
        PROVE  \E p \in Pairs, side \in Sides, d \in Int : DollarFollows(p, side, d)
    <3> DEFINE paid == amount + RolloverFee(s, Leveraged(s, amount)) + fee
    <3>1. /\ IsTrade(s) /\ Defined(trade[s].pair, groupOI, balance)
          /\ ReduceOpenInterest(trade[s].pair, trade[s].side, Leveraged(s, paid))
      BY <2>4 DEF ClosePartially, StoreAccRolloverFees
    <3>2. amount \in Nat /\ fee \in Nat
      BY DEF RolloverAssumption
    <3>3. RolloverFee(s, Leveraged(s, amount)) \in Nat
      BY <1>1, <3>1, <3>2, LeveragedIsNat, FeeIsNat
    <3>4. paid \in Nat
      BY <3>2, <3>3, SMT
    <3> HIDE DEF paid
    <3>5. Leveraged(s, paid) \in Nat
      BY <1>1, <3>1, <3>4, LeveragedIsNat
    <3> QED
      BY <1>1, <3>1, <3>5, TradeFields, ReduceFollows
  <2>5. ASSUME NEW deposit \in BOOLEAN, NEW amount \in Margins,
               UpdateMargin(s, deposit, amount)
        PROVE  UNCHANGED <<interest, usdOI>>
    BY <2>5 DEF UpdateMargin
  <2> QED
    BY <2>1, <2>2, <2>3, <2>4, <2>5 DEF OnSlot
<1>3. CASE Step /\ \E p \in Pairs, value \in BlockFees : SetRolloverFeePerBlockP(p, value)
  BY <1>3 DEF SetRolloverFeePerBlockP
<1>4. CASE BalanceMoves /\ UNCHANGED steps
  BY <1>4 DEF BalanceMoves
<1>5. CASE NewBlock /\ UNCHANGED steps
  BY <1>5 DEF NewBlock
<1>6. CASE UNCHANGED vars
  BY <1>6 DEF vars
<1> QED
  BY <1>2, <1>3, <1>4, <1>5, <1>6 DEF Next

\* The dollar's open interest is that of the pairs, whatever pairs there are
\* and on whichever side of the dollar they count: the subtraction of
\* TradingStorage.sol:892-894 never underflows.
THEOREM UsdOIExactAlways == Spec => []UsdOIExact
<1>1. Init => UsdOIExact
  <2>1. ASSUME Init, NEW u \in Sides
        PROVE  usdOI[u] = SumFunction(DollarsOf(interest, u))
    <3>1. IsFiniteSet(Pairs) /\ \A q \in Pairs : UsdSide(q, u) \in Sides
      BY RolloverAssumption, SideTypes DEF RolloverAssumption
    <3>2. /\ DollarsOf(interest, u) \in [Pairs -> Nat]
          /\ \A q \in Pairs : DollarsOf(interest, u)[q] = 0
      BY <2>1, <3>1 DEF Init, Zero, DollarsOf
    <3>3. SumFunction(DollarsOf(interest, u)) = 0
      BY <3>1, <3>2, SumOfNothing
    <3> QED
      BY <2>1, <3>3 DEF Init, Zero
  <2> QED
    BY <2>1, ExactMeans
<1>2. ASSUME IInv, IInv', UsdOIExact, [Next]_vars PROVE UsdOIExact'
  <2>1. TypeOK /\ TypeOK'
    BY <1>2 DEF IInv
  <2>2. CASE UNCHANGED <<interest, usdOI>>
    BY <1>2, <2>2 DEF UsdOIExact
  <2>3. ASSUME NEW p \in Pairs, NEW side \in Sides, NEW d \in Int, DollarFollows(p, side, d)
        PROVE  UsdOIExact'
    BY <1>2, <2>1, <2>3, FollowingKeepsExact, RolloverAssumption
  <2> QED
    BY <1>2, <2>2, <2>3, DollarsMoveTogether, RolloverAssumption
<1> QED
  BY <1>1, <1>2, IInvHolds, PTL DEF Spec

-----------------------------------------------------------------------------
(* What a transaction reprices. *)

\* A step books the blocks of a pair at the old terms when it changes them.
Books(p) ==
    interest'[p] # interest[p] \/ feePerBlock'[p] # feePerBlock[p] =>
      /\ lastUpdateBlock'[p] = block
      /\ \A side \in Sides : acc'[p][side] = PendingAcc(p, side, groupOI, balance)

\* Storing the accumulators of one pair books its blocks.
LEMMA StoreBooks ==
    ASSUME TypeOK, NEW q \in Pairs, StoreAccRolloverFees(q, groupOI, balance)
    PROVE  /\ lastUpdateBlock'[q] = block
           /\ \A side \in Sides : acc'[q][side] = PendingAcc(q, side, groupOI, balance)
BY DEF TypeOK, StoreAccRolloverFees

\* A transaction that stores a pair's accumulators and changes the terms of no
\* other pair books what it reprices.
LEMMA OnePairBooks ==
    ASSUME TypeOK, NEW q \in Pairs, StoreAccRolloverFees(q, groupOI, balance),
           \A p \in Pairs \ {q} : interest'[p] = interest[p] /\ feePerBlock'[p] = feePerBlock[p]
    PROVE  \A p \in Pairs : Books(p)
<1> SUFFICES ASSUME NEW p \in Pairs PROVE Books(p)
  OBVIOUS
<1>1. CASE p = q
  BY <1>1, StoreBooks DEF Books
<1>2. CASE p # q
  BY <1>2 DEF Books
<1> QED
  BY <1>1, <1>2

\* Every step of every instance books what it reprices.
LEMMA NextBooks ==
    ASSUME RolloverAssumption, IInv, [Next]_vars
    PROVE  \A p \in Pairs : Books(p)
<1>1. TypeOK
  BY DEF IInv
<1>2. CASE \E s \in Slots : OnSlot(s)
  <2>1. PICK s \in Slots : OnSlot(s)
    BY <1>2
  <2>2. ASSUME NEW q \in Pairs, NEW side \in Sides, NEW coll \in Collaterals,
               NEW lev \in Leverages, NEW fee \in OpeningFees,
               RegisterTrade(s, q, side, coll, coll * lev, (coll + fee) * lev)
        PROVE  \A p \in Pairs : Books(p)
    <3>1. \A p \in Pairs \ {q} : interest'[p] = interest[p] /\ feePerBlock'[p] = feePerBlock[p]
      BY <1>1, <2>2 DEF TypeOK, RegisterTrade, AddOpenInterest
    <3> QED
      BY <1>1, <2>2, <3>1, OnePairBooks DEF RegisterTrade
  <2>3. CASE CloseTrade(s)
    <3>1. trade[s].pair \in Pairs
      BY <1>1, <2>3, TradeFields DEF CloseTrade
    <3>2. \A p \in Pairs \ {trade[s].pair} :
            interest'[p] = interest[p] /\ feePerBlock'[p] = feePerBlock[p]
      BY <1>1, <2>3 DEF TypeOK, CloseTrade, ReduceOpenInterest
    <3> QED
      BY <1>1, <2>3, <3>1, <3>2, OnePairBooks DEF CloseTrade
  <2>4. ASSUME NEW amount \in CloseAmounts, NEW fee \in ClosingFees,
               ClosePartially(s, amount, fee)
        PROVE  \A p \in Pairs : Books(p)
    <3>1. trade[s].pair \in Pairs
      BY <1>1, <2>4, TradeFields DEF ClosePartially
    <3>2. \A p \in Pairs \ {trade[s].pair} :
            interest'[p] = interest[p] /\ feePerBlock'[p] = feePerBlock[p]
      BY <1>1, <2>4 DEF TypeOK, ClosePartially, ReduceOpenInterest
    <3> QED
      BY <1>1, <2>4, <3>1, <3>2, OnePairBooks DEF ClosePartially
  <2>5. ASSUME NEW deposit \in BOOLEAN, NEW amount \in Margins,
               UpdateMargin(s, deposit, amount)
        PROVE  \A p \in Pairs : Books(p)
    BY <2>5 DEF UpdateMargin, Books
  <2> QED
    BY <2>1, <2>2, <2>3, <2>4, <2>5 DEF OnSlot
<1>3. ASSUME NEW q \in Pairs, NEW value \in BlockFees, SetRolloverFeePerBlockP(q, value)
      PROVE  \A p \in Pairs : Books(p)
  <2>1. \A p \in Pairs \ {q} : interest'[p] = interest[p] /\ feePerBlock'[p] = feePerBlock[p]
    BY <1>1, <1>3 DEF TypeOK, SetRolloverFeePerBlockP
  <2> QED
    BY <1>1, <1>3, <2>1, OnePairBooks DEF SetRolloverFeePerBlockP
<1>4. CASE BalanceMoves \/ NewBlock \/ UNCHANGED vars
  BY <1>4 DEF Books, BalanceMoves, NewBlock, vars
<1> QED
  BY <1>2, <1>3, <1>4 DEF Next

\* No transaction that changes a pair's open interest or fee reprices the
\* blocks its trades have already been open for.
THEOREM PastBlocksKeepTheirPriceAlways == Spec => PastBlocksKeepTheirPrice
<1>1. IInv /\ [Next]_vars => [\A p \in Pairs : Books(p)]_vars
  BY NextBooks, RolloverAssumption
<1>2. Spec => [][\A p \in Pairs : Books(p)]_vars
  BY <1>1, IInvHolds, PTL DEF Spec
<1> QED
  BY <1>2 DEF PastBlocksKeepTheirPrice, Books

-----------------------------------------------------------------------------
(* More load, more fees. *)

\* A product grows with its factor.
LEMMA ProductGrows ==
    ASSUME NEW a \in Nat, NEW b \in Nat, NEW c \in Nat, a <= b
    PROVE  a * c \in Nat /\ b * c \in Nat /\ a * c <= b * c
BY SMT

\* A common factor can be taken out of a strict inequality.
LEMMA CancelFactor ==
    ASSUME NEW a \in Nat, NEW b \in Nat, NEW c \in Nat, a * c < b * c
    PROVE  a < b
<1>1. SUFFICES ASSUME b <= a PROVE FALSE
  BY SMT
<1>2. b * c <= a * c
  BY <1>1, ProductGrows
<1> QED
  BY <1>2, SMT

\* A quotient grows with what is divided and falls with what it is divided by.
LEMMA QuotientGrows ==
    ASSUME NEW x \in Nat, NEW y \in Nat, x <= y, NEW m \in Nat \ {0}, NEW n \in Nat \ {0}, n <= m
    PROVE  x \div m <= y \div n
<1> DEFINE q == x \div m
           r == y \div n
<1>1. q \in Nat /\ q * m <= x /\ r \in Nat /\ y < (r + 1) * n
  BY SMT
<1> HIDE DEF q, r
<1>2. n * q \in Nat /\ m * q \in Nat /\ n * q <= m * q
  BY <1>1, ProductGrows
<1>3. q * n = n * q /\ q * m = m * q
  BY <1>1, SMT
<1>4. q * n < (r + 1) * n
  BY <1>1, <1>2, <1>3, SMT
<1>5. q < r + 1
  BY <1>1, <1>4, CancelFactor
<1> QED
  BY <1>1, <1>5, SMT DEF q, r

\* The multiplier grows with the load, below the point where it is undefined.
LEMMA MultiplierGrows ==
    ASSUME RolloverAssumption, NEW k \in Nat, NEW l \in Nat, k <= l, l < Precision * 100
    PROVE  Multiplier(k) \in Nat /\ Multiplier(l) \in Nat /\ Multiplier(k) <= Multiplier(l)
<1>1. Precision \in Nat
  BY DEF RolloverAssumption
<1>2. k * Precision \in Nat /\ l * Precision \in Nat /\ k * Precision <= l * Precision
  BY <1>1, ProductGrows
<1>3. Precision * k = k * Precision /\ Precision * l = l * Precision
  BY <1>1, SMT
<1>4. /\ Precision * 100 - k \in Nat \ {0} /\ Precision * 100 - l \in Nat \ {0}
      /\ Precision * 100 - l <= Precision * 100 - k
  BY <1>1, SMT
<1>5. /\ (Precision * k) \div (Precision * 100 - k) \in Nat
      /\ (Precision * l) \div (Precision * 100 - l) \in Nat
      /\ (Precision * k) \div (Precision * 100 - k) <= (Precision * l) \div (Precision * 100 - l)
  BY <1>2, <1>3, <1>4, Quotient, QuotientGrows
<1> QED
  BY <1>5 DEF Multiplier

\* What blocks cost grows with the multiplier.
LEMMA CostGrows ==
    ASSUME RolloverAssumption, NEW k \in Nat, NEW l \in Nat, k <= l,
           NEW n \in Nat, NEW fee \in Nat
    PROVE  /\ (k * n * fee) \div Precision \in Nat /\ (l * n * fee) \div Precision \in Nat
           /\ (k * n * fee) \div Precision <= (l * n * fee) \div Precision
<1>1. k * n \in Nat /\ l * n \in Nat /\ k * n <= l * n
  BY ProductGrows
<1>2. k * n * fee \in Nat /\ l * n * fee \in Nat /\ k * n * fee <= l * n * fee
  BY <1>1, ProductGrows
<1>3. Precision \in Nat \ {0} /\ Precision <= Precision
  BY SMT DEF RolloverAssumption
<1> QED
  BY <1>2, <1>3, Quotient, QuotientGrows

\* A blend of two numbers grows with them.
LEMMA BlendGrows ==
    ASSUME NEW x \in Nat, NEW y \in Nat, NEW u \in Nat, NEW v \in Nat, x <= u, y <= v
    PROVE  /\ (75 * x + 25 * y) \div 100 \in Nat
           /\ (75 * x + 25 * y) \div 100 <= (75 * u + 25 * v) \div 100
BY SMT

\* Utilization grows with the group's open interest.
LEMMA UtilizationGrows ==
    ASSUME RolloverAssumption, TypeOK, NEW p \in Pairs,
           NEW g \in [Sides -> Nat], NEW h \in [Sides -> Nat], NEW b \in Balances,
           Both(g) <= Both(h), Defined(p, g, b), interest[p]["long"] > 0
    PROVE  BlendedUtilizationRatio(p, g, b) <= BlendedUtilizationRatio(p, h, b)
<1> DEFINE x == (Both(g) * Precision) \div GroupMaxOI(b)
           u == (Both(h) * Precision) \div GroupMaxOI(b)
           y == (Both(interest[p]) * Precision) \div PairMaxOI(p, b)
<1>1. /\ interest[p] \in [Sides -> Nat] /\ "long" \in Sides /\ "short" \in Sides
      /\ Precision \in Nat
  BY DEF TypeOK, Sides, RolloverAssumption
<1>2. Both(interest[p]) \in Nat /\ Both(g) \in Nat /\ Both(h) \in Nat
  BY <1>1, SMT DEF Both
<1>3. GroupMaxOI(b) \in Nat \ {0} /\ PairMaxOI(p, b) \in Nat \ {0}
  BY LimitsArePositive
<1>4. x \in Nat /\ u \in Nat /\ y \in Nat /\ x <= u
  <2>1. /\ Both(g) * Precision \in Nat /\ Both(h) * Precision \in Nat
        /\ Both(g) * Precision <= Both(h) * Precision
    BY <1>1, <1>2, ProductGrows
  <2>2. Both(interest[p]) * Precision \in Nat /\ GroupMaxOI(b) <= GroupMaxOI(b)
    BY <1>1, <1>2, <1>3, Product, SMT
  <2> QED
    BY <1>3, <2>1, <2>2, Quotient, QuotientGrows
<1>5. /\ BlendedUtilizationRatio(p, g, b) = (75 * x + 25 * y) \div 100
      /\ BlendedUtilizationRatio(p, h, b) = (75 * u + 25 * y) \div 100
  BY DEF BlendedUtilizationRatio
<1> HIDE DEF x, u, y
<1>6. y <= y
  BY <1>4, SMT
<1> QED
  BY <1>4, <1>5, <1>6, BlendGrows

\* Less open interest of the group costs a pair no more.
LEMMA LessGroupCostsLess ==
    ASSUME RolloverAssumption, TypeOK, NEW p \in Pairs, NEW side \in Sides,
           NEW g \in [Sides -> Nat], NEW h \in [Sides -> Nat], NEW b \in Balances,
           Both(g) <= Both(h), Defined(p, g, b), Defined(p, h, b)
    PROVE  PendingAcc(p, side, g, b) <= PendingAcc(p, side, h, b)
<1> DEFINE n == block - lastUpdateBlock[p]
           k == Load(p, side, g, b)
           l == Load(p, side, h, b)
<1>1. /\ interest[p] \in [Sides -> Nat] /\ "long" \in Sides /\ "short" \in Sides
      /\ acc[p][side] \in Nat /\ feePerBlock[p] \in Nat
  <2>1. interest[p] \in [Sides -> Nat] /\ acc[p][side] \in Nat
    BY DEF TypeOK
  <2>2. feePerBlock[p] \in Nat
    BY DEF TypeOK, RolloverAssumption
  <2> QED
    BY <2>1, <2>2 DEF Sides
<1>2. n \in Nat
  BY SMT DEF TypeOK
<1>3. Accrued(p, side, n, g, b) \in Nat /\ Accrued(p, side, n, h, b) \in Nat
      /\ Accrued(p, side, n, g, b) <= Accrued(p, side, n, h, b)
  <2>1. CASE interest[p][side] = 0
    BY <2>1, SMT DEF Accrued
  <2>2. CASE interest[p][side] # 0
    <3>1. interest[p][side] > 0
      BY <1>1, <2>2, SMT
    <3>2. k \in Nat /\ l \in Nat /\ l < Precision * 100
      BY <3>1, LoadInRange
    <3>3. k <= l
      <4>1. CASE interest[p]["long"] = 0
        BY <4>1, SMT DEF Load
      <4>2. CASE interest[p]["long"] # 0
        <5>1. interest[p]["long"] > 0 /\ Both(interest[p]) > 0
          BY <1>1, <4>2, SMT DEF Both
        <5>2. BlendedUtilizationRatio(p, g, b) <= BlendedUtilizationRatio(p, h, b)
          BY <5>1, UtilizationGrows
        <5>3. /\ BlendedUtilizationRatio(p, g, b) \in Nat
              /\ BlendedUtilizationRatio(p, h, b) \in Nat
          BY <5>1, UtilizationIsNat
        <5>4. BlendedSkew(p, side) \in Nat
          BY <3>1, <5>1, SkewIsNat DEF Defined
        <5> QED
          BY <4>2, <5>2, <5>3, <5>4, ProductGrows DEF Load
      <4> QED
        BY <4>1, <4>2
    <3> HIDE DEF k, l, n
    <3>4. Multiplier(k) \in Nat /\ Multiplier(l) \in Nat /\ Multiplier(k) <= Multiplier(l)
      BY <3>2, <3>3, MultiplierGrows
    <3>5. /\ Accrued(p, side, n, g, b) = (Multiplier(k) * n * feePerBlock[p]) \div Precision
          /\ Accrued(p, side, n, h, b) = (Multiplier(l) * n * feePerBlock[p]) \div Precision
      BY <2>2 DEF Accrued, k, l
    <3>6. n \in Nat
      BY <1>2 DEF n
    <3> DEFINE mk == Multiplier(k)
               ml == Multiplier(l)
    <3> HIDE DEF mk, ml
    <3>7. /\ (mk * n * feePerBlock[p]) \div Precision \in Nat
          /\ (ml * n * feePerBlock[p]) \div Precision \in Nat
          /\ (mk * n * feePerBlock[p]) \div Precision <= (ml * n * feePerBlock[p]) \div Precision
      BY <1>1, <3>4, <3>6, CostGrows DEF mk, ml
    <3> QED
      BY <3>5, <3>7 DEF mk, ml
  <2> QED
    BY <2>1, <2>2
<1>4. /\ PendingAcc(p, side, g, b) = acc[p][side] + Accrued(p, side, n, g, b)
      /\ PendingAcc(p, side, h, b) = acc[p][side] + Accrued(p, side, n, h, b)
  BY DEF PendingAcc
<1> HIDE DEF n
<1> QED
  BY <1>1, <1>3, <1>4, SMT

\* Taking open interest from the group leaves no more of it.
LEMMA GroupFalls ==
    ASSUME TypeOK, NEW side \in Sides, NEW n \in Nat
    PROVE  Both(GroupLess(side, n)) <= Both(groupOI)
<1>1. groupOI \in [Sides -> Nat] /\ "long" \in Sides /\ "short" \in Sides
  BY DEF TypeOK, Sides
<1>2. Less(groupOI[side], n) \in Nat /\ Less(groupOI[side], n) <= groupOI[side]
  BY <1>1, SMT DEF Less
<1>3. CASE side = "long"
  BY <1>1, <1>2, <1>3, SMT DEF GroupLess, Both
<1>4. CASE side = "short"
  BY <1>1, <1>2, <1>4, SMT DEF GroupLess, Both
<1> QED
  BY <1>3, <1>4 DEF Sides

\* A trade restarts from what its pair would have stored before the update, or
\* from less.
LEMMA UpdateMarginForgivesNothing ==
    ASSUME RolloverAssumption, IInv, NEW s \in Slots, NEW deposit \in BOOLEAN,
           NEW amount \in Nat, UpdateMargin(s, deposit, amount), balance' = balance
    PROVE  trade'[s].start <= PendingAcc(trade[s].pair, trade[s].side, groupOI, balance)
<1> DEFINE t   == trade[s]
           fee == RolloverFee(s, t.oi)
<1>1. TypeOK /\ groupOI \in [Sides -> Nat] /\ balance \in Balances /\ IsTrade(s)
  BY DEF IInv, TypeOK, UpdateMargin
<1>2. t.pair \in Pairs /\ t.side \in Sides /\ t \in Trades /\ t.oi \in Nat
  BY <1>1, TradeFields
<1>3. Defined(t.pair, groupOI, balance)
  BY DEF UpdateMargin
<1>4. Leveraged(s, fee) \in Nat
  <2>1. fee \in Nat
    BY <1>1, <1>2, <1>3, FeeIsNat
  <2> QED
    BY <1>1, <2>1, LeveragedIsNat
<1>5. groupOI' = GroupLess(t.side, Leveraged(s, fee))
  BY DEF UpdateMargin
<1>6. groupOI' \in [Sides -> Nat] /\ Both(groupOI') <= Both(groupOI)
  BY <1>1, <1>2, <1>4, <1>5, GroupTypes, GroupFalls
<1>7. Defined(t.pair, groupOI', balance)
      /\ acc'[t.pair][t.side] = PendingAcc(t.pair, t.side, groupOI', balance)
  <2>1. StoreAccRolloverFees(t.pair, groupOI', balance)
    BY DEF UpdateMargin
  <2> QED
    BY <1>1, <1>2, <2>1 DEF StoreAccRolloverFees, TypeOK
<1>8. trade'[s].start = acc'[t.pair][t.side]
  <2> DEFINE coll == IF deposit THEN t.coll + amount - fee ELSE t.coll - amount - fee
  <2>1. trade' = [trade EXCEPT ![s] = [t EXCEPT !.coll = coll, !.start = acc'[t.pair][t.side]]]
    BY DEF UpdateMargin
  <2>2. trade'[s] = [t EXCEPT !.coll = coll, !.start = acc'[t.pair][t.side]]
    BY <1>1, <2>1 DEF TypeOK
  <2> HIDE DEF coll
  <2> QED
    BY <1>2, <2>2 DEF Trades
<1>9. PendingAcc(t.pair, t.side, groupOI', balance) <= PendingAcc(t.pair, t.side, groupOI, balance)
  BY <1>1, <1>2, <1>3, <1>6, <1>7, LessGroupCostsLess
<1> QED
  BY <1>7, <1>8, <1>9

\* MarginUpdateForgivesNothing, of one slot.
KeepsCharge(s) ==
    LET t == trade[s] IN
    IsTrade(s) /\ IsTrade(s)' /\ trade'[s].start # t.start /\ balance' = balance =>
      trade'[s].start <= PendingAcc(t.pair, t.side, groupOI, balance)

LEMMA NextForgivesNothing ==
    ASSUME RolloverAssumption, IInv, [Next]_vars, NEW s \in Slots
    PROVE  KeepsCharge(s)
<1> SUFFICES ASSUME ~KeepsCharge(s) PROVE FALSE
  OBVIOUS
<1>1. TypeOK /\ IsTrade(s) /\ trade'[s] # NoTrade /\ trade'[s].start # trade[s].start
      /\ trade \in [Slots -> Trades \cup {NoTrade}]
  BY DEF IInv, TypeOK, KeepsCharge, IsTrade
<1>2. trade[s] \in Trades
  BY <1>1, TradeFields
<1>3. ASSUME NEW r \in Slots, OnSlot(r) PROVE FALSE
  <2>1. ASSUME NEW q \in Pairs, NEW side \in Sides, NEW coll \in Collaterals,
               NEW lev \in Leverages, NEW fee \in OpeningFees,
               RegisterTrade(r, q, side, coll, coll * lev, (coll + fee) * lev)
        PROVE  FALSE
    <3>1. r # s
      BY <1>1, <2>1 DEF RegisterTrade
    <3>2. trade'[s] = trade[s]
      BY <1>1, <2>1, <3>1 DEF RegisterTrade
    <3> QED
      BY <1>1, <3>2
  <2>2. CASE CloseTrade(r)
    BY <1>1, <2>2 DEF CloseTrade
  <2>3. ASSUME NEW amount \in CloseAmounts, NEW fee \in ClosingFees,
               ClosePartially(r, amount, fee)
        PROVE  FALSE
    <3> DEFINE paid == amount + RolloverFee(r, Leveraged(r, amount)) + fee
               left == trade[r].coll - paid
               oi   == trade[r].oi - Leveraged(r, paid)
    <3>1. trade' = [trade EXCEPT ![r] = [trade[r] EXCEPT !.coll = left, !.oi = oi]]
      BY <2>3 DEF ClosePartially
    <3> HIDE DEF left, oi
    <3>2. CASE r = s
      <4>1. trade'[s] = [trade[s] EXCEPT !.coll = left, !.oi = oi]
        BY <1>1, <3>1, <3>2
      <4>2. trade'[s].start = trade[s].start
        BY <1>2, <4>1 DEF Trades
      <4> QED
        BY <1>1, <4>2
    <3>3. CASE r # s
      BY <1>1, <3>1, <3>3
    <3> QED
      BY <3>2, <3>3
  <2>4. ASSUME NEW deposit \in BOOLEAN, NEW amount \in Margins, UpdateMargin(r, deposit, amount)
        PROVE  FALSE
    <3>1. CASE r = s
      <4>1. amount \in Nat
        BY DEF RolloverAssumption
      <4>2. trade'[s].start <= PendingAcc(trade[s].pair, trade[s].side, groupOI, balance)
        BY <2>4, <3>1, <4>1, UpdateMarginForgivesNothing DEF KeepsCharge
      <4> QED
        BY <4>2 DEF KeepsCharge
    <3>2. CASE r # s
      BY <1>1, <2>4, <3>2 DEF UpdateMargin
    <3> QED
      BY <3>1, <3>2
  <2> QED
    BY <1>3, <2>1, <2>2, <2>3, <2>4 DEF OnSlot
<1>4. ASSUME NEW q \in Pairs, NEW value \in BlockFees, SetRolloverFeePerBlockP(q, value)
      PROVE  FALSE
  BY <1>1, <1>4 DEF SetRolloverFeePerBlockP
<1>5. CASE BalanceMoves \/ NewBlock \/ UNCHANGED vars
  BY <1>1, <1>5 DEF BalanceMoves, NewBlock, vars
<1> QED
  BY <1>3, <1>4, <1>5 DEF Next

\* No margin update restarts a trade ahead of what it has been charged for,
\* but where the tranches pay for it (MarginUpdateForgivesNothing).
THEOREM MarginUpdateForgivesNothingAlways == Spec => MarginUpdateForgivesNothing
<1>1. IInv /\ [Next]_vars => [\A s \in Slots : KeepsCharge(s)]_vars
  BY NextForgivesNothing, RolloverAssumption
<1>2. Spec => [][\A s \in Slots : KeepsCharge(s)]_vars
  BY <1>1, IInvHolds, PTL DEF Spec
<1> QED
  BY <1>2 DEF MarginUpdateForgivesNothing, KeepsCharge

-----------------------------------------------------------------------------
(* The heavier side pays more. *)

\* A share of a whole, in percent, grows with its part.
LEMMA ShareGrows ==
    ASSUME NEW a \in Nat, NEW b \in Nat, a <= b, NEW n \in Nat \ {0}
    PROVE  /\ (100 * a) \div n \in Nat /\ (100 * b) \div n \in Nat
           /\ (100 * a) \div n <= (100 * b) \div n
<1>1. 100 * a \in Nat /\ 100 * b \in Nat /\ 100 * a <= 100 * b /\ n <= n
  BY SMT
<1> QED
  BY <1>1, Quotient, QuotientGrows

\* The heavier side, of the pair and of the dollar, has the larger skew.
LEMMA HeavierSideIsSkewed ==
    ASSUME RolloverAssumption, TypeOK, NEW p \in Pairs, NEW side \in Sides, NEW other \in Sides,
           Both(interest[p]) > 0, IsForex => Both(usdOI) > 0,
           interest[p][other] <= interest[p][side],
           usdOI[UsdSide(p, other)] <= usdOI[UsdSide(p, side)]
    PROVE  BlendedSkew(p, other) <= BlendedSkew(p, side)
<1>1. /\ Both(interest[p]) \in Nat \ {0}
      /\ AssetSkew(p, side) \in Nat /\ AssetSkew(p, other) \in Nat
      /\ IsForex => Both(usdOI) \in Nat \ {0} /\ UsdSkew(p, side) \in Nat /\ UsdSkew(p, other) \in Nat
  BY SkewIsNat
<1>2. /\ interest[p][side] \in Nat /\ interest[p][other] \in Nat
      /\ usdOI[UsdSide(p, side)] \in Nat /\ usdOI[UsdSide(p, other)] \in Nat
  BY SideTypes DEF TypeOK
<1>3. AssetSkew(p, other) <= AssetSkew(p, side)
  BY <1>1, <1>2, ShareGrows DEF AssetSkew
<1>4. CASE IsForex
  <2>1. UsdSkew(p, other) <= UsdSkew(p, side)
    BY <1>1, <1>2, <1>4, ShareGrows DEF UsdSkew
  <2> QED
    BY <1>1, <1>3, <1>4, <2>1, BlendGrows DEF BlendedSkew
<1>5. CASE ~IsForex
  BY <1>3, <1>5 DEF BlendedSkew
<1> QED
  BY <1>4, <1>5

\* So its load is the larger one.
LEMMA HeavierSideIsLoaded ==
    ASSUME RolloverAssumption, TypeOK, NEW p \in Pairs, NEW side \in Sides, NEW other \in Sides,
           Defined(p, groupOI, balance), interest[p][other] > 0,
           interest[p][other] <= interest[p][side],
           usdOI[UsdSide(p, other)] <= usdOI[UsdSide(p, side)]
    PROVE  Load(p, other, groupOI, balance) <= Load(p, side, groupOI, balance)
<1>1. CASE interest[p]["long"] = 0
  BY <1>1, SMT DEF Load
<1>2. CASE interest[p]["long"] # 0
  <2>1. interest[p]["long"] > 0 /\ Both(interest[p]) > 0
    <3>1. interest[p] \in [Sides -> Nat] /\ "long" \in Sides /\ "short" \in Sides
      BY DEF TypeOK, Sides
    <3> QED
      BY <1>2, <3>1, SMT DEF Both
  <2>2. IsForex => Both(usdOI) > 0
    BY DEF Defined
  <2>3. groupOI \in [Sides -> Nat] /\ balance \in Balances
    BY DEF TypeOK
  <2>4. BlendedUtilizationRatio(p, groupOI, balance) \in Nat
    BY <2>1, <2>3, UtilizationIsNat
  <2>5. /\ BlendedSkew(p, side) \in Nat /\ BlendedSkew(p, other) \in Nat
        /\ BlendedSkew(p, other) <= BlendedSkew(p, side)
    BY <2>1, <2>2, SkewIsNat, HeavierSideIsSkewed
  <2> DEFINE u == BlendedUtilizationRatio(p, groupOI, balance)
             x == BlendedSkew(p, other)
             y == BlendedSkew(p, side)
  <2>6. Load(p, other, groupOI, balance) = u * x /\ Load(p, side, groupOI, balance) = u * y
    BY <1>2 DEF Load
  <2> HIDE DEF u, x, y
  <2>7. u \in Nat /\ x \in Nat /\ y \in Nat /\ x <= y
    BY <2>4, <2>5 DEF u, x, y
  <2>8. x * u <= y * u
    BY <2>7, ProductGrows
  <2>9. u * x = x * u /\ u * y = y * u
    BY <2>7, SMT
  <2> QED
    BY <2>6, <2>8, <2>9
<1> QED
  BY <1>1, <1>2

\* What a side pays for a block, wherever the fees are defined.
LEMMA HeavierSidePays ==
    ASSUME RolloverAssumption, TypeOK, NEW p \in Pairs, NEW side \in Sides, NEW other \in Sides,
           Defined(p, groupOI, balance),
           interest[p][other] <= interest[p][side],
           usdOI[UsdSide(p, other)] <= usdOI[UsdSide(p, side)]
    PROVE  Accrued(p, other, 1, groupOI, balance) <= Accrued(p, side, 1, groupOI, balance)
<1> DEFINE k == Load(p, other, groupOI, balance)
           l == Load(p, side, groupOI, balance)
<1>1. /\ interest[p][side] \in Nat /\ interest[p][other] \in Nat
      /\ groupOI \in [Sides -> Nat] /\ balance \in Balances
  BY DEF TypeOK
<1>2. feePerBlock[p] \in Nat /\ Precision \in Nat \ {0}
  BY DEF TypeOK, RolloverAssumption
<1>3. ASSUME interest[p][side] > 0
      PROVE  /\ l \in Nat /\ l < Precision * 100
             /\ Accrued(p, side, 1, groupOI, balance)
                  = (Multiplier(l) * 1 * feePerBlock[p]) \div Precision
  <2>1. l \in Nat /\ l < Precision * 100
    BY <1>1, <1>3, LoadInRange
  <2>2. interest[p][side] # 0
    BY <1>1, <1>3, SMT
  <2> QED
    BY <2>1, <2>2 DEF Accrued
<1>4. CASE interest[p][other] = 0
  <2>1. Accrued(p, other, 1, groupOI, balance) = 0
    BY <1>4 DEF Accrued
  <2>2. CASE interest[p][side] = 0
    BY <2>1, <2>2, SMT DEF Accrued
  <2>3. CASE interest[p][side] # 0
    <3>1. interest[p][side] > 0
      BY <1>1, <2>3, SMT
    <3>2. Multiplier(l) \in Nat
      <4>1. l <= l
        BY <1>3, <3>1, SMT
      <4> QED
        BY <1>3, <3>1, <4>1, MultiplierGrows
    <3>3. (Multiplier(l) * 1 * feePerBlock[p]) \div Precision \in Nat
      <4>1. 1 \in Nat /\ Multiplier(l) <= Multiplier(l)
        BY <3>2, SMT
      <4> QED
        BY <1>2, <3>2, <4>1, CostGrows
    <3> QED
      BY <1>3, <2>1, <3>1, <3>3, SMT
  <2> QED
    BY <2>2, <2>3
<1>5. CASE interest[p][other] # 0
  <2>1. interest[p][other] > 0 /\ interest[p][side] > 0
    BY <1>1, <1>5, SMT
  <2>2. k \in Nat /\ k <= l
    BY <1>1, <2>1, LoadInRange, HeavierSideIsLoaded
  <2>3. Accrued(p, other, 1, groupOI, balance)
          = (Multiplier(k) * 1 * feePerBlock[p]) \div Precision
    BY <1>5 DEF Accrued
  <2>4. Multiplier(k) \in Nat /\ Multiplier(l) \in Nat /\ Multiplier(k) <= Multiplier(l)
    BY <1>3, <2>1, <2>2, MultiplierGrows
  <2>5. (Multiplier(k) * 1 * feePerBlock[p]) \div Precision
          <= (Multiplier(l) * 1 * feePerBlock[p]) \div Precision
    <3>1. 1 \in Nat
      OBVIOUS
    <3> QED
      BY <1>2, <2>4, <3>1, CostGrows
  <2> QED
    BY <1>3, <2>1, <2>3, <2>5
<1> QED
  BY <1>4, <1>5

\* The side with more open interest, of the pair and of the dollar, pays at
\* least as much a block as the other one.
THEOREM HeavierSidePaysMoreAlways == Spec => []HeavierSidePaysMore
<1>1. ASSUME TypeOK PROVE HeavierSidePaysMore
  <2>1. SUFFICES ASSUME NEW p \in Pairs, NEW side \in Sides,
                        Defined(p, groupOI, balance),
                        interest[p][side] >= interest[p][Other(side)],
                        usdOI[UsdSide(p, side)] >= usdOI[UsdSide(p, Other(side))]
                 PROVE  Accrued(p, side, 1, groupOI, balance)
                          >= Accrued(p, Other(side), 1, groupOI, balance)
    BY DEF HeavierSidePaysMore
  <2>2. Other(side) \in Sides
    BY DEF Sides, Other
  <2>3. /\ interest[p][Other(side)] <= interest[p][side]
        /\ usdOI[UsdSide(p, Other(side))] <= usdOI[UsdSide(p, side)]
    BY <2>1, SMT
  <2> QED
    BY <1>1, <2>1, <2>2, <2>3, HeavierSidePays, RolloverAssumption, SMT
<1> QED
  BY <1>1, TypeCorrect, PTL

-----------------------------------------------------------------------------
(* Below the limits the fees are defined. *)

\* What is below a limit is below it in any unit.
LEMMA RatioBelowOne ==
    ASSUME NEW x \in Nat, NEW m \in Nat, x < m, NEW n \in Nat \ {0}
    PROVE  (x * n) \div m \in Nat /\ (x * n) \div m < n
<1> DEFINE q == (x * n) \div m
<1>1. x * n \in Nat /\ m \in Nat \ {0}
  BY Product, SMT
<1>2. q \in Nat
  BY <1>1, Quotient
<1>3. q * m <= x * n
  BY <1>1, <1>2, SMT
<1>4. x * n < m * n
  <2>1. (x + 1) * n <= m * n
    BY ProductGrows, SMT
  <2>2. (x + 1) * n = x * n + n
    BY SMT
  <2> QED
    BY <1>1, <2>1, <2>2, SMT
<1> HIDE DEF q
<1>5. q * m < n * m
  BY <1>1, <1>2, <1>3, <1>4, SMT
<1>6. q < n
  BY <1>2, <1>5, CancelFactor
<1> QED
  BY <1>2, <1>6 DEF q

\* A part of a whole is at most all of it.
LEMMA ShareOfWhole ==
    ASSUME NEW a \in Nat, NEW n \in Nat \ {0}, a <= n
    PROVE  (100 * a) \div n \in Nat /\ (100 * a) \div n <= 100
<1>1. /\ (100 * a) \div n \in Nat
      /\ (100 * a) \div n <= (100 * n) \div n
  BY ShareGrows, SMT
<1>2. (100 * n) \div n = 100
  BY SMT
<1> QED
  BY <1>1, <1>2

\* A side has at most all the skew.
LEMMA SkewIsAShare ==
    ASSUME RolloverAssumption, TypeOK, NEW p \in Pairs, NEW side \in Sides,
           Both(interest[p]) > 0, IsForex => Both(usdOI) > 0
    PROVE  BlendedSkew(p, side) \in Nat /\ BlendedSkew(p, side) <= 100
<1>1. /\ BlendedSkew(p, side) \in Nat /\ AssetSkew(p, side) \in Nat
      /\ Both(interest[p]) \in Nat \ {0}
      /\ IsForex => Both(usdOI) \in Nat \ {0} /\ UsdSkew(p, side) \in Nat
  BY SkewIsNat
<1>2. /\ interest[p] \in [Sides -> Nat] /\ usdOI \in [Sides -> Nat]
      /\ UsdSide(p, side) \in Sides
  BY SideTypes DEF TypeOK
<1>3. \A s \in Sides : /\ interest[p][s] \in Nat /\ interest[p][s] <= Both(interest[p])
                       /\ usdOI[s] \in Nat /\ usdOI[s] <= Both(usdOI)
  BY <1>2, SMT DEF Both, Sides
<1>4. AssetSkew(p, side) <= 100
  BY <1>1, <1>3, ShareOfWhole DEF AssetSkew
<1>5. CASE IsForex
  <2>1. UsdSkew(p, side) <= 100
    BY <1>1, <1>2, <1>3, <1>5, ShareOfWhole DEF UsdSkew
  <2>2. BlendedSkew(p, side) = (75 * UsdSkew(p, side) + 25 * AssetSkew(p, side)) \div 100
    BY <1>5 DEF BlendedSkew
  <2> QED
    BY <1>1, <1>4, <1>5, <2>1, <2>2, SMT
<1>6. CASE ~IsForex
  BY <1>1, <1>4, <1>6 DEF BlendedSkew
<1> QED
  BY <1>5, <1>6

\* The group and the pair below their limits are less than fully utilized.
LEMMA UtilizationBelowOne ==
    ASSUME RolloverAssumption, TypeOK, NEW p \in Pairs,
           Both(groupOI) < GroupMaxOI(balance), Both(interest[p]) < PairMaxOI(p, balance)
    PROVE  /\ BlendedUtilizationRatio(p, groupOI, balance) \in Nat
           /\ BlendedUtilizationRatio(p, groupOI, balance) < Precision
           /\ GroupMaxOI(balance) > 0 /\ PairMaxOI(p, balance) > 0
<1> DEFINE x == (Both(groupOI) * Precision) \div GroupMaxOI(balance)
           y == (Both(interest[p]) * Precision) \div PairMaxOI(p, balance)
<1>1. /\ interest[p] \in [Sides -> Nat] /\ groupOI \in [Sides -> Nat]
      /\ "long" \in Sides /\ "short" \in Sides
  BY DEF TypeOK, Sides
<1>2. Both(interest[p]) \in Nat /\ Both(groupOI) \in Nat
  BY <1>1, SMT DEF Both
<1>3. balance \in Nat /\ GroupMaxP \in Nat /\ PairP[p] \in Nat /\ Precision \in Nat \ {0}
  BY DEF TypeOK, RolloverAssumption
<1>4. GroupMaxOI(balance) \in Nat
  BY <1>3, Product, Quotient DEF GroupMaxOI
<1>5. PairMaxOI(p, balance) \in Nat
  <2>1. PairP[p] * GroupMaxOI(balance) \in Nat
    BY <1>3, <1>4, Product
  <2> QED
    BY <2>1, Quotient DEF PairMaxOI
<1>6. x \in Nat /\ x < Precision
  BY <1>2, <1>3, <1>4, RatioBelowOne
<1>7. y \in Nat /\ y < Precision
  BY <1>2, <1>3, <1>5, RatioBelowOne
<1>8. BlendedUtilizationRatio(p, groupOI, balance) = (75 * x + 25 * y) \div 100
  BY DEF BlendedUtilizationRatio
<1> HIDE DEF x, y
<1>9. (75 * x + 25 * y) \div 100 \in Nat /\ (75 * x + 25 * y) \div 100 < Precision
  BY <1>3, <1>6, <1>7, SMT
<1> QED
  BY <1>2, <1>4, <1>5, <1>8, <1>9, SMT

\* A dollar pair with open interest is counted in the dollar's.
LEMMA DollarsCounted ==
    ASSUME RolloverAssumption, TypeOK, UsdOIExact, IsForex,
           NEW p \in Pairs, NEW side \in Sides, interest[p][side] > 0
    PROVE  Both(usdOI) > 0
<1> DEFINE u == UsdSide(p, side)
           f == DollarsOf(interest, u)
<1>1. u \in Sides /\ \A q \in Pairs : UsdSide(q, u) \in Sides
  BY SideTypes
<1>2. f \in [Pairs -> Nat]
  BY <1>1 DEF TypeOK, DollarsOf
<1>3. f[p] = interest[p][side]
  BY SidesCorrespond DEF DollarsOf
<1>4. usdOI[u] = SumFunction(f)
  BY <1>1, ExactMeans
<1>5. f[p] <= SumFunction(f)
  <2>1. IsFiniteSet(Pairs)
    BY DEF RolloverAssumption
  <2> HIDE DEF f
  <2> QED
    BY <1>2, <2>1, SumAtLeast
<1>6. /\ interest[p][side] \in Nat /\ usdOI[u] \in Nat
      /\ usdOI["long"] \in Nat /\ usdOI["short"] \in Nat
  BY <1>1 DEF TypeOK, Sides
<1> HIDE DEF f
<1>7. usdOI[u] > 0
  BY <1>3, <1>4, <1>5, <1>6, SMT
<1>8. u = "long" \/ u = "short"
  BY <1>1 DEF Sides
<1> HIDE DEF u
<1> QED
  BY <1>6, <1>7, <1>8, SMT DEF Both

\* So the fees of a pair below the limits are defined: what they divide by, the
\* dollar's open interest included, is positive.
LEMMA BelowFullIsDefined ==
    ASSUME RolloverAssumption, TypeOK, UsdOIExact, NEW p \in Pairs,
           Both(groupOI) < GroupMaxOI(balance), Both(interest[p]) < PairMaxOI(p, balance)
    PROVE  Defined(p, groupOI, balance)
<1> DEFINE u == BlendedUtilizationRatio(p, groupOI, balance)
<1>1. /\ u \in Nat /\ u < Precision
      /\ GroupMaxOI(balance) > 0 /\ PairMaxOI(p, balance) > 0
  BY UtilizationBelowOne
<1>2. Precision \in Nat \ {0}
  BY DEF RolloverAssumption
<1> HIDE DEF u
<1>3. ASSUME NEW side \in Sides, interest[p][side] > 0
      PROVE  /\ IsForex => Both(usdOI) > 0
             /\ Load(p, side, groupOI, balance) < Precision * 100
  <2>1. IsForex => Both(usdOI) > 0
    BY <1>3, DollarsCounted
  <2>2. CASE interest[p]["long"] = 0
    <3>1. Load(p, side, groupOI, balance) = 0
      BY <2>2 DEF Load
    <3> QED
      BY <1>2, <2>1, <3>1, SMT
  <2>3. CASE interest[p]["long"] # 0
    <3>1. Both(interest[p]) > 0
      <4>1. interest[p] \in [Sides -> Nat] /\ "long" \in Sides /\ "short" \in Sides
        BY DEF TypeOK, Sides
      <4> QED
        BY <2>3, <4>1, SMT DEF Both
    <3> DEFINE w == BlendedSkew(p, side)
    <3>2. w \in Nat /\ w <= 100
      BY <2>1, <3>1, SkewIsAShare
    <3>3. Load(p, side, groupOI, balance) = u * w
      BY <2>3 DEF Load, u
    <3> HIDE DEF w
    <3>4. w * u \in Nat /\ w * u <= 100 * u
      BY <1>1, <3>2, ProductGrows
    <3>5. u * w = w * u /\ 100 * u < Precision * 100
      BY <1>1, <1>2, <3>2, SMT
    <3> QED
      BY <1>1, <1>2, <2>1, <3>3, <3>4, <3>5, SMT
  <2> QED
    BY <2>2, <2>3
<1> QED
  BY <1>1, <1>3 DEF Defined

\* Below the limits of the group and the pair no transaction of the pair
\* reverts in its fees.
THEOREM ClosableBelowFullAlways == Spec => []ClosableBelowFull
<1>1. TypeOK /\ UsdOIExact => ClosableBelowFull
  BY BelowFullIsDefined, RolloverAssumption DEF ClosableBelowFull
<1> QED
  BY <1>1, TypeCorrect, UsdOIExactAlways, PTL
=============================================================================
