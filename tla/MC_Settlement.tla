---------------------------- MODULE MC_Settlement ----------------------------
(* Instances of Settlement for TLC. *)
EXTENDS Settlement, TLC

CONSTANTS t1, t2

TradersSymmetry == Permutations({t1, t2})

\* Losses up to the whole collateral, and gains.
MCGains == {-100, -50, 40}

\* Fees after the rebate, and the rebate, which there is for a referred trader.
WithReferrer == {<<0, 0>>, <<2, 0>>, <<4, 1>>}
=============================================================================
