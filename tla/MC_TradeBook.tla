----------------------------- MODULE MC_TradeBook -----------------------------
(* Instances of TradeBook and of its refinement for TLC. *)
EXTENDS TradeBookRefinement, TLC

CONSTANTS alice, bob, btc, eur

TradersSymmetry == Permutations({alice, bob})
=============================================================================
