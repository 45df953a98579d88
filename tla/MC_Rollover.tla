----------------------------- MODULE MC_Rollover -----------------------------
(* Instances of Rollover for TLC. *)
EXTENDS Rollover, TLC

CONSTANTS eur, jpy, s1, s2

SlotsSymmetry == Permutations({s1, s2})

\* One pair may fill the group, the other half of it.
MC_PairP == eur :> 100 @@ jpy :> 50
=============================================================================
