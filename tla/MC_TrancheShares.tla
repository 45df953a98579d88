-------------------------- MODULE MC_TrancheShares --------------------------
(* Instances of TrancheShares for TLC. *)
EXTENDS TrancheShares, TLC

CONSTANTS ann, ben

LpsSymmetry == Permutations({ann, ben})
=============================================================================
