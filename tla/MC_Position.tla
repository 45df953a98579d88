---------------------------- MODULE MC_Position ----------------------------
(* Instances of Position for TLC. *)
EXTENDS Position
=============================================================================
