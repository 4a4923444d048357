------------------------------ MODULE MCArena ------------------------------
(* The arena with few enough slots and generations that slots are refilled, *)
(* retired and dropped within a run.                                        *)
EXTENDS Arena, TLC

ValueSymmetry == Permutations(Values)
=============================================================================
