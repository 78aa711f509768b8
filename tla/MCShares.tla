------------------------------ MODULE MCShares ------------------------------
(* The shares alone, with either database behind them. *)
EXTENDS Shares, TLC

Symmetry == Permutations(Tasks) \cup Permutations(Uids)
=============================================================================
