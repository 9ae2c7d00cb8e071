-------------------------- MODULE MCMarketOrderBook --------------------------
(***************************************************************************)
(* MarketOrderBook for TLC: references and nodes are interchangeable.      *)
(***************************************************************************)
EXTENDS MarketOrderBook, TLC

Symmetry == Permutations(Refs) \cup Permutations(Nodes)

=============================================================================
