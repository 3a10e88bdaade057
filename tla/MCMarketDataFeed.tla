-------------------------- MODULE MCMarketDataFeed --------------------------
(***************************************************************************)
(* A small instance of the tick replay.  Ids are only compared.            *)
(***************************************************************************)
EXTENDS MarketDataFeed, TLC

Symmetry == Permutations(OrderIds)
=============================================================================
