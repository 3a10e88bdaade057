---------------------------- MODULE MCOrderBook -----------------------------
(***************************************************************************)
(* A small instance of the order book for TLC.  Ids, slots and heap        *)
(* addresses are only compared for equality, so they may be permuted.      *)
(***************************************************************************)
EXTENDS OrderBook, TLC

Symmetry == Permutations(OrderIds) \cup Permutations(Slots) \cup Permutations(HeapAddrs)
=============================================================================
