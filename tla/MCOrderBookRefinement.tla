----------------------- MODULE MCOrderBookRefinement ------------------------
(***************************************************************************)
(* The engine against the reference book, on a small instance.             *)
(***************************************************************************)
EXTENDS OrderBookRefinement, TLC

Symmetry == Permutations(OrderIds) \cup Permutations(Slots) \cup Permutations(HeapAddrs)
=============================================================================
