------------------------------ MODULE BookTypes ------------------------------
(***************************************************************************)
(* The vocabulary shared by the order book and its specifications: sides,  *)
(* prices, quantities, order types and the trades the engine reports.      *)
(* Names follow include/OrderBook.hpp.                                     *)
(***************************************************************************)
EXTENDS Integers

CONSTANTS
  OrderIds,  \* the order ids callers use (uint64_t in the code)
  NO_ASK,    \* the largest price value, reserved as the empty-ask sentinel
  MaxQty     \* the largest quantity value (UINT32_MAX in the code)

NO_BID == 0

ASSUME BookAssumption ==
  /\ NO_ASK \in Nat /\ NO_ASK >= 2
  /\ MaxQty \in Nat /\ MaxQty >= 1

-----------------------------------------------------------------------------
PriceField == NO_BID .. NO_ASK       \* what a caller may pass as a price
Price      == 1 .. NO_ASK - 1        \* what an order may rest at
QtyField   == 0 .. MaxQty            \* what a caller may pass as a quantity
Qty        == 1 .. MaxQty
Side       == {"buy", "sell"}
OrderType  == {"LIMIT", "IOC", "FOK", "MARKET"}

Trade == [taker_id : OrderIds, maker_id : OrderIds, price : Price, qty : Qty,
          taker_side : Side]

Opposite(side) == IF side = "buy" THEN "sell" ELSE "buy"

\* Mutant of Crosses: a price equal to the limit does not trade.
Crosses_Strictly(side, price, limit) ==
  IF side = "buy" THEN price < limit ELSE price > limit

\* A resting price that a taker on `side` with price limit `limit` may trade at.
Crosses(side, price, limit) ==
  IF side = "buy" THEN price <= limit ELSE price >= limit

\* On `side` of the book, price p is served before price q: bids are kept
\* highest first, asks lowest first.
Better(side, p, q) == IF side = "buy" THEN p > q ELSE p < q

\* Mutant of IsBest: the comparator of the side's map is the wrong way round.
IsBest_WorstFirst(side, prices, p) ==
  p \in prices /\ \A q \in prices \ {p} : Better(side, q, p)

\* p is the first key of a side whose prices are `prices` (map::begin()).
IsBest(side, prices, p) ==
  p \in prices /\ \A q \in prices \ {p} : Better(side, p, q)

\* The limit the matching loop runs with: MARKET ignores the price field.
LimitOf(type, side, price) ==
  IF type # "MARKET" THEN price
  ELSE IF side = "buy" THEN NO_ASK ELSE NO_BID
=============================================================================
