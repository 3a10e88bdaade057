------------------------ MODULE MarketDataFeedProofs ------------------------
(***************************************************************************)
(* The tick replay for files of any length and any orders. What an         *)
(* insertion does to the shares that rest, and what its fills come to, is  *)
(* in BookCallsProofs (InsertHeld, FillFacts, FillBounds, CancelHeld).     *)
(***************************************************************************)
EXTENDS MarketDataFeed, BookCallsProofs

(***************************************************************************)
(* The inductive invariant.  SummaryIsSane is not inductive: its sums need *)
(* that a fill is never empty nor at a price outside the book, and its     *)
(* spread that the book is in good order.                                  *)
(***************************************************************************)
FeedTypes ==
  /\ BookOK(book, OrderIds)
  /\ blotter \in [trade_count : Nat, traded_volume : Nat, notional : Nat]
  /\ added \in Nat /\ cancelled \in Nat

BlotterSane ==
  /\ blotter.trade_count <= blotter.traded_volume
  /\ blotter.traded_volume <= blotter.notional
  /\ blotter.notional <= (NO_ASK - 1) * blotter.traded_volume

FeedInv == FeedTypes /\ BlotterSane /\ added = HeldShares(book) + cancelled + 2 * blotter.traded_volume

LEMMA FeedInit == Init => FeedInv
<1> SUFFICES ASSUME Init PROVE FeedInv
  OBVIOUS
<1>1. /\ book = EmptyBook /\ added = 0 /\ cancelled = 0
      /\ blotter = [trade_count |-> 0, traded_volume |-> 0, notional |-> 0]
  BY DEF Init
<1>2. BookOK(book, OrderIds) /\ HeldShares(book) = 0
  BY <1>1, EmptyHeld
<1> QED
  BY <1>1, <1>2, BookAssumption DEF FeedInv, FeedTypes, BlotterSane

LEMMA AddKeepsInv ==
  ASSUME FeedInv, NEW t \in Tick, ProcessAdd(t)
  PROVE  FeedInv'
<1>1. PICK id \in OrderIds, p \in PriceField, n \in Nat, s \in Side :
        id = t.order_id /\ p = t.price /\ n = t.quantity /\ s = t.side
  <2>1. t.order_id \in OrderIds /\ t.price \in PriceField /\ t.quantity \in 0 .. MaxQty /\ t.side \in Side
    BY DEF Tick, QtyField
  <2> QED
    BY <2>1, BookAssumption
<1>2. PICK F : F = Fills(book, id, s, p, n)
  OBVIOUS
<1>3. /\ book' = InsertOrder(book, id, s, p, n) /\ blotter' = Blotter(blotter, F)
      /\ added' = added + (IF Insertable(book, id, p, n) THEN n ELSE 0) /\ cancelled' = cancelled
  BY <1>1, <1>2 DEF ProcessAdd
<1>4. /\ BookOK(book, OrderIds) /\ added \in Nat /\ cancelled \in Nat
      /\ added = HeldShares(book) + cancelled + 2 * blotter.traded_volume
      /\ blotter \in [trade_count : Nat, traded_volume : Nat, notional : Nat] /\ BlotterSane
  BY DEF FeedInv, FeedTypes
<1>5. PICK g, h : g = [f \in F |-> f.qty] /\ h = [f \in F |-> f.price * f.qty]
  OBVIOUS
<1>6. /\ blotter'.trade_count = blotter.trade_count + Cardinality(F)
      /\ blotter'.traded_volume = blotter.traded_volume + SumFunctionOnSet(g, F)
      /\ blotter'.notional = blotter.notional + SumFunctionOnSet(h, F)
      /\ DOMAIN blotter' = {"trade_count", "traded_volume", "notional"}
      /\ blotter' = [trade_count |-> blotter'.trade_count,
                     traded_volume |-> blotter'.traded_volume, notional |-> blotter'.notional]
  <2>1. DOMAIN g = F /\ DOMAIN h = F
    BY <1>5
  <2>2. SumFunction(g) = SumFunctionOnSet(g, F) /\ SumFunction(h) = SumFunctionOnSet(h, F)
    BY <2>1 DEF SumFunction
  <2> QED
    BY <1>3, <1>5, <2>2 DEF Blotter
<1>7. /\ IsFiniteSet(F) /\ \A f \in F : IsFill(f)
      /\ BookOK(book', OrderIds) /\ SumFunctionOnSet(g, F) \in Nat
      /\ added' \in Nat
      /\ added' = HeldShares(book') + cancelled + 2 * (blotter.traded_volume + SumFunctionOnSet(g, F))
  <2>0. HeldShares(book) \in Nat /\ blotter.traded_volume \in Nat
    BY <1>4, RestingSum
  <2>1. CASE Insertable(book, id, p, n)
    <3>1. PICK v : v = Traded(book, s, p, n)
      OBVIOUS
    <3>2. /\ IsFiniteSet(F) /\ SumFunctionOnSet(g, F) = v
          /\ \A f \in F : IsFill(f)
      BY <1>2, <1>4, <1>5, <2>1, <3>1, FillFacts
    <3>3. v \in Nat /\ HeldShares(book') = HeldShares(book) + n - 2 * v
      BY <1>3, <1>4, <2>1, <3>1, InsertHeld
    <3>4. BookOK(book', OrderIds)
      BY <1>3, <1>4, InsertBook
    <3>5. added' = added + n
      BY <1>3, <2>1
    <3>6. PICK x \in Nat, y \in Nat, w \in Nat : /\ x = HeldShares(book) /\ y = blotter.traded_volume
                                                /\ w = cancelled
      BY <1>4, <2>0
    <3>7. added = x + w + 2 * y
      BY <1>4, <3>6
    <3>8. added' = (x + n - 2 * v) + w + 2 * (y + v) /\ added' \in Nat
      BY <3>3, <3>5, <3>6, <3>7
    <3>9. added' = HeldShares(book') + cancelled + 2 * (blotter.traded_volume + SumFunctionOnSet(g, F))
      <4>1. HeldShares(book') = x + n - 2 * v /\ SumFunctionOnSet(g, F) = v
        BY <3>2, <3>3, <3>6
      <4> QED
        BY <3>6, <3>8, <4>1
    <3> QED
      BY <3>2, <3>3, <3>4, <3>8, <3>9
  <2>2. CASE ~Insertable(book, id, p, n)
    <3>1. F = {} /\ book' = book
      BY <1>2, <1>3, <1>4, <2>2, NoFills
    <3>2. IsFiniteSet(F) /\ SumFunctionOnSet(g, F) = 0
      BY <3>1, FS_EmptySet, SumZero
    <3>3. added' = added
      BY <1>3, <1>4, <2>2
    <3> QED
      BY <1>4, <2>0, <3>1, <3>2, <3>3
  <2> QED
    BY <2>1, <2>2
<1>8. /\ SumFunctionOnSet(h, F) \in Nat /\ Cardinality(F) \in Nat
      /\ Cardinality(F) <= SumFunctionOnSet(g, F)
      /\ SumFunctionOnSet(g, F) <= SumFunctionOnSet(h, F)
      /\ SumFunctionOnSet(h, F) <= (NO_ASK - 1) * SumFunctionOnSet(g, F)
  BY <1>5, <1>7, FillBounds
<1>9a. PICK a \in Nat, b \in Nat, c \in Nat :
         a = blotter.trade_count /\ b = blotter.traded_volume /\ c = blotter.notional
  <2>1. /\ blotter.trade_count \in Nat /\ blotter.traded_volume \in Nat
        /\ blotter.notional \in Nat
    BY <1>4
  <2> QED
    BY <2>1
<1>9b. PICK x \in Nat, y \in Nat, z \in Nat :
         x = Cardinality(F) /\ y = SumFunctionOnSet(g, F) /\ z = SumFunctionOnSet(h, F)
  BY <1>7, <1>8
<1>9c. PICK k \in Nat : k = NO_ASK - 1
  BY BookAssumption
<1>9. /\ a = blotter.trade_count /\ b = blotter.traded_volume /\ c = blotter.notional
      /\ x = Cardinality(F) /\ y = SumFunctionOnSet(g, F) /\ z = SumFunctionOnSet(h, F)
      /\ k = NO_ASK - 1
  BY <1>9a, <1>9b, <1>9c
<1>10. /\ blotter'.trade_count = a + x /\ blotter'.traded_volume = b + y
       /\ blotter'.notional = c + z
  BY <1>6, <1>9
<1>11. BlotterSane'
  <2>1. a <= b /\ b <= c /\ c <= k * b
    BY <1>4, <1>9 DEF BlotterSane
  <2>2. x <= y /\ y <= z /\ z <= k * y
    BY <1>8, <1>9
  <2>3. k * (b + y) = k * b + k * y /\ k * b \in Nat /\ k * y \in Nat
    OBVIOUS
  <2>4. a + x <= b + y /\ b + y <= c + z /\ c + z <= k * (b + y)
    BY <2>1, <2>2, <2>3
  <2> QED
    BY <1>9, <1>10, <2>4 DEF BlotterSane
<1>12. FeedTypes'
  <2>1. blotter' \in [trade_count : Nat, traded_volume : Nat, notional : Nat]
    BY <1>6, <1>10
  <2> QED
    BY <1>3, <1>4, <1>7, <2>1 DEF FeedTypes
<1> QED
  BY <1>3, <1>6, <1>7, <1>11, <1>12 DEF FeedInv

LEMMA CancelKeepsInv ==
  ASSUME FeedInv, NEW t \in Tick, ProcessCancel(t)
  PROVE  FeedInv'
<1>1. PICK n : n = GetOrderQty(book, t.order_id)
  OBVIOUS
<1>2. /\ book' = CancelOrder(book, t.order_id) /\ cancelled' = cancelled + n
      /\ blotter' = blotter /\ added' = added
  BY <1>1 DEF ProcessCancel
<1>3. /\ BookOK(book, OrderIds) /\ added \in Nat /\ cancelled \in Nat
      /\ added = HeldShares(book) + cancelled + 2 * blotter.traded_volume
      /\ blotter.traded_volume \in Nat
  BY DEF FeedInv, FeedTypes
<1>4. BookOK(book', OrderIds) /\ n \in Nat /\ HeldShares(book') = HeldShares(book) - n /\ HeldShares(book) \in Nat
  <2>1. BookOK(book', OrderIds)
    BY <1>2, <1>3, CancelBook
  <2>2. n \in Nat
    BY <1>1, <1>3, OrderQty
  <2>3. HeldShares(book') = HeldShares(book) - n
    BY <1>1, <1>2, <1>3, CancelHeld
  <2>4. HeldShares(book) \in Nat
    BY <1>3, RestingSum
  <2> QED
    BY <2>1, <2>2, <2>3, <2>4
<1>5. added' = HeldShares(book') + cancelled' + 2 * blotter'.traded_volume
  BY <1>2, <1>3, <1>4
<1> QED
  BY <1>2, <1>3, <1>4, <1>5 DEF FeedInv, FeedTypes, BlotterSane

LEMMA FeedStep == FeedInv /\ [Next]_vars => FeedInv'
<1> SUFFICES ASSUME FeedInv, [Next]_vars PROVE FeedInv'
  OBVIOUS
<1>1. CASE UNCHANGED <<book, blotter, added, cancelled>>
  BY <1>1 DEF FeedInv, FeedTypes, BlotterSane
<1>2. ASSUME NEW line \in Line, ReplayLine(line) PROVE FeedInv'
  <2>1. line \in Tick
    <3>1. line.event \in {"ADD", "CANCEL"}
      BY <1>2 DEF ReplayLine, ProcessTick
    <3> QED
      BY <1>2, <3>1 DEF Line
  <2>2. ProcessAdd(line) \/ ProcessCancel(line)
    BY <1>2 DEF ReplayLine, ProcessTick
  <2> QED
    BY <2>1, <2>2, AddKeepsInv, CancelKeepsInv
<1>3. ASSUME NEW line \in Line, SkipFirstLine(line) \/ IgnoreLine(line) \/ Unparsable(line)
      PROVE  FeedInv'
  BY <1>1, <1>3 DEF SkipFirstLine, IgnoreLine, Unparsable
<1>4. CASE CannotOpen \/ EndOfFile \/ Returned \/ UNCHANGED vars
  BY <1>1, <1>4 DEF CannotOpen, EndOfFile, Returned, vars
<1> QED
  BY <1>2, <1>3, <1>4 DEF Next

THEOREM FeedSafety == Spec => []FeedInv
  BY FeedInit, FeedStep, PTL DEF Spec

-----------------------------------------------------------------------------
(* However long the file: the shares that its ADD lines brought in all     *)
(* rest, were canceled, or were traded with both sides of the trade        *)
(* counted (OrderBook.cpp:26-41, replay_main.cpp:15-18).                   *)
THEOREM NoShareIsLost == Spec => []SharesConserved
<1>1. ASSUME FeedInv PROVE SharesConserved
  <2>1. Outstanding(book) = HeldShares(book)
    BY <1>1, RestingSum DEF Outstanding, FeedInv, FeedTypes
  <2> QED
    BY <1>1, <2>1 DEF FeedInv, SharesConserved
<1> QED
  BY <1>1, FeedSafety, PTL

(* The summary run_feed prints makes sense whatever was in the file: its   *)
(* VWAP lies within the prices that can rest and its spread is positive    *)
(* when both sides are there (replay_main.cpp:33-43).                      *)
THEOREM SummaryMakesSense == Spec => []SummaryIsSane
<1>1. ASSUME FeedInv PROVE SummaryIsSane
  <2>1. BlotterSane /\ NotCrossed(book)
    BY <1>1 DEF FeedInv, FeedTypes, BookOK
  <2>2. ASSUME Tracked(book, "buy") # {}, Tracked(book, "sell") # {}
        PROVE  BestAsk(book) > BestBid(book)
    <3>1. BestAsk(book) \in Tracked(book, "sell") /\ BestBid(book) \in Tracked(book, "buy")
      BY <2>2, TouchFacts
    <3>2. BestBid(book) < BestAsk(book)
      BY <2>1, <3>1 DEF NotCrossed
    <3>3. BestAsk(book) \in Int /\ BestBid(book) \in Int
      BY TouchFacts, BookAssumption
    <3> QED
      BY <3>2, <3>3
  <2> QED
    BY <2>1, <2>2 DEF SummaryIsSane, BlotterSane
<1> QED
  BY <1>1, FeedSafety, PTL
=============================================================================
