------------------------------ MODULE BookCalls ------------------------------
(***************************************************************************)
(* The order book as its callers see it: each call of the public interface *)
(* is one operator from a book to a book.  A book maps side and price to   *)
(* the FIFO of what rests there.  The operators say at once what the       *)
(* engine computes fill by fill (module OrderBookRefinement states that);  *)
(* LobsterReplay and MarketDataFeed are written in terms of them.          *)
(***************************************************************************)
EXTENDS BookTypes, Fifo, FiniteSetsExt

EmptyBook == [s \in Side |-> [p \in Price |-> <<>>]]

\* The prices with a level: the keys of bids or asks.
Tracked(book, s) == {p \in Price : book[s][p] # <<>>}

\* Everything that rests, with where it rests.
Resting(book) ==
  UNION {{[id |-> book[s][p][i].id, qty |-> book[s][p][i].qty, side |-> s, price |-> p] :
            i \in DOMAIN book[s][p]} : s \in Side, p \in Price}

GetOrderQty(book, id) ==
  IF \E o \in Resting(book) : o.id = id
  THEN (CHOOSE o \in Resting(book) : o.id = id).qty ELSE 0

BestBid(book) == IF Tracked(book, "buy") = {} THEN NO_BID ELSE Max(Tracked(book, "buy"))
BestAsk(book) == IF Tracked(book, "sell") = {} THEN NO_ASK ELSE Min(Tracked(book, "sell"))

\* The price of the i-th level of a side, best first.
PriceAt(book, s, i) ==
  CHOOSE p \in Tracked(book, s) : Cardinality({q \in Tracked(book, s) : Better(s, q, p)}) = i - 1

Size(book, s) == Cardinality(Tracked(book, s))
LevelAt(book, s, i) ==
  [price |-> PriceAt(book, s, i), volume |-> Volume(book[s][PriceAt(book, s, i)])]

\* The first n levels of a side.
Depth(book, s, n) ==
  [i \in 1 .. IF n < Size(book, s) THEN n ELSE Size(book, s) |-> LevelAt(book, s, i)]

-----------------------------------------------------------------------------
\* insert_order's guards, for a LIMIT order.
Insertable(book, id, p, qty) ==
  qty # 0 /\ p \in Price /\ \A o \in Resting(book) : o.id # id

\* Mutant of MatchAt: every level is charged the whole quantity.
MatchAt_NotReduced(book, side, limit, qty, p) ==
  LET opp == Opposite(side)
  IN IF Crosses(side, p, limit) THEN TakeFront(book[opp][p], qty) ELSE book[opp][p]

\* What matching leaves of the opposite level at p: the better levels are taken first.
MatchAt(book, side, limit, qty, p) ==
  LET opp == Opposite(side)
      better == {q \in Tracked(book, opp) : Better(opp, q, p)}
      ahead == SumFunction([q \in better |-> Volume(book[opp][q])])
  IN IF Crosses(side, p, limit) /\ qty > ahead
     THEN TakeFront(book[opp][p], qty - ahead) ELSE book[opp][p]

Available(book, side, limit) ==
  LET opp == Opposite(side)
      crossing == {q \in Tracked(book, opp) : Crosses(side, q, limit)}
  IN SumFunction([q \in crossing |-> Volume(book[opp][q])])

\* insert_order with type LIMIT: match, then rest what is left.
InsertOrder(book, id, side, p, qty) ==
  LET filled == Available(book, side, p)
  IN IF ~Insertable(book, id, p, qty) THEN book
     ELSE [book EXCEPT
            ![Opposite(side)] = [q \in Price |-> MatchAt(book, side, p, qty, q)],
            ![side][p] = IF filled < qty THEN Append(@, [id |-> id, qty |-> qty - filled])
                         ELSE @]

\* The trades that call reports: what each maker lost.
Fills(book, id, side, p, qty) ==
  LET after == InsertOrder(book, id, side, p, qty)
  IN {[maker_id |-> o.id, price |-> o.price, qty |-> o.qty - GetOrderQty(after, o.id)] :
       o \in {o \in Resting(book) : GetOrderQty(after, o.id) # o.qty}}

CancelOrder(book, id) ==
  [s \in Side |-> [p \in Price |-> WithoutId(book[s][p], id)]]

\* reduce_order: in place, or a cancel when nothing would be left.
ReduceOrder(book, id, delta) ==
  IF delta >= GetOrderQty(book, id) THEN CancelOrder(book, id)
  ELSE [s \in Side |-> [p \in Price |->
         [i \in DOMAIN book[s][p] |->
           IF book[s][p][i].id = id THEN [book[s][p][i] EXCEPT !.qty = @ - delta]
                                    ELSE book[s][p][i]]]]
=============================================================================
