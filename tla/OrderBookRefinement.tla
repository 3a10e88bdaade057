------------------------ MODULE OrderBookRefinement -------------------------
(***************************************************************************)
(* The engine implements the reference book.  The mapping reads each       *)
(* level's list from its head; the maker a handler is looking at counts as *)
(* gone once it is used up, although the engine unlinks it only after the  *)
(* handler returns.  reduce_order has no counterpart in the reference: a   *)
(* partial reduction must be an amend in place, and a full one a cancel.   *)
(* The same reading of the levels says what a whole call comes to in terms *)
(* of BookCalls, in which the callers of the book are modelled.            *)
(***************************************************************************)
EXTENDS OrderBook

\* The FIFO at a price, without a used-up maker, which can only be at its head.
FifoAt(s, p) ==
  IF p \notin DOMAIN levels[s] \/ ~Open THEN <<>>
  ELSE LET q == QueueAt(s, p)
           fifo == [i \in DOMAIN q |-> [id |-> mem[q[i]].id, qty |-> mem[q[i]].qty]]
       IN IF fifo[1].qty = 0 THEN Tail(fifo) ELSE fifo

RestingIds ==
  {id \in OrderIds : Open /\ order_map[id] # NULL /\ mem[order_map[id]].qty > 0}

Queue == [s \in Side |-> [p \in Price |-> FifoAt(s, p)]]

Reference == INSTANCE ReferenceBook WITH
  queue <- Queue,
  live <- [id \in RestingIds |->
            [price |-> mem[order_map[id]].price, side |-> mem[order_map[id]].side]],
  pc <- CASE pc = "settle" -> "match"
          [] pc \in {"teardown", "destroyed"} -> "closed"
          [] OTHER -> pc,
  taker <- IF InCall THEN taker ELSE "none"

ImplementsReference == Reference!Spec

-----------------------------------------------------------------------------
Calls == INSTANCE BookCalls

\* What the call in progress, a LIMIT order, still has to do to the book.
Outcome == Calls!InsertOrder(Queue, taker.id, taker.side, taker.limit, remaining)
Outstanding == Calls!Fills(Queue, taker.id, taker.side, taker.limit, remaining)
Limit == InCall /\ taker.type = "LIMIT"

(* The callers' view of a call is right.  The book that the loop of an     *)
(* insertion leaves, fill by fill, is from its first step to its last the  *)
(* one that InsertOrder gives at once, and a call begins only if that      *)
(* accepts it; any other call that changes the open book takes shares from *)
(* one order only, or all of it, and leaves the others as and where they   *)
(* are (OrderBook.cpp:18-37, 91-166, 201-225).                             *)
ResultsAgree ==
  [][/\ Limit => Outcome = IF InCall' THEN Outcome' ELSE Queue'
     /\ ~InCall /\ Limit' =>
          Calls!Insertable(Queue', taker'.id, taker'.limit, remaining')
     /\ pc = "idle" /\ pc' = "idle" =>
          \E id \in OrderIds :
            \/ Queue' = Calls!CancelOrder(Queue, id)
            \/ \E n \in QtyField : Queue' = Calls!ReduceOrder(Queue, id, n)]_vars

(* Each trade that the loop reports is one of the fills that were          *)
(* outstanding, no fill is outstanding after its report, and none when the *)
(* call returns (OrderBook.cpp:19-31).                                     *)
FillsAgree ==
  [][Limit =>
       LET reported == {trades'[i] : i \in DOMAIN trades' \ DOMAIN trades}
       IN Outstanding = {[maker_id |-> t.maker_id, price |-> t.price, qty |-> t.qty] :
                           t \in reported}
                        \cup IF InCall' THEN Outstanding' ELSE {}]_vars

(* What callers read is what rests.  Whenever no trade handler is running, *)
(* the snapshot of a side, made from the iteration order of its map and    *)
(* the cached fields of its levels, is the one that BookCalls computes     *)
(* from the orders themselves: the same prices, best first and none        *)
(* missing, the volume and the number of the orders at each.  The best     *)
(* prices and the size of an order by its id agree as well                 *)
(* (OrderBook.hpp:166-167, 184-197, 214-222).                              *)
SnapshotsAgree ==
  Open /\ pc # "settle" =>
    /\ \A s \in Side, n \in 0 .. Cardinality(Price) :
         Snapshot(s, n) =
           [i \in DOMAIN Calls!Depth(Queue, s, n) |->
             LET level == Calls!Depth(Queue, s, n)[i]
             IN [price |-> level.price, volume |-> level.volume,
                 order_count |-> Len(Queue[s][level.price])]]
    /\ GetBestBid = Calls!BestBid(Queue) /\ GetBestAsk = Calls!BestAsk(Queue)
    /\ \A id \in OrderIds : GetOrderQty(id) = Calls!GetOrderQty(Queue, id)
=============================================================================
