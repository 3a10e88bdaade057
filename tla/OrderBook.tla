------------------------------ MODULE OrderBook ------------------------------
(***************************************************************************)
(* The matching engine of src/OrderBook.cpp and include/OrderBook.hpp:     *)
(* price levels that are intrusive doubly-linked lists of Order objects,   *)
(* an index from order id to object, and the memory pool the objects live  *)
(* in.                                                                     *)
(*                                                                         *)
(* Memory is explicit: an order is a record at an address, next and prev   *)
(* are addresses, and an address whose object was destroyed holds RawOrder *)
(* until the pool hands it out again.  A call of the public interface is   *)
(* one step, except insert_order, whose matching loop is modelled fill by  *)
(* fill: Fill ends where the trade handler runs (OrderBook.cpp:31), so the *)
(* state after it is what a handler observes, and RetireMaker or KeepMaker *)
(* is the rest of the loop body.                                           *)
(***************************************************************************)
EXTENDS MemoryPool, BookTypes, FiniteSetsExt

VARIABLES
  mem,        \* the Order object at each address
  levels,     \* bids and asks: side -> price -> PriceLevel, keys = DOMAIN
  order_map,  \* id -> address, NULL when the id is not a key
  pc,         \* where the engine is: idle, match, settle, teardown, destroyed
  taker,      \* the arguments of the insert_order in progress, else NULL
  remaining,  \* match_incoming's qty
  hit,        \* the locals resting and ait->first across the handler call
  trades      \* what the handler has been given during the call in progress

bookVars == <<mem, levels, order_map, pc, taker, remaining, hit, trades>>
vars == <<mem, levels, order_map, pc, taker, remaining, hit, trades, poolVars>>

-----------------------------------------------------------------------------
Pointer == Addr \cup {NULL}

Order == [id : OrderIds, price : Price, qty : QtyField, side : Side,
          next : Pointer, prev : Pointer]

\* What an address holds while no object lives there.
RawOrder == [id |-> NULL, price |-> 0, qty |-> 0, side |-> NULL,
             next |-> NULL, prev |-> NULL]

PriceLevel == [total_volume : Int, order_count : Int, head : Pointer, tail : Pointer]

NewLevel == [total_volume |-> 0, order_count |-> 0, head |-> NULL, tail |-> NULL]

Taker == [id : OrderIds, side : Side, type : OrderType, limit : PriceField, qty : Qty]

\* order->next, null-safe.
NextOf(a) == IF a = NULL THEN NULL ELSE mem[a].next

-----------------------------------------------------------------------------
(* The side maps and the intrusive lists.                                  *)

PutLevel(map, p, level) ==
  [q \in DOMAIN map \cup {p} |-> IF q = p THEN level ELSE map[q]]

\* Store a level, or erase its key when it has just emptied.
PutOrErase(map, p, level) ==
  IF level.order_count = 0 THEN [q \in DOMAIN map \ {p} |-> map[q]]
                           ELSE PutLevel(map, p, level)

\* PriceLevel::append_order, its effect on the level and on the objects; the order
\* is constructed at address a with its links as append_order leaves them.
Appended(level, a, qty) ==
  [total_volume |-> level.total_volume + qty,
   order_count  |-> level.order_count + 1,
   head         |-> IF level.tail = NULL THEN a ELSE level.head,
   tail         |-> a]

LinkedAt(a, order) ==
  [x \in Addr |-> IF x = a THEN order
                  ELSE IF x = order.prev THEN [mem[x] EXCEPT !.next = a]
                  ELSE mem[x]]

\* PriceLevel::remove_order, its effect on the level and on the objects.  Every
\* caller destroys the order next, so its address becomes raw.
Removed(level, a) ==
  [total_volume |-> level.total_volume - mem[a].qty,
   order_count  |-> level.order_count - 1,
   head         |-> IF a = level.head THEN mem[a].next ELSE level.head,
   tail         |-> IF a = level.tail THEN mem[a].prev ELSE level.tail]

\* Mutant of UnlinkedFrom: order->next->prev is left pointing at the order.
UnlinkedFrom_OneWay(a) ==
  [x \in Addr |->
    IF x = a THEN RawOrder
    ELSE [mem[x] EXCEPT !.next = IF x = mem[a].prev THEN mem[a].next ELSE @]]

UnlinkedFrom(a) ==
  [x \in Addr |->
    IF x = a THEN RawOrder
    ELSE [mem[x] EXCEPT !.next = IF x = mem[a].prev THEN mem[a].next ELSE @,
                        !.prev = IF x = mem[a].next THEN mem[a].prev ELSE @]]

\* Mutant of Shrink: the level's cached volume is not kept in sync.
Shrink_VolumeForgotten(a, p, new_qty) ==
  /\ mem' = [mem EXCEPT ![a].qty = new_qty]
  /\ UNCHANGED levels

\* An in-place change of size, of the object and of its level's cached volume.
Shrink(a, p, new_qty) ==
  LET s == mem[a].side IN
  /\ mem' = [mem EXCEPT ![a].qty = new_qty]
  /\ levels' = [levels EXCEPT ![s][p].total_volume = @ - (mem[a].qty - new_qty)]

\* Take the order at a out of the book: unlink it from its level, erase the level
\* if that emptied it, erase its id, destroy it.  The level is looked up by side
\* and price and must exist.
RemoveOrder(a) ==
  LET s == mem[a].side
      p == mem[a].price
  IN /\ levels' = [levels EXCEPT ![s] = PutOrErase(@, p, Removed(@[p], a))]
     /\ mem' = UnlinkedFrom(a)
     /\ order_map' = [order_map EXCEPT ![mem[a].id] = NULL]
     /\ Deallocate(a)

\* Mutant of AppendOrder: the order is put at the front of its level.
AppendOrder_AtFront(id, s, p, qty) ==
  LET level == IF p \in DOMAIN levels[s] THEN levels[s][p] ELSE NewLevel
      order == [id |-> id, price |-> p, qty |-> qty, side |-> s,
                next |-> level.head, prev |-> NULL]
  IN \E a \in Addr :
       /\ Allocate(a)
       /\ order_map' = [order_map EXCEPT ![id] = a]
       /\ levels' = [levels EXCEPT ![s] = PutLevel(@, p,
            [Appended(level, a, qty) EXCEPT
               !.head = a, !.tail = IF level.tail = NULL THEN a ELSE level.tail])]
       /\ mem' = [x \in Addr |-> IF x = a THEN order
                                 ELSE IF x = level.head THEN [mem[x] EXCEPT !.prev = a]
                                 ELSE mem[x]]

\* Construct an order, index it, and append it to its level, created if absent.
AppendOrder(id, s, p, qty) ==
  LET level == IF p \in DOMAIN levels[s] THEN levels[s][p] ELSE NewLevel
      order == [id |-> id, price |-> p, qty |-> qty, side |-> s,
                next |-> NULL, prev |-> level.tail]
  IN \E a \in Addr :
       /\ Allocate(a)
       /\ order_map' = [order_map EXCEPT ![id] = a]
       /\ levels' = [levels EXCEPT ![s] = PutLevel(@, p, Appended(level, a, qty))]
       /\ mem' = LinkedAt(a, order)

-----------------------------------------------------------------------------
(* insert_order                                                            *)

\* Mutant of CanFullyFill: volume beyond the limit counts too.
CanFullyFill_AnyPrice(side, limit, qty) ==
  LET opp == levels[Opposite(side)]
  IN SumFunction([p \in DOMAIN opp |-> opp[p].total_volume]) >= qty

\* FOK's read-only check, from the cached volumes of the levels that cross.  The
\* sum is uint64_t and cannot overflow; the early return does not change it.
CanFullyFill(side, limit, qty) ==
  LET opp == levels[Opposite(side)]
      crossing == {p \in DOMAIN opp : Crosses(side, p, limit)}
  IN SumFunction([p \in crossing |-> opp[p].total_volume]) >= qty

\* Mutant of Accepted: a live id may be inserted again, orphaning its order.
Accepted_Duplicate(id, price, qty, side, type) ==
  /\ qty # 0
  /\ type # "MARKET" => price \notin {NO_BID, NO_ASK}
  /\ type = "FOK" => CanFullyFill(side, LimitOf(type, side, price), qty)

Accepted(id, price, qty, side, type) ==
  /\ qty # 0
  /\ type # "MARKET" => price \notin {NO_BID, NO_ASK}
  /\ order_map[id] = NULL
  /\ type = "FOK" => CanFullyFill(side, LimitOf(type, side, price), qty)

StartMatching(id, price, qty, side, type) ==
  /\ pc' = "match"
  /\ taker' = [id |-> id, side |-> side, type |-> type, qty |-> qty,
               limit |-> LimitOf(type, side, price)]
  /\ remaining' = qty

InsertOrder(id, price, qty, side, type) ==
  /\ pc = "idle"
  /\ Accepted(id, price, qty, side, type)
  /\ StartMatching(id, price, qty, side, type)
  /\ UNCHANGED <<mem, levels, order_map, hit, trades, poolVars>>

RejectOrder(id, price, qty, side, type) ==
  /\ pc = "idle"
  /\ ~Accepted(id, price, qty, side, type)
  /\ UNCHANGED vars

-----------------------------------------------------------------------------
(* match_incoming                                                          *)

\* The loop condition.  The best price crosses iff some price does.
Matching ==
  /\ remaining > 0
  /\ \E p \in DOMAIN levels[Opposite(taker.side)] : Crosses(taker.side, p, taker.limit)

\* Mutants of FillAt: the trade reports the maker's whole size; the loop does not
\* advance past a maker smaller than what is left.
FillAt_ReportsMakerSize(p) ==
  LET opp == Opposite(taker.side)
      resting == levels[opp][p].head
      fill == IF remaining <= mem[resting].qty THEN remaining ELSE mem[resting].qty
  IN /\ remaining' = remaining - fill
     /\ mem' = [mem EXCEPT ![resting].qty = @ - fill]
     /\ levels' = [levels EXCEPT ![opp][p].total_volume = @ - fill]
     /\ trades' = Append(trades, [taker_id |-> taker.id, maker_id |-> mem[resting].id,
                                  price |-> p, qty |-> mem[resting].qty,
                                  taker_side |-> taker.side])
     /\ hit' = [order |-> resting, price |-> p]

FillAt_Stalls(p) ==
  LET opp == Opposite(taker.side)
      resting == levels[opp][p].head
      fill == IF remaining <= mem[resting].qty THEN remaining ELSE 0
  IN /\ remaining' = remaining - fill
     /\ mem' = [mem EXCEPT ![resting].qty = @ - fill]
     /\ levels' = [levels EXCEPT ![opp][p].total_volume = @ - fill]
     /\ trades' = IF fill = 0 THEN trades
                  ELSE Append(trades, [taker_id |-> taker.id, maker_id |-> mem[resting].id,
                                       price |-> p, qty |-> fill, taker_side |-> taker.side])
     /\ hit' = [order |-> resting, price |-> p]

\* The loop body up to and including the handler call.
FillAt(p) ==
  LET opp == Opposite(taker.side)
      resting == levels[opp][p].head
      fill == IF remaining <= mem[resting].qty THEN remaining ELSE mem[resting].qty
  IN /\ remaining' = remaining - fill
     /\ mem' = [mem EXCEPT ![resting].qty = @ - fill]
     /\ levels' = [levels EXCEPT ![opp][p].total_volume = @ - fill]
     /\ trades' = Append(trades, [taker_id |-> taker.id, maker_id |-> mem[resting].id,
                                  price |-> p, qty |-> fill, taker_side |-> taker.side])
     /\ hit' = [order |-> resting, price |-> p]

Fill ==
  /\ pc = "match"
  /\ Matching
  /\ \E p \in Price : /\ IsBest(Opposite(taker.side), DOMAIN levels[Opposite(taker.side)], p)
                      /\ FillAt(p)
  /\ pc' = "settle"
  /\ UNCHANGED <<order_map, taker, poolVars>>

\* The rest of the loop body, for a maker that is used up.
RetireMaker ==
  LET opp == Opposite(taker.side)
      a == hit.order
      p == hit.price
  IN /\ pc = "settle"
     /\ mem[a].qty = 0
     /\ levels' = [levels EXCEPT ![opp] = PutOrErase(@, p, Removed(@[p], a))]
     /\ mem' = UnlinkedFrom(a)
     /\ order_map' = [order_map EXCEPT ![mem[a].id] = NULL]
     /\ Deallocate(a)
     /\ hit' = NULL
     /\ pc' = "match"
     /\ UNCHANGED <<taker, remaining, trades>>

\* ... and for one that is not: its level cannot be empty.
KeepMaker ==
  /\ pc = "settle"
  /\ mem[hit.order].qty # 0
  /\ hit' = NULL
  /\ pc' = "match"
  /\ UNCHANGED <<mem, levels, order_map, taker, remaining, trades, poolVars>>

Return ==
  /\ pc' = "idle"
  /\ taker' = NULL
  /\ remaining' = 0
  /\ trades' = <<>>
  /\ UNCHANGED hit

\* Only a LIMIT order's remainder rests.
RestRemainder ==
  /\ pc = "match" /\ ~Matching
  /\ remaining > 0 /\ taker.type = "LIMIT"
  /\ AppendOrder(taker.id, taker.side, taker.limit, remaining)
  /\ Return

DiscardRemainder ==
  /\ pc = "match" /\ ~Matching
  /\ ~(remaining > 0 /\ taker.type = "LIMIT")
  /\ Return
  /\ UNCHANGED <<mem, levels, order_map, poolVars>>

-----------------------------------------------------------------------------
(* cancel_order, amend_order, reduce_order                                 *)

CancelOrder(id) ==
  /\ pc = "idle"
  /\ order_map[id] # NULL
  /\ RemoveOrder(order_map[id])
  /\ UNCHANGED <<pc, taker, remaining, hit, trades>>

\* Mutant of Amendable: a zero size is let through.
Amendable_ToZero(id, price, qty) ==
  order_map[id] # NULL /\ price \notin {NO_BID, NO_ASK}

Amendable(id, price, qty) ==
  /\ order_map[id] # NULL
  /\ qty # 0 /\ price \notin {NO_BID, NO_ASK}

\* Mutant of KeepsPriority: holding the size loses priority.
KeepsPriority_OnlySmaller(id, price, qty) ==
  price = mem[order_map[id]].price /\ qty < mem[order_map[id]].qty

KeepsPriority(id, price, qty) ==
  price = mem[order_map[id]].price /\ qty <= mem[order_map[id]].qty

AmendInPlace(id, price, qty) ==
  /\ pc = "idle"
  /\ Amendable(id, price, qty)
  /\ KeepsPriority(id, price, qty)
  /\ Shrink(order_map[id], price, qty)
  /\ UNCHANGED <<order_map, pc, taker, remaining, hit, trades, poolVars>>

\* Cancel, then the entry of insert_order: its guards hold for an amendable LIMIT
\* order whose id has just been erased.
AmendRequeue(id, price, qty) ==
  /\ pc = "idle"
  /\ Amendable(id, price, qty)
  /\ ~KeepsPriority(id, price, qty)
  /\ RemoveOrder(order_map[id])
  /\ StartMatching(id, price, qty, mem[order_map[id]].side, "LIMIT")
  /\ UNCHANGED <<hit, trades>>

\* Mutant of ReducePartial: only an exact reduction removes the order.
ReducePartial_Underflow(id, qty_delta) ==
  /\ pc = "idle"
  /\ order_map[id] # NULL
  /\ qty_delta # 0
  /\ qty_delta # mem[order_map[id]].qty
  /\ Shrink(order_map[id], mem[order_map[id]].price, mem[order_map[id]].qty - qty_delta)
  /\ UNCHANGED <<order_map, pc, taker, remaining, hit, trades, poolVars>>

ReducePartial(id, qty_delta) ==
  /\ pc = "idle"
  /\ order_map[id] # NULL
  /\ qty_delta # 0
  /\ qty_delta < mem[order_map[id]].qty
  /\ Shrink(order_map[id], mem[order_map[id]].price, mem[order_map[id]].qty - qty_delta)
  /\ UNCHANGED <<order_map, pc, taker, remaining, hit, trades, poolVars>>

ReduceAll(id, qty_delta) ==
  /\ order_map[id] # NULL
  /\ qty_delta # 0
  /\ qty_delta >= mem[order_map[id]].qty
  /\ CancelOrder(id)

\* amend_order's early returns; an unknown id in cancel_order or reduce_order and
\* a zero qty_delta do the same.
IgnoreRequest(id, price, qty) ==
  /\ pc = "idle"
  /\ ~Amendable(id, price, qty)
  /\ UNCHANGED vars

-----------------------------------------------------------------------------
(* ~OrderBook: every order reachable from order_map goes back to the pool, *)
(* in the order the hash map yields them, then the levels are freed.       *)

Destroy ==
  /\ pc = "idle"
  /\ pc' = "teardown"
  /\ UNCHANGED <<mem, levels, order_map, taker, remaining, hit, trades, poolVars>>

DestroyOrder(id) ==
  /\ pc = "teardown"
  /\ order_map[id] # NULL
  /\ Deallocate(order_map[id])
  /\ mem' = [mem EXCEPT ![order_map[id]] = RawOrder]
  /\ order_map' = [order_map EXCEPT ![id] = NULL]
  /\ UNCHANGED <<levels, pc, taker, remaining, hit, trades>>

NoLevels == [p \in {} |-> NewLevel]

DestroyLevels ==
  /\ pc = "teardown"
  /\ \A id \in OrderIds : order_map[id] = NULL
  /\ levels' = [s \in Side |-> NoLevels]
  /\ pc' = "destroyed"
  /\ UNCHANGED <<mem, order_map, taker, remaining, hit, trades, poolVars>>

Destroyed == pc = "destroyed" /\ UNCHANGED vars

-----------------------------------------------------------------------------
(* What a caller reads: the first key of a side, the size of an order, and *)
(* the depth of a side from the levels' cached fields.                     *)

GetBestBid ==
  IF DOMAIN levels["buy"] = {} THEN NO_BID
  ELSE CHOOSE p \in Price : IsBest("buy", DOMAIN levels["buy"], p)

GetBestAsk ==
  IF DOMAIN levels["sell"] = {} THEN NO_ASK
  ELSE CHOOSE p \in Price : IsBest("sell", DOMAIN levels["sell"], p)

GetOrderQty(id) == IF order_map[id] = NULL THEN 0 ELSE mem[order_map[id]].qty

\* The keys of a side as its map's iterator meets them.
IterationOrder(s) ==
  CHOOSE keys \in [1 .. Cardinality(DOMAIN levels[s]) -> DOMAIN levels[s]] :
    \A i, j \in DOMAIN keys : i < j => Better(s, keys[i], keys[j])

\* Up to n levels of a side, in that order.
Snapshot(s, n) ==
  LET keys == IterationOrder(s)
      size == Cardinality(DOMAIN levels[s])
  IN [i \in 1 .. IF n < size THEN n ELSE size |->
       [price |-> keys[i], volume |-> levels[s][keys[i]].total_volume,
        order_count |-> levels[s][keys[i]].order_count]]

-----------------------------------------------------------------------------
Init ==
  /\ PoolInit
  /\ mem = [a \in Addr |-> RawOrder]
  /\ levels = [s \in Side |-> NoLevels]
  /\ order_map = [id \in OrderIds |-> NULL]
  /\ pc = "idle"
  /\ taker = NULL
  /\ remaining = 0
  /\ hit = NULL
  /\ trades = <<>>

\* What the single thread does without waiting for its caller.
EngineStep ==
  \/ Fill \/ RetireMaker \/ KeepMaker
  \/ RestRemainder \/ DiscardRemainder
  \/ \E id \in OrderIds : DestroyOrder(id)
  \/ DestroyLevels

CallerStep ==
  \/ \E id \in OrderIds, price \in PriceField, qty \in QtyField,
        side \in Side, type \in OrderType :
       \/ InsertOrder(id, price, qty, side, type)
       \/ RejectOrder(id, price, qty, side, type)
  \/ \E id \in OrderIds : CancelOrder(id)
  \/ \E id \in OrderIds, price \in PriceField, qty \in QtyField :
       \/ AmendInPlace(id, price, qty)
       \/ AmendRequeue(id, price, qty)
       \/ IgnoreRequest(id, price, qty)
  \/ \E id \in OrderIds, qty_delta \in QtyField :
       \/ ReducePartial(id, qty_delta)
       \/ ReduceAll(id, qty_delta)
  \/ Destroy

Next == EngineStep \/ CallerStep \/ Destroyed

Spec == Init /\ [][Next]_vars

FairSpec == Spec /\ WF_vars(EngineStep)

-----------------------------------------------------------------------------
(* What the correctness of the book consists of.                           *)

\* The level lists may be read: teardown frees the orders before the levels.
Open == pc # "teardown"

\* The orders that belong to a level, by their own fields.
OrdersAt(s, p) == {a \in live : mem[a].side = s /\ mem[a].price = p}

InCall == pc \in {"match", "settle"}

StoreTypeOK ==
  /\ PoolTypeOK
  /\ mem \in [Addr -> Order \cup {RawOrder}]
  /\ \A a \in Addr : IF a \in live THEN mem[a] \in Order ELSE mem[a] = RawOrder
  /\ DOMAIN levels = Side
  /\ \A s \in Side : /\ DOMAIN levels[s] \subseteq Price
                     /\ levels[s] \in [DOMAIN levels[s] -> PriceLevel]
  /\ order_map \in [OrderIds -> Pointer]

CallTypeOK ==
  /\ pc \in {"idle", "match", "settle", "teardown", "destroyed"}
  /\ IF InCall THEN taker \in Taker ELSE taker = NULL
  /\ remaining \in QtyField
  /\ IF pc = "settle" THEN hit \in [order : Addr, price : Price] ELSE hit = NULL
  /\ trades \in Seq(Trade)

(* Type invariant.  A constructed Order lives exactly at the live          *)
(* addresses, and the locals of insert_order are set only during a call.   *)
TypeOK == StoreTypeOK /\ CallTypeOK

(* No resting bid reaches a resting ask, not even between two fills: an    *)
(* aggressor rests only when nothing crosses it (OrderBook.cpp:18, 117).   *)
Uncrossed ==
  Open => \A b \in DOMAIN levels["buy"], a \in DOMAIN levels["sell"] : b < a

(* order_map and the live objects are each other's inverse: every key      *)
(* points at the live order with that id and no live order is unreachable  *)
(* for a cancel or for the destructor (OrderBook.cpp:98-102).              *)
IndexAgrees ==
  /\ \A id \in OrderIds : order_map[id] # NULL =>
       order_map[id] \in live /\ mem[order_map[id]].id = id
  /\ \A a \in live : order_map[mem[a].id] = a

\* q lists the orders of a level from head to tail.
Threads(q, s, p) ==
  LET level == levels[s][p]
      n == level.order_count
  IN /\ \A a \in OrdersAt(s, p) : \E i \in 1 .. n : q[i] = a
     /\ \A i, j \in 1 .. n : q[i] = q[j] => i = j
     /\ level.head = q[1] /\ level.tail = q[n]
     /\ \A i \in 1 .. n :
          /\ mem[q[i]].next = IF i = n THEN NULL ELSE q[i + 1]
          /\ mem[q[i]].prev = IF i = 1 THEN NULL ELSE q[i - 1]

(* Every level that is a key is a proper non-empty queue of order_count    *)
(* orders: some sequence of exactly the orders of that side and price,     *)
(* each once, begins at head, ends at tail and is what both next and prev  *)
(* follow.  Every order belongs to such a level                            *)
(* (OrderBook.hpp:36-60, 97-98).                                           *)
QueuesWellFormed ==
  Open =>
    /\ \A s \in Side : \A p \in DOMAIN levels[s] :
         /\ levels[s][p].order_count > 0
         /\ \E q \in [1 .. levels[s][p].order_count -> OrdersAt(s, p)] : Threads(q, s, p)
    /\ \A a \in live : mem[a].price \in DOMAIN levels[mem[a].side]

(* The cached volume and count of every level are those of its orders,     *)
(* also at the moment a trade handler runs: FOK's check, the erasure of    *)
(* emptied levels and the depth snapshots all read the cache               *)
(* (OrderBook.cpp:26, 84, 189, 223).                                       *)
CachesExact ==
  Open => \A s \in Side : \A p \in DOMAIN levels[s] :
    /\ levels[s][p].total_volume = SumFunction([a \in OrdersAt(s, p) |-> mem[a].qty])
    /\ levels[s][p].order_count = Cardinality(OrdersAt(s, p))

\* The matching loop is over and the call is about to rest or discard.
Matched == pc = "match" /\ ~Matching

(* When matching is over, a FOK order is filled whole, and a MARKET order  *)
(* with anything left has emptied the other side (OrderBook.hpp:77-83).    *)
TimeInForce ==
  Matched =>
    /\ taker.type = "FOK" => remaining = 0
    /\ taker.type = "MARKET" /\ remaining > 0 => DOMAIN levels[Opposite(taker.side)] = {}

(* The fills of a call account for the taker's quantity exactly: none is   *)
(* empty, none is against the taker itself or twice against one maker, and *)
(* with the remainder they add up to what was asked.                       *)
FillsAddUp ==
  InCall =>
    /\ remaining + SumFunction([i \in DOMAIN trades |-> trades[i].qty]) = taker.qty
    /\ \A i \in DOMAIN trades :
         /\ trades[i].qty > 0
         /\ trades[i].maker_id # taker.id
         /\ \A j \in 1 .. i - 1 : trades[j].maker_id # trades[i].maker_id

(* Price priority of the reported fills: each is within the taker's limit, *)
(* a later one is never at a better price than an earlier one, no price    *)
(* better than the last fill's is left on the book, and a maker is left    *)
(* behind only when it is used up.                                         *)
PricePriority ==
  InCall =>
    LET opp == Opposite(taker.side) IN
    \A i \in DOMAIN trades :
      /\ Crosses(taker.side, trades[i].price, taker.limit)
      /\ \A j \in 1 .. i - 1 :
           /\ ~Better(opp, trades[i].price, trades[j].price)
           /\ order_map[trades[j].maker_id] = NULL
      /\ \A p \in DOMAIN levels[opp] : ~Better(opp, p, trades[i].price)

(* The destructor leaves no live object behind, which the pool's own       *)
(* destructor counts on (MemoryPool.hpp:25-28, OrderBook.cpp:4-9).         *)
NoLeak == pc = "destroyed" => live = {}

-----------------------------------------------------------------------------
\* The addresses met by following next from a level's head, order_count of them.
QueueAt(s, p) ==
  LET level == levels[s][p]
      walk[i \in 1 .. level.order_count] ==
        IF i = 1 THEN level.head ELSE NextOf(walk[i - 1])
  IN walk

IdsAt(s, p) ==
  IF p \in DOMAIN levels[s]
  THEN [i \in DOMAIN QueueAt(s, p) |-> mem[QueueAt(s, p)[i]].id]
  ELSE <<>>

\* `new` keeps the order of the elements it has from `old`, ahead of all others.
KeepsOrder(old, new) ==
  \A i, j \in DOMAIN new : \A n \in DOMAIN old :
    i < j /\ new[j] = old[n] => \E m \in 1 .. n - 1 : new[i] = old[m]

(* Time priority: no step lets an order at a price overtake another that   *)
(* was there before it.  Whatever leaves from the middle of a queue, the   *)
(* rest keep their order, and who arrives goes to the back                 *)
(* (OrderBook.hpp:35, 128-134, 139).                                       *)
TimePriority ==
  [][Open => \A s \in Side : \A p \in Price : KeepsOrder(IdsAt(s, p), IdsAt(s, p)')]_vars

(* Every insert_order returns: the matching loop and what follows it       *)
(* terminate, given only that the single thread keeps running.             *)
CallReturns == InCall ~> pc = "idle"

-----------------------------------------------------------------------------
(* The inductive invariant: what every operation of the book preserves.    *)

\* The maker the handler is looking at: the head of the best level, which crosses.
HitIsFront ==
  LET opp == Opposite(taker.side)
      p == hit.price
  IN /\ IsBest(opp, DOMAIN levels[opp], p)
     /\ Crosses(taker.side, p, taker.limit)
     /\ hit.order = levels[opp][p].head

(* The locals of a call in progress agree with the book: the taker's id is *)
(* not resting, the handler's maker is at the front of the best level, and *)
(* no order but that maker ever has size zero (OrderBook.cpp:19-36, 102).  *)
InFlight ==
  /\ InCall => /\ order_map[taker.id] = NULL
               /\ remaining <= taker.qty
               /\ taker.type = "LIMIT" => taker.limit \in Price
  /\ pc = "settle" => HitIsFront
  /\ \A a \in live : mem[a].qty = 0 => pc = "settle" /\ a = hit.order

StoreInv ==
  /\ StoreTypeOK /\ SlotConservation /\ HeapRouting
  /\ IndexAgrees /\ QueuesWellFormed /\ Uncrossed

BookInv == StoreInv /\ CallTypeOK /\ InFlight /\ NoLeak
=============================================================================
