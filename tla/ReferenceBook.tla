---------------------------- MODULE ReferenceBook ----------------------------
(***************************************************************************)
(* The abstract specification of the matching engine: the ReferenceBook    *)
(* that tests/test_differential.cpp holds the engine against on random     *)
(* operations.  Each price has a FIFO of (id, quantity) entries; there is  *)
(* no memory, no list, no index into it and no cached volume.  A level     *)
(* exists exactly while its FIFO is not empty.                             *)
(*                                                                         *)
(* An insertion matches one resting entry per step, as the loop of         *)
(* match_into does, so that an implementation that reports its fills one   *)
(* by one can be compared with it fill by fill.                            *)
(***************************************************************************)
EXTENDS BookTypes, Fifo, FiniteSetsExt

VARIABLES
  queue,      \* side -> price -> FIFO of entries: the bids and asks maps
  live,       \* id -> where it rests; its keys are the resting ids
  pc,         \* idle, match or closed
  taker,      \* the order being matched
  remaining,  \* its unfilled quantity
  trades      \* the fills of the current insertion

vars == <<queue, live, pc, taker, remaining, trades>>

NoTaker == "none"
Keys(side) == {p \in Price : queue[side][p] # <<>>}

LiveWithout(id) == [i \in DOMAIN live \ {id} |-> live[i]]

-----------------------------------------------------------------------------
CanFullyFill(side, limit, qty) ==
  LET opp == Opposite(side)
      crossing == {p \in Keys(opp) : Crosses(side, p, limit)}
  IN SumFunction([p \in crossing |-> Volume(queue[opp][p])]) >= qty

Begin(id, price, qty, side, type) ==
  /\ pc' = "match"
  /\ taker' = [id |-> id, side |-> side, type |-> type, qty |-> qty,
               limit |-> LimitOf(type, side, price)]
  /\ remaining' = qty
  /\ UNCHANGED trades

InsertOrder(id, price, qty, side, type) ==
  /\ pc = "idle"
  /\ qty # 0
  /\ type # "MARKET" => price \notin {NO_BID, NO_ASK}
  /\ id \notin DOMAIN live
  /\ type = "FOK" => CanFullyFill(side, LimitOf(type, side, price), qty)
  /\ Begin(id, price, qty, side, type)
  /\ UNCHANGED <<queue, live>>

Matching ==
  /\ remaining > 0
  /\ \E p \in Keys(Opposite(taker.side)) : Crosses(taker.side, p, taker.limit)

\* One iteration of match_into at the best opposite price.
MatchFront ==
  /\ pc = "match" /\ Matching
  /\ \E p \in Price :
       LET opp == Opposite(taker.side)
           front == Head(queue[opp][p])
           fill == IF remaining <= front.qty THEN remaining ELSE front.qty
       IN /\ IsBest(opp, Keys(opp), p)
          /\ remaining' = remaining - fill
          /\ trades' = Append(trades, [taker_id |-> taker.id, maker_id |-> front.id,
                                       price |-> p, qty |-> fill, taker_side |-> taker.side])
          /\ IF fill = front.qty
             THEN /\ queue' = [queue EXCEPT ![opp][p] = Tail(@)]
                  /\ live' = LiveWithout(front.id)
             ELSE /\ queue' = [queue EXCEPT ![opp][p][1].qty = @ - fill]
                  /\ UNCHANGED live
  /\ UNCHANGED <<pc, taker>>

End == pc' = "idle" /\ taker' = NoTaker /\ remaining' = 0 /\ trades' = <<>>

Rest ==
  /\ pc = "match" /\ ~Matching
  /\ remaining > 0 /\ taker.type = "LIMIT"
  /\ queue' = [queue EXCEPT ![taker.side][taker.limit] =
                 Append(@, [id |-> taker.id, qty |-> remaining])]
  /\ live' = [i \in DOMAIN live \cup {taker.id} |->
                IF i = taker.id THEN [price |-> taker.limit, side |-> taker.side]
                                ELSE live[i]]
  /\ End

Discard ==
  /\ pc = "match" /\ ~Matching
  /\ ~(remaining > 0 /\ taker.type = "LIMIT")
  /\ End
  /\ UNCHANGED <<queue, live>>

-----------------------------------------------------------------------------
Erase(id) ==
  /\ queue' = [queue EXCEPT ![live[id].side][live[id].price] = WithoutId(@, id)]
  /\ live' = LiveWithout(id)

CancelOrder(id) ==
  /\ pc = "idle"
  /\ id \in DOMAIN live
  /\ Erase(id)
  /\ UNCHANGED <<pc, taker, remaining, trades>>

\* amend_order, for the entry at position i of the FIFO of id's side and price.
AmendOrder(id, price, qty) ==
  /\ pc = "idle"
  /\ id \in DOMAIN live
  /\ qty # 0 /\ price \notin {NO_BID, NO_ASK}
  /\ LET side == live[id].side
         fifo == queue[side][live[id].price]
     IN \E i \in DOMAIN fifo :
          /\ fifo[i].id = id
          /\ IF price = live[id].price /\ qty <= fifo[i].qty
             THEN /\ queue' = [queue EXCEPT ![side][price][i].qty = qty]
                  /\ UNCHANGED <<live, pc, taker, remaining, trades>>
             ELSE Erase(id) /\ Begin(id, price, qty, side, "LIMIT")

\* The book is destroyed between two operations.
Close ==
  /\ pc = "idle"
  /\ pc' = "closed"
  /\ queue' = [s \in Side |-> [p \in Price |-> <<>>]]
  /\ live' = [i \in {} |-> NoTaker]
  /\ UNCHANGED <<taker, remaining, trades>>

-----------------------------------------------------------------------------
Init ==
  /\ queue = [s \in Side |-> [p \in Price |-> <<>>]]
  /\ live = [i \in {} |-> NoTaker]
  /\ pc = "idle"
  /\ taker = NoTaker
  /\ remaining = 0
  /\ trades = <<>>

Next ==
  \/ \E id \in OrderIds, price \in PriceField, qty \in QtyField :
       \/ \E side \in Side, type \in OrderType : InsertOrder(id, price, qty, side, type)
       \/ AmendOrder(id, price, qty)
  \/ \E id \in OrderIds : CancelOrder(id)
  \/ MatchFront \/ Rest \/ Discard
  \/ Close

Spec == Init /\ [][Next]_vars

\* An insertion that has begun returns.
FairSpec == Spec /\ WF_vars(MatchFront \/ Rest \/ Discard)
=============================================================================
