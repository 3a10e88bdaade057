----------------------------- MODULE FeatureEmit -----------------------------
(***************************************************************************)
(* OfiTracker of include/FeatureEmit.hpp: the order flow imbalance of each *)
(* update of the top of book, relative to the update before it.            *)
(***************************************************************************)
EXTENDS Integers

VARIABLES
  prev,       \* prev_bid_px_ .. prev_ask_sz_
  have_prev,  \* whether the last update had two live sides
  ofi         \* what the last update returned, and its `valid`

trackerVars == <<prev, have_prev, ofi>>

BothSides(q) == q.bid_sz > 0 /\ q.ask_sz > 0

\* The tracker's fields as constructed.
NoQuote == [bid_px |-> 0, bid_sz |-> 0, ask_px |-> 0, ask_sz |-> 0]

\* Mutants of Increment: an ask that holds its price removes nothing; the ask
\* side enters with the sign of the bid side.
Increment_AskHeld(p, q) ==
    (IF q.bid_px >= p.bid_px THEN q.bid_sz ELSE 0)
  - (IF q.bid_px <= p.bid_px THEN p.bid_sz ELSE 0)
  - (IF q.ask_px <= p.ask_px THEN q.ask_sz ELSE 0)
  + (IF q.ask_px > p.ask_px THEN p.ask_sz ELSE 0)

Increment_SameSign(p, q) ==
    (IF q.bid_px >= p.bid_px THEN q.bid_sz ELSE 0)
  - (IF q.bid_px <= p.bid_px THEN p.bid_sz ELSE 0)
  + (IF q.ask_px <= p.ask_px THEN q.ask_sz ELSE 0)
  - (IF q.ask_px >= p.ask_px THEN p.ask_sz ELSE 0)

\* The pressure at the touch between two quotes.
Increment(p, q) ==
    (IF q.bid_px >= p.bid_px THEN q.bid_sz ELSE 0)
  - (IF q.bid_px <= p.bid_px THEN p.bid_sz ELSE 0)
  - (IF q.ask_px <= p.ask_px THEN q.ask_sz ELSE 0)
  + (IF q.ask_px >= p.ask_px THEN p.ask_sz ELSE 0)

\* What update returns, for a quote with these sides after that past.
Imbalance(q) ==
  LET valid == BothSides(q) /\ have_prev
  IN [value |-> IF valid THEN Increment(prev, q) ELSE 0, valid |-> valid]

\* Mutant of Update: a one-sided book does not break the chain.
Update_ChainKept(q) ==
  /\ ofi' = Imbalance(q)
  /\ have_prev' = (BothSides(q) \/ have_prev)
  /\ prev' = IF BothSides(q) THEN q ELSE prev

\* A one-sided quote breaks the chain; the fields keep the quote before it.
Update(q) ==
  /\ ofi' = Imbalance(q)
  /\ have_prev' = BothSides(q)
  /\ prev' = IF BothSides(q) THEN q ELSE prev

TrackerInit == prev = NoQuote /\ have_prev = FALSE /\ ofi = [value |-> 0, valid |-> FALSE]

\* direction is 1 for a resting bid that was executed, -1 for an ask.
SignedExecutionSize(direction, size) == -direction * size
=============================================================================
