------------------------------ MODULE OfiStream ------------------------------
(***************************************************************************)
(* The tracker fed with any stream of quotes, with the history its         *)
(* properties speak of.                                                    *)
(***************************************************************************)
EXTENDS FeatureEmit

CONSTANTS
  Prices,  \* prices a quote may show
  MaxSize  \* the largest size at the touch

ASSUME StreamAssumption == Prices \subseteq Nat /\ MaxSize \in Nat

VARIABLES
  last,  \* the quote of the last update, whatever it was
  base,  \* the quote since which both sides have lived at the same prices
  net    \* the increments summed since then

vars == <<trackerVars, last, base, net>>

Quote == [bid_px : Prices, bid_sz : 0 .. MaxSize, ask_px : Prices, ask_sz : 0 .. MaxSize]

SameTouch(p, q) == p.bid_px = q.bid_px /\ p.ask_px = q.ask_px

Init == TrackerInit /\ last = NoQuote /\ base = NoQuote /\ net = 0

Feed(q) ==
  /\ Update(q)
  /\ last' = q
  /\ IF BothSides(last) /\ BothSides(q) /\ SameTouch(last, q)
     THEN base' = base /\ net' = net + ofi'.value
     ELSE base' = q /\ net' = 0

Next == \E q \in Quote : Feed(q)

Spec == Init /\ [][Next]_vars

(* quote_valid is 1 exactly when this update and the one before it both    *)
(* had two live sides: no increment spans a one-sided book, however long   *)
(* ago the last two-sided quote was (FeatureEmit.hpp:57-61, 83-84, 100).   *)
ValidNeverSpansAGap == [][ofi'.valid <=> BothSides(last) /\ BothSides(last')]_vars

(* While the touch stays at its prices, the increments add up to the net   *)
(* change of the bid's size less that of the ask's, over any number of     *)
(* updates: nothing is counted twice or lost (FeatureEmit.hpp:69-75).      *)
Telescopes == net = (last.bid_sz - base.bid_sz) - (last.ask_sz - base.ask_sz)

\* The market seen from the other side: bids as asks, with prices reflected.
Mirror(q) == [bid_px |-> -q.ask_px, bid_sz |-> q.ask_sz,
              ask_px |-> -q.bid_px, ask_sz |-> q.bid_sz]

(* The ask side enters with the opposite sign of the bid side: a market    *)
(* and its mirror image have opposite imbalance (FeatureEmit.hpp:94-97).   *)
MirrorNegates ==
  [][ofi'.valid => Increment(Mirror(prev), Mirror(prev')) = -ofi'.value]_vars
=============================================================================
