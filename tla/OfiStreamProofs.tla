--------------------------- MODULE OfiStreamProofs ---------------------------
(***************************************************************************)
(* The order flow imbalance of any stream of quotes, for any prices and    *)
(* sizes.                                                                  *)
(***************************************************************************)
EXTENDS OfiStream, TLAPS

\* The chain is kept by an update with two sides, whose quote is then in the fields.
Remembered ==
  /\ have_prev <=> BothSides(last)
  /\ have_prev => prev = last

StreamTypes ==
  /\ have_prev \in BOOLEAN
  /\ prev \in Quote \cup {NoQuote}
  /\ last \in Quote \cup {NoQuote} /\ base \in Quote \cup {NoQuote}
  /\ net \in Int

StreamInv == StreamTypes /\ Remembered /\ Telescopes

(* The fields of a quote are numbers, of no quote included.                *)
LEMMA QuoteFields ==
  ASSUME NEW q \in Quote \cup {NoQuote}
  PROVE  /\ q.bid_px \in Int /\ q.ask_px \in Int
         /\ q.bid_sz \in Nat /\ q.ask_sz \in Nat
<1>1. CASE q \in Quote
  <2>1. /\ q.bid_px \in Prices /\ q.ask_px \in Prices
        /\ q.bid_sz \in 0 .. MaxSize /\ q.ask_sz \in 0 .. MaxSize
    BY <1>1 DEF Quote
  <2>2. q.bid_px \in Int /\ q.ask_px \in Int
    <3>1. \A x \in Prices : x \in Int
      BY StreamAssumption
    <3> QED BY <2>1, <3>1, Zenon
  <2>3. q.bid_sz \in Nat /\ q.ask_sz \in Nat
    BY <2>1, StreamAssumption
  <2> QED BY <2>2, <2>3
<1>2. CASE q = NoQuote
  BY <1>2 DEF NoQuote
<1> QED BY <1>1, <1>2

(* An increment between two quotes is a number (FeatureEmit.hpp:83-93).    *)
LEMMA IncrementIsInt ==
  ASSUME NEW p \in Quote \cup {NoQuote}, NEW q \in Quote \cup {NoQuote}
  PROVE  Increment(p, q) \in Int
<1>1. /\ p.bid_sz \in Int /\ p.ask_sz \in Int /\ q.bid_sz \in Int /\ q.ask_sz \in Int
  BY QuoteFields
<1>2. \A a, b, c, d \in Int, A, B, C, D \in BOOLEAN :
         (IF A THEN a ELSE 0) - (IF B THEN b ELSE 0) - (IF C THEN c ELSE 0)
         + (IF D THEN d ELSE 0) \in Int
  OBVIOUS
<1> QED BY <1>1, <1>2 DEF Increment

(* Nothing to remember is not a quote with two sides.                      *)
LEMMA NoQuoteIsOneSided == ~BothSides(NoQuote)
BY DEF BothSides, NoQuote

(* With both prices unchanged, the increment is the change of the bid's    *)
(* size less that of the ask's (FeatureEmit.hpp:87-92).                    *)
LEMMA IncrementAtSameTouch ==
  ASSUME NEW p \in Quote, NEW q \in Quote, SameTouch(p, q)
  PROVE  Increment(p, q) = (q.bid_sz - p.bid_sz) - (q.ask_sz - p.ask_sz)
BY QuoteFields DEF Increment, SameTouch

(* Seen from the other side of the market, an increment changes its sign.  *)
LEMMA IncrementMirrored ==
  ASSUME NEW p \in Quote, NEW q \in Quote
  PROVE  Increment(Mirror(p), Mirror(q)) = -Increment(p, q)
BY QuoteFields DEF Increment, Mirror

-----------------------------------------------------------------------------
LEMMA StreamInit == Init => StreamInv
<1> SUFFICES ASSUME Init PROVE StreamInv
  OBVIOUS
<1>1. prev = NoQuote /\ last = NoQuote /\ base = NoQuote /\ net = 0 /\ have_prev = FALSE
  BY DEF Init, TrackerInit
<1>2. StreamTypes
  <2>1. have_prev \in BOOLEAN
    BY <1>1
  <2>2. NoQuote \in Quote \cup {NoQuote} /\ net \in Int
    BY <1>1
  <2> QED BY <1>1, <2>1, <2>2 DEF StreamTypes
<1>3. Remembered
  <2>1. ~BothSides(last)
    BY <1>1, NoQuoteIsOneSided
  <2>2. ~have_prev
    BY <1>1
  <2> QED BY <2>1, <2>2 DEF Remembered
<1>4. Telescopes
  BY <1>1 DEF Telescopes, NoQuote
<1> QED BY <1>2, <1>3, <1>4 DEF StreamInv

(* One update preserves the invariant, whatever the quote.                 *)
LEMMA FeedInv ==
  ASSUME StreamInv, NEW q \in Quote, Feed(q)
  PROVE  StreamInv'
<1> DEFINE valid == BothSides(q) /\ have_prev
           same  == BothSides(last) /\ BothSides(q) /\ SameTouch(last, q)
<1> USE DEF StreamInv
<1>1. /\ prev' = IF BothSides(q) THEN q ELSE prev
      /\ have_prev' = BothSides(q)
      /\ ofi' = [value |-> IF valid THEN Increment(prev, q) ELSE 0, valid |-> valid]
      /\ last' = q
  BY DEF Feed, Update, Imbalance
<1>2. /\ same => base' = base /\ net' = net + ofi'.value
      /\ ~same => base' = q /\ net' = 0
  BY DEF Feed
<1>3. BothSides(q) \in BOOLEAN
  BY DEF BothSides
<1>4. ofi'.value \in Int
  <2>1. Increment(prev, q) \in Int
    BY IncrementIsInt DEF StreamTypes
  <2> QED BY <1>1, <2>1
<1>5. StreamTypes'
  <2>1. have_prev' \in BOOLEAN
    BY <1>1, <1>3
  <2>2. prev' \in Quote \cup {NoQuote}
    BY <1>1 DEF StreamTypes
  <2>3. base' \in Quote \cup {NoQuote} /\ last' \in Quote \cup {NoQuote}
    BY <1>1, <1>2 DEF StreamTypes
  <2>4. net' \in Int
    BY <1>2, <1>4 DEF StreamTypes
  <2> QED BY <2>1, <2>2, <2>3, <2>4 DEF StreamTypes
<1>6. Remembered'
  BY <1>1 DEF Remembered
<1>7. Telescopes'
  <2>1. CASE same
    <3>1. prev = last /\ valid
      BY <2>1 DEF Remembered
    <3>2. ofi'.value = Increment(last, q)
      BY <1>1, <3>1
    <3>3. last \in Quote
      BY <2>1, NoQuoteIsOneSided DEF StreamTypes
    <3>4. ofi'.value = (q.bid_sz - last.bid_sz) - (q.ask_sz - last.ask_sz)
      BY <2>1, <3>2, <3>3, IncrementAtSameTouch
    <3>5. base' = base /\ net' = net + ofi'.value
      BY <1>2, <2>1
    <3>6. /\ base.bid_sz \in Nat /\ base.ask_sz \in Nat
          /\ last.bid_sz \in Nat /\ last.ask_sz \in Nat
          /\ q.bid_sz \in Nat /\ q.ask_sz \in Nat
      BY QuoteFields DEF StreamTypes
    <3>7. net = (last.bid_sz - base.bid_sz) - (last.ask_sz - base.ask_sz)
      BY DEF Telescopes
    <3>8. net' = (q.bid_sz - base.bid_sz) - (q.ask_sz - base.ask_sz)
      BY <3>4, <3>5, <3>6, <3>7
    <3> QED BY <1>1, <3>5, <3>8 DEF Telescopes
  <2>2. CASE ~same
    <3>1. base' = q /\ net' = 0 /\ last' = q
      BY <1>1, <1>2, <2>2
    <3>2. q.bid_sz \in Nat /\ q.ask_sz \in Nat
      BY QuoteFields
    <3>3. net' = (q.bid_sz - q.bid_sz) - (q.ask_sz - q.ask_sz)
      BY <3>1, <3>2
    <3> QED BY <3>1, <3>3 DEF Telescopes
  <2> QED BY <2>1, <2>2
<1> QED BY <1>5, <1>6, <1>7

LEMMA StreamStep == StreamInv /\ [Next]_vars => StreamInv'
<1> SUFFICES ASSUME StreamInv, [Next]_vars PROVE StreamInv'
  OBVIOUS
<1>1. ASSUME NEW q \in Quote, Feed(q) PROVE StreamInv'
  BY <1>1, FeedInv
<1>2. CASE UNCHANGED vars
  BY <1>2 DEF vars, trackerVars, StreamInv, StreamTypes, Remembered, Telescopes
<1> QED BY <1>1, <1>2 DEF Next

(* The stream's inductive invariant.                                       *)
THEOREM StreamSafety == Spec => []StreamInv
BY StreamInit, StreamStep, PTL DEF Spec

(* While the touch stays at its prices, the increments of any number of    *)
(* updates sum to the net change of the sizes there                        *)
(* (FeatureEmit.hpp:69-75).                                                *)
THEOREM FlowTelescopes == Spec => []Telescopes
BY StreamSafety, PTL DEF StreamInv

(* No increment spans an update that had a side empty                      *)
(* (FeatureEmit.hpp:57-61, 100).                                           *)
THEOREM NoIncrementSpansAGap == Spec => ValidNeverSpansAGap
<1>1. StreamInv /\ [Next]_vars =>
        [ofi'.valid <=> BothSides(last) /\ BothSides(last')]_vars
  <2> SUFFICES ASSUME StreamInv, NEW q \in Quote, Feed(q)
               PROVE  ofi'.valid <=> BothSides(last) /\ BothSides(last')
    BY DEF Next
  <2>1. ofi'.valid <=> BothSides(q) /\ have_prev
    BY DEF Feed, Update, Imbalance
  <2>2. have_prev <=> BothSides(last)
    BY DEF StreamInv, Remembered
  <2>3. last' = q
    BY DEF Feed
  <2> QED BY <2>1, <2>2, <2>3
<1> QED BY <1>1, StreamSafety, PTL DEF Spec, ValidNeverSpansAGap

(* A market and its mirror image have opposite imbalance                   *)
(* (FeatureEmit.hpp:89-92).                                                *)
THEOREM MirrorImageNegates == Spec => MirrorNegates
<1>1. StreamInv /\ [Next]_vars =>
        [ofi'.valid => Increment(Mirror(prev), Mirror(prev')) = -ofi'.value]_vars
  <2> SUFFICES ASSUME StreamInv, NEW q \in Quote, Feed(q), ofi'.valid
               PROVE  Increment(Mirror(prev), Mirror(prev')) = -ofi'.value
    BY DEF Next
  <2>1. BothSides(q) /\ have_prev
    BY DEF Feed, Update, Imbalance
  <2>2. prev' = q /\ ofi'.value = Increment(prev, q)
    BY <2>1 DEF Feed, Update, Imbalance
  <2>3. prev \in Quote
    BY <2>1, NoQuoteIsOneSided DEF StreamInv, StreamTypes, Remembered
  <2> QED BY <2>2, <2>3, IncrementMirrored
<1> QED BY <1>1, StreamSafety, PTL DEF Spec, MirrorNegates
=============================================================================
