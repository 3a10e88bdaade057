---------------------------- MODULE LobsterReplay ----------------------------
(***************************************************************************)
(* replay_and_reconcile of include/LobsterReplay.hpp: a book is rebuilt    *)
(* from the venue's messages and compared after each with the row the      *)
(* venue published.  One turn of the loop is a chain of steps, one per     *)
(* call the loop body makes; pc names the next.                            *)
(***************************************************************************)
EXTENDS Venue, FeatureEmit

CONSTANTS
  Levels,             \* the depth that is compared
  Modes,              \* the sets of options a run may be started with
  MaxMessages,        \* bound: length of the message file
  SYNTHETIC_ID_BASE,  \* ids from here on are ours
  DEPTH_LEVELS        \* the depth a feature row sums over

ASSUME ReplayAssumption ==
  /\ Levels \in Nat \ {0} /\ MaxMessages \in Nat /\ DEPTH_LEVELS \in Nat \ {0}
  /\ Modes \subseteq SUBSET {"recover", "resync", "published", "emit"}
  /\ SYNTHETIC_ID_BASE \in Nat /\ MaxNewOrders < SYNTHETIC_ID_BASE
  /\ \A sizes \in OpeningSizes, p \in Price : \A k \in DOMAIN sizes :
       PreWindowId(p, k) < SYNTHETIC_ID_BASE

VARIABLES
  pc,
  opts,    \* recover, resync, sink, features_from_published (with continue_past_divergence)
  rec,     \* the reconstruction: book, seeds, synthetic_id, unexpected_trades
  st,      \* the other statistics
  row,     \* the last FeatureRow emitted
  err,     \* why the run failed
  agreed,  \* history: how many leading messages left us with the venue's top levels
  first    \* history: the event of the first message

replayVars == <<pc, opts, rec, st, row, err, agreed, first>>
vars == <<venueVars, replayVars, trackerVars>>

Repairs == opts \cap {"recover", "resync"} # {}
Continues == "published" \in opts
IsSynthetic(id) == id >= SYNTHETIC_ID_BASE

Go(next) == pc' = next

-----------------------------------------------------------------------------
(* Changes to the reconstruction, as operators from one to the next.       *)

Put(f, k, v) == [x \in DOMAIN f \cup {k} |-> IF x = k THEN v ELSE f[x]]
Without(f, ks) == [x \in DOMAIN f \ ks |-> f[x]]

Insert(r, id, s, p, qty) ==
  [r EXCEPT !.book = InsertOrder(r.book, id, s, p, qty),
            !.unexpected_trades = @ + Cardinality(Fills(r.book, id, s, p, qty))]

\* Mutant of AddStandIn: the next stand-in gets the same id.
AddStandIn_IdReused(r, s, p, qty) ==
  [Insert(r, r.synthetic_id, s, p, qty) EXCEPT !.seeds = Put(@, <<s, p>>, r.synthetic_id)]

\* Liquidity we invent, indexed by its side and price.
AddStandIn(r, s, p, qty) ==
  [Insert(r, r.synthetic_id, s, p, qty) EXCEPT
     !.seeds = Put(@, <<s, p>>, r.synthetic_id),
     !.synthetic_id = @ + 1]

\* The row without what the first message, if it is a new order, put into it.
SeedLevels(s) ==
  LET own(l) == IF msg.event = "NEW_LIMIT" /\ msg.side = s /\ msg.price = l.price
                THEN msg.size ELSE 0
      left == [i \in DOMAIN pub[s] |-> [pub[s][i] EXCEPT !.volume = @ - own(pub[s][i])]]
  IN EntriesAt(left, {i \in DOMAIN left : left[i].volume > 0})

SeedSide(r, s) ==
  LET levels == SeedLevels(s)
      after[n \in 0 .. Len(levels)] ==
        IF n = 0 THEN r ELSE AddStandIn(after[n - 1], s, levels[n].price, levels[n].volume)
  IN after[Len(levels)]

Key == <<msg.side, msg.price>>
SeedHeld == IF Key \in DOMAIN rec.seeds THEN GetOrderQty(rec.book, rec.seeds[Key]) ELSE 0

\* Keep a seed only while its order rests.
DropDeadSeed(r, k) ==
  IF k \in DOMAIN r.seeds /\ GetOrderQty(r.book, r.seeds[k]) = 0
  THEN [r EXCEPT !.seeds = Without(@, {k})] ELSE r

\* Mutant of AttributeToSeed: the seed is cancelled whatever the size.
AttributeToSeed_Whole(r) ==
  DropDeadSeed([r EXCEPT !.book = CancelOrder(@, r.seeds[Key])], Key)

AttributeToSeed(r) ==
  DropDeadSeed([r EXCEPT !.book = ReduceOrder(@, r.seeds[Key], msg.size)], Key)

Published(s) == {pub[s][i].price : i \in DOMAIN pub[s]}

\* Mutant of Authoritative: levels beyond the deepest published one are judged too.
Authoritative_Everywhere(s, p) == TRUE

\* Whether the row would list a level at p if the venue had one.
Authoritative(s, p) ==
  \/ Len(pub[s]) < Levels
  \/ pub[s] # <<>> /\ ~Better(s, pub[s][Len(pub[s])].price, p)

Top(book, s) == {Depth(book, s, Levels)[i].price : i \in DOMAIN Depth(book, s, Levels)}

\* Levels at the top of the book that the venue would list and does not.
Doomed(book, s) == {p \in Top(book, s) : Authoritative(s, p) /\ p \notin Published(s)}

PrunePhantomLevels(r) ==
  [book  |-> [s \in Side |-> [p \in Price |->
                IF p \in Doomed(r.book, s) THEN <<>> ELSE r.book[s][p]]],
   seeds |-> Without(r.seeds, {k \in DOMAIN r.seeds : k[2] \in Doomed(r.book, k[1])}),
   synthetic_id |-> r.synthetic_id,
   unexpected_trades |-> r.unexpected_trades]

WouldCross(book, s, p) ==
  IF s = "buy" THEN p >= BestAsk(book) ELSE p <= BestBid(book)

\* Mutant of Adopt: a level is adopted whether or not one is tracked.
Adopt_Tracked(r, s, l) ==
  IF WouldCross(r.book, s, l.price) THEN r ELSE AddStandIn(r, s, l.price, l.volume)

Adopt(r, s, l) ==
  IF r.book[s][l.price] # <<>> \/ WouldCross(r.book, s, l.price) THEN r
  ELSE AddStandIn(r, s, l.price, l.volume)

RecoverSide(r, s) ==
  LET after[n \in 0 .. Len(pub[s])] ==
        IF n = 0 THEN r ELSE Adopt(after[n - 1], s, pub[s][n])
  IN after[Len(pub[s])]

Ours(fifo) == EntriesAt(fifo, {i \in DOMAIN fifo : IsSynthetic(fifo[i].id)})
Told(fifo) == EntriesAt(fifo, {i \in DOMAIN fifo : ~IsSynthetic(fifo[i].id)})

\* Mutants of Retire: what the venue told us of goes first; only our own
\* stand-ins are reduced.
Retire_ToldFirst(fifo, excess) == TakeFront(Told(fifo) \o Ours(fifo), excess)
Retire_OursOnly(fifo, excess) == TakeFront(Ours(fifo), excess) \o Told(fifo)

\* Retire an excess from our own stand-ins first, then from what the venue told
\* us of; the survivors stay in their places.
Retire(fifo, excess) ==
  LET left == TakeFront(Ours(fifo) \o Told(fifo), excess)
      at(o) == {j \in DOMAIN left : left[j].id = o.id}
      survivors == EntriesAt(fifo, {i \in DOMAIN fifo : at(fifo[i]) # {}})
  IN [i \in DOMAIN survivors |-> left[CHOOSE j \in at(survivors[i]) : TRUE]]

Drift(book, s, l) == l.volume - Volume(book[s][l.price])

ResyncLevel(r, s, l) ==
  LET drift == Drift(r.book, s, l)
  IN IF r.book[s][l.price] = <<>> \/ drift = 0 THEN r
     ELSE IF drift > 0 THEN AddStandIn(r, s, l.price, drift)
     ELSE DropDeadSeed([r EXCEPT !.book[s][l.price] = Retire(@, -drift)], <<s, l.price>>)

Window(s) == SubSeq(pub[s], 1, IF Len(pub[s]) < Levels THEN Len(pub[s]) ELSE Levels)

ResyncSide(r, s) ==
  LET after[n \in 0 .. Len(Window(s))] ==
        IF n = 0 THEN r ELSE ResyncLevel(after[n - 1], s, Window(s)[n])
  IN after[Len(Window(s))]

-----------------------------------------------------------------------------
(* The loop of replay_and_reconcile.                                       *)

\* The next line of each file; the venue produces them together.
ReadMessage(m) ==
  /\ pc = "read"
  /\ st.messages < MaxMessages /\ Levels <= FileLevels
  /\ Announced(m)
  /\ st' = [st EXCEPT !.messages = @ + 1]
  /\ Go(IF st.messages = 0 THEN "seed" ELSE "apply")
  /\ first' = IF st.messages = 0 THEN m.event ELSE first
  /\ UNCHANGED <<opts, rec, row, err, agreed, trackerVars>>

\* Between two messages the venue goes on where the window does not reach.
VenueAlone(m) ==
  /\ pc = "read" /\ st.messages > 0
  /\ Unannounced(m)
  /\ UNCHANGED <<replayVars, trackerVars>>

\* What ends a run because of its files: the call fails, or it throws.
BadInput == {"input", "exception"}

\* A file is missing or ends early, a line is short, an event type is unknown, or the
\* rows have fewer levels than are to be compared: the call returns false.  A field
\* that is no number makes std::stod and the like throw, after the message is counted.
RejectInput ==
  /\ pc = "read"
  /\ \E n \in {0, 1} : /\ st' = [st EXCEPT !.messages = @ + n]
                        /\ err' \in IF n = 0 THEN {"input"} ELSE BadInput
  /\ Go("failed")
  /\ UNCHANGED <<venueVars, opts, rec, row, agreed, first, trackerVars>>

SeedBook ==
  /\ pc = "seed"
  /\ rec' = SeedSide(SeedSide(rec, "buy"), "sell")
  /\ Go("apply")
  /\ UNCHANGED <<venueVars, opts, st, row, err, agreed, first, trackerVars>>

Applied ==
  /\ pc = "apply"
  /\ Go(IF Repairs THEN "prune" ELSE "emit")
  /\ UNCHANGED <<venueVars, opts, row, err, agreed, first, trackerVars>>

Held == GetOrderQty(rec.book, msg.order_id)
Reduces(event) == event \in {"PARTIAL_CANCEL", "EXEC_VISIBLE", "FULL_DELETE"}

\* Mutant of ApplyNewLimit: the direction is that of the other side.
ApplyNewLimit_OtherSide ==
  /\ Applied
  /\ msg.event = "NEW_LIMIT"
  /\ rec' = Insert(rec, msg.order_id, Opposite(msg.side), msg.price, msg.size)
  /\ UNCHANGED st

ApplyNewLimit ==
  /\ Applied
  /\ msg.event = "NEW_LIMIT"
  /\ rec' = Insert(rec, msg.order_id, msg.side, msg.price, msg.size)
  /\ UNCHANGED st

ApplyToOrder ==
  /\ Applied
  /\ Reduces(msg.event) /\ Held # 0
  /\ rec' = [rec EXCEPT !.book = IF msg.event = "FULL_DELETE" THEN CancelOrder(@, msg.order_id)
                                 ELSE ReduceOrder(@, msg.order_id, msg.size)]
  /\ UNCHANGED st

ApplyToSeed ==
  /\ Applied
  /\ Reduces(msg.event) /\ Held = 0 /\ SeedHeld # 0
  /\ rec' = AttributeToSeed(rec)
  /\ st' = [st EXCEPT !.seed_attributed = @ + 1]

ApplyUnknown ==
  /\ Applied
  /\ Reduces(msg.event) /\ Held = 0 /\ SeedHeld = 0
  /\ rec' = DropDeadSeed(rec, Key)
  /\ st' = [st EXCEPT !.unknown_refs = @ + 1]

ApplySkipped ==
  /\ Applied
  /\ msg.event \in {"EXEC_HIDDEN", "CROSS", "HALT"}
  /\ st' = [st EXCEPT !.skipped = @ + 1]
  /\ UNCHANGED rec

\* Levels of r1 that r2 does not have.
Lost(r1, r2) ==
  {k \in Side \X Price : r1.book[k[1]][k[2]] # <<>> /\ r2.book[k[1]][k[2]] = <<>>}

Prune ==
  /\ pc = "prune"
  /\ rec' = PrunePhantomLevels(rec)
  /\ st' = [st EXCEPT !.pruned_levels = @ + Cardinality(Lost(rec, rec'))]
  /\ Go("recover")
  /\ UNCHANGED <<venueVars, opts, row, err, agreed, first, trackerVars>>

Recover ==
  /\ pc = "recover"
  /\ rec' = RecoverSide(RecoverSide(rec, "buy"), "sell")
  /\ st' = [st EXCEPT !.recovered_levels = @ + rec'.synthetic_id - rec.synthetic_id]
  /\ Go(IF "resync" \in opts THEN "resync" ELSE "emit")
  /\ UNCHANGED <<venueVars, opts, row, err, agreed, first, trackerVars>>

\* Where a resync corrects a size: side and depth.
Drifts(r) ==
  UNION {{<<s, i>> : i \in {i \in DOMAIN Window(s) :
                              /\ r.book[s][pub[s][i].price] # <<>>
                              /\ Drift(r.book, s, pub[s][i]) # 0}} : s \in Side}

DriftSize(r, d) ==
  LET drift == Drift(r.book, d[1], pub[d[1]][d[2]]) IN IF drift < 0 THEN -drift ELSE drift

DriftShares(r) == SumFunction([d \in Drifts(r) |-> DriftSize(r, d)])

Resync ==
  /\ pc = "resync"
  /\ rec' = ResyncSide(ResyncSide(rec, "buy"), "sell")
  /\ st' = [st EXCEPT
       !.resynced_levels = @ + Cardinality(Drifts(rec)),
       !.resynced_shares = @ + DriftShares(rec),
       !.resync_by_depth = [i \in 1 .. Levels |->
                              @[i] + Cardinality({d \in Drifts(rec) : d[2] = i})]]
  /\ Go("emit")
  /\ UNCHANGED <<venueVars, opts, row, err, agreed, first, trackerVars>>

-----------------------------------------------------------------------------
\* The touch and the visible volume, from a side's levels; size 0 when empty.
Touch(levels) == IF levels = <<>> THEN [price |-> 0, volume |-> 0] ELSE levels[1]
DepthVolume(levels) ==
  SumFunction([i \in DOMAIN levels \cap 1 .. DEPTH_LEVELS |-> levels[i].volume])

\* Mutant of Shown: the book state always comes from the reconstruction.
Shown_Reconstructed(s) == Depth(rec.book, s, DEPTH_LEVELS)

Shown(s) == IF Continues THEN pub[s] ELSE Depth(rec.book, s, DEPTH_LEVELS)

Quote(bids, asks) == [bid_px |-> Touch(bids).price, bid_sz |-> Touch(bids).volume,
                      ask_px |-> Touch(asks).price, ask_sz |-> Touch(asks).volume]

Signed(event) ==
  IF msg.event = event
  THEN SignedExecutionSize(IF msg.side = "buy" THEN 1 ELSE -1, msg.size) ELSE 0

Features ==
  LET quote == Quote(Shown("buy"), Shown("sell")) IN
  /\ Update(quote)
  /\ row' = [msg_index |-> st.messages, quote |-> quote, ofi |-> ofi',
             bid_depth_vol |-> DepthVolume(Shown("buy")),
             ask_depth_vol |-> DepthVolume(Shown("sell")),
             signed_trade_sz |-> Signed("EXEC_VISIBLE"),
             signed_hidden_sz |-> Signed("EXEC_HIDDEN")]

\* Mutant of Emit: messages that leave the visible book alone get no row.
Emit_BookEventsOnly ==
  /\ pc = "emit"
  /\ IF "emit" \in opts /\ msg.event \notin {"EXEC_HIDDEN", "CROSS", "HALT"}
     THEN Features ELSE UNCHANGED <<trackerVars, row>>
  /\ Go("compare")
  /\ UNCHANGED <<venueVars, opts, rec, st, err, agreed, first>>

Emit ==
  /\ pc = "emit"
  /\ IF "emit" \in opts THEN Features ELSE UNCHANGED <<trackerVars, row>>
  /\ Go("compare")
  /\ UNCHANGED <<venueVars, opts, rec, st, err, agreed, first>>

-----------------------------------------------------------------------------
CompareSide(s) ==
  LET ours == Depth(rec.book, s, Levels)
  IN \A i \in 1 .. Levels :
       IF i \in DOMAIN pub[s] THEN i \in DOMAIN ours /\ ours[i] = pub[s][i]
                              ELSE i \notin DOMAIN ours

\* The truth: the top of our book is the top of the venue's.
TopAgrees == \A s \in Side : Depth(rec.book, s, Levels) = Depth(venue, s, Levels)

Compared == CompareSide("sell") /\ CompareSide("buy")

Judge ==
  /\ pc = "compare"
  /\ agreed' = IF TopAgrees /\ agreed = st.messages - 1 THEN st.messages ELSE agreed
  /\ UNCHANGED <<venueVars, opts, rec, row, first, trackerVars>>

Accept == Judge /\ Compared /\ Go("read") /\ UNCHANGED <<st, err>>

\* Mutant of ContinuePast: a later divergence overwrites the first.
ContinuePast_Latest ==
  /\ Judge /\ ~Compared /\ Continues
  /\ st' = [st EXCEPT !.first_divergence = st.messages]
  /\ Go("read") /\ UNCHANGED err

\* Mutant of ContinuePast: a divergence never stops the run.
ContinuePast_Unasked ==
  /\ Judge /\ ~Compared
  /\ st' = [st EXCEPT !.first_divergence = IF @ = 0 THEN st.messages ELSE @]
  /\ Go("read") /\ UNCHANGED err

ContinuePast ==
  /\ Judge /\ ~Compared /\ Continues
  /\ st' = [st EXCEPT !.first_divergence = IF @ = 0 THEN st.messages ELSE @]
  /\ Go("read") /\ UNCHANGED err

Diverge ==
  /\ Judge /\ ~Compared /\ ~Continues
  /\ Go("failed") /\ err' = "divergence"
  /\ UNCHANGED st

EndOfFile ==
  /\ pc = "read"
  /\ IF rec.unexpected_trades > 0 /\ ~Continues
     THEN Go("failed") /\ err' = "trades" ELSE Go("passed") /\ UNCHANGED err
  /\ UNCHANGED <<venueVars, opts, rec, st, row, agreed, first, trackerVars>>

Returned == pc \in {"passed", "failed"} /\ UNCHANGED vars

-----------------------------------------------------------------------------
NoRow == [msg_index |-> 0]

Init ==
  /\ VenueInit /\ TrackerInit
  /\ pc = "read"
  /\ opts \in Modes
  /\ rec = [book |-> EmptyBook, seeds |-> <<>>, synthetic_id |-> SYNTHETIC_ID_BASE,
            unexpected_trades |-> 0]
  /\ st = [messages |-> 0, skipped |-> 0, unknown_refs |-> 0, seed_attributed |-> 0,
           recovered_levels |-> 0, pruned_levels |-> 0, resynced_levels |-> 0,
           resynced_shares |-> 0, resync_by_depth |-> [i \in 1 .. Levels |-> 0],
           first_divergence |-> 0]
  /\ row = NoRow
  /\ err = "none"
  /\ agreed = 0
  /\ first = "none"

ReplayStep ==
  \/ SeedBook
  \/ ApplyNewLimit \/ ApplyToOrder \/ ApplyToSeed \/ ApplyUnknown \/ ApplySkipped
  \/ Prune \/ Recover \/ Resync \/ Emit
  \/ Accept \/ ContinuePast \/ Diverge

Running ==
  \/ \E m \in NewLimits \cup Cancels \cup Executions \cup OffBook :
       ReadMessage(m) \/ VenueAlone(m)
  \/ RejectInput \/ EndOfFile
  \/ ReplayStep

Next == Running \/ Returned

Spec == Init /\ [][Next]_vars

-----------------------------------------------------------------------------
(* Type invariant.  Seeds are keyed by side and price and always name ids  *)
(* of our own; the reconstruction is a book of such and the venue's ids,   *)
(* in which no id rests twice.                                             *)
TypeOK ==
  /\ pc \in {"read", "seed", "apply", "prune", "recover", "resync", "emit", "compare",
            "passed", "failed"}
  /\ DOMAIN rec.seeds \subseteq Side \X Price
  /\ \A k \in DOMAIN rec.seeds : rec.seeds[k] \in SYNTHETIC_ID_BASE .. rec.synthetic_id - 1
  /\ \A o \in Resting(rec.book) : o.qty > 0 /\ o.id < rec.synthetic_id
  /\ \A s, t \in Side, p, q \in Price :
       \A i \in DOMAIN rec.book[s][p], j \in DOMAIN rec.book[t][q] :
         rec.book[s][p][i].id = rec.book[t][q][j].id => s = t /\ p = q /\ i = j
  /\ err = "none" <=> pc # "failed"
  /\ agreed \in 0 .. st.messages

(* A level is pruned only when the venue really has none at that price,    *)
(* window or no window: pruning never destroys real liquidity              *)
(* (LobsterReplay.hpp:337-341).                                            *)
PruneOnlyPhantoms ==
  [][pc = "prune" => \A k \in Lost(rec, rec') : venue[k[1]][k[2]] = <<>>]_vars

(* As long as every row has matched, a message of the pre-matched stream   *)
(* never makes the engine trade, in any mode; so a trade means the run had *)
(* already diverged (LobsterReplay.hpp:470-474, 684).                      *)
NeverTrades == rec.unexpected_trades > 0 => agreed < st.messages - 1

(* A run that stops, or records where it diverged, does so at the first    *)
(* row that our book does not match, and a run that passes without having  *)
(* recorded one matched every row: the messages before the divergence are  *)
(* exactly the history's `agreed` (LobsterReplay.hpp:657-678).             *)
HorizonIsExact ==
  /\ pc = "read" \/ pc = "passed" =>
       IF st.first_divergence = 0 THEN agreed = st.messages
                                  ELSE agreed = st.first_divergence - 1
  /\ err = "divergence" => agreed = st.messages - 1

\* The venue's shares at a level that no message has introduced.
Unintroduced(s, p) ==
  LET fifo == venue[s][p]
  IN Volume(EntriesAt(fifo, {i \in DOMAIN fifo : fifo[i].id > MaxNewOrders}))

\* Those that messages have introduced, in queue order.
Introduced(s, p) ==
  LET fifo == venue[s][p] IN EntriesAt(fifo, {i \in DOMAIN fifo : fifo[i].id <= MaxNewOrders})

WindowIsComplete == FileLevels >= Cardinality(Price)

\* The state a replay of a complete feed is in between two messages.
Mirrored ==
  \A s \in Side, p \in Price :
    /\ Told(rec.book[s][p]) = Introduced(s, p)
    /\ Unintroduced(s, p) =
         IF <<s, p>> \in DOMAIN rec.seeds
         THEN GetOrderQty(rec.book, rec.seeds[<<s, p>>]) ELSE 0

(* When the feed shows the whole book and begins with a new order or an    *)
(* event off the book, the reconstruction is exact to the order: those the *)
(* messages introduced rest as they do at the venue, in the same queue     *)
(* order, one stand-in holds all that was there before, every reference is *)
(* resolved and every row matches (LobsterReplay.hpp:180-188, 526-537).    *)
CompleteFeedIsMirrored ==
  /\ WindowIsComplete /\ ~Reduces(first)
  /\ st.messages > 0 /\ pc \in {"read", "emit", "compare"}
  => Mirrored /\ st.unknown_refs = 0 /\ st.first_divergence = 0

(* Pruning and adopting explain whole levels only: a level that both sides *)
(* hold keeps its orders through them, so a size mismatch is left for the  *)
(* comparison to find and "recover" cannot forgive it                      *)
(* (LobsterReplay.hpp:213-216).                                            *)
SizesAreNotForgiven ==
  [][pc = "prune" \/ pc = "recover" =>
       \A s \in Side, p \in Price :
         p \in Published(s) /\ rec.book[s][p] # <<>> => rec.book[s][p] = rec'.book[s][p]
    ]_vars

\* Where pruning has let a level it has not judged move up to the compared depth.
Promoted == \E s \in Side : Doomed(rec.book, s) # {}

(* The three repairs of a resync run do what they are for together: unless *)
(* pruning has promoted a phantom it never judged, the comparison that     *)
(* follows them succeeds, whatever happened outside the window             *)
(* (LobsterReplay.hpp:218-221, 260-262, 337-341).                          *)
RepairsSuffice == pc = "compare" /\ "resync" \in opts /\ ~Promoted => Compared

(* What the comments say instead: resync mode cannot fail the comparison   *)
(* (LobsterReplay.hpp:260-262, lobster_replay.cpp:72-73).                  *)
ResyncNeverFails == "resync" \in opts => err # "divergence"

(* What the first fixture of the tests says: a correct message stream      *)
(* reconciles, here one whose rows show the whole book                     *)
(* (tests/test_lobster_replay.cpp:8).                                      *)
CorrectStreamReconciles == WindowIsComplete => err # "divergence"

(* A resync takes an excess from the venue's own orders only when no       *)
(* stand-in of ours is left at that price, so a later message that names   *)
(* one of them still finds it (LobsterReplay.hpp:267-270).                 *)
ToldOrdersAreSpared ==
  [][pc = "resync" => \A o \in Resting(rec.book) :
       ~IsSynthetic(o.id) /\ GetOrderQty(rec'.book, o.id) < o.qty =>
         \A i \in DOMAIN rec'.book[o.side][o.price] :
           ~IsSynthetic(rec'.book[o.side][o.price][i].id)
    ]_vars

(* The features of a message describe the venue's own book: always when    *)
(* they are taken from its rows, however far our book has drifted, and     *)
(* otherwise for every message up to the horizon                           *)
(* (LobsterReplay.hpp:605-640).                                            *)
FeaturesFollowVenue ==
  pc = "read" /\ row # NoRow /\ (Continues \/ agreed = st.messages) =>
    row.quote = Quote(pub["buy"], pub["sell"])

(* A run that asked for features leaves a row for every message it read,   *)
(* the one it diverged at included (LobsterReplay.hpp:590-592).            *)
EveryMessageHasARow ==
  pc \in {"passed", "failed"} /\ "emit" \in opts /\ err \notin BadInput =>
    row.msg_index = st.messages
=============================================================================
