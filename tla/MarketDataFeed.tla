--------------------------- MODULE MarketDataFeed ---------------------------
(***************************************************************************)
(* MarketDataFeed::replay_from_csv driving a book, and the blotter of      *)
(* src/replay_main.cpp behind the book's trade handler.  A file is a       *)
(* sequence of lines of the kinds below; the pauses between ticks of the   *)
(* real-time option are left out, they change no state.                    *)
(***************************************************************************)
EXTENDS BookCalls

CONSTANT MaxLines  \* bound: lines in the file

ASSUME FeedAssumption == MaxLines \in Nat

VARIABLES
  pc,         \* skip, loop, done, failed to open, or aborted by an exception
  lines,      \* lines read
  book,
  processed,  \* processed_count
  blotter,    \* trade_count, traded_volume and notional of run_feed
  added,      \* history: shares of accepted orders
  cancelled   \* history: shares that cancels took off the book

vars == <<pc, lines, book, processed, blotter, added, cancelled>>

\* A tick line parses; a header does not, for its first cell is no number.
Tick == [event : {"ADD", "CANCEL", "EXECUTE", "OTHER"}, order_id : OrderIds,
         price : PriceField, quantity : QtyField, side : Side]
Line == Tick \cup {[event |-> "HEADER"], [event |-> "EMPTY"]}

Read(line) ==
  /\ lines < MaxLines
  /\ lines' = lines + 1

\* replay_from_csv returns false; run_feed stops at that, without a summary.
CannotOpen ==
  /\ pc = "skip"
  /\ pc' = "failed"
  /\ UNCHANGED <<lines, book, processed, blotter, added, cancelled>>

\* The line before the loop is read and not looked at.
SkipFirstLine(line) ==
  /\ pc = "skip"
  /\ Read(line)
  /\ pc' = "loop"
  /\ UNCHANGED <<book, processed, blotter, added, cancelled>>

\* An EXECUTE line is passed over here, so process_tick never gets to warn of it.
IgnoreLine(line) ==
  /\ pc = "loop"
  /\ line.event \in {"EMPTY", "EXECUTE", "OTHER"}
  /\ Read(line)
  /\ UNCHANGED <<pc, book, processed, blotter, added, cancelled>>

\* stoull throws, and neither replay_from_csv nor main catches it.
Unparsable(line) ==
  /\ pc = "loop"
  /\ line.event = "HEADER"
  /\ Read(line)
  /\ pc' = "aborted"
  /\ UNCHANGED <<book, processed, blotter, added, cancelled>>

\* Mutant of Blotter: only the first fill of an insertion is tallied.
Blotter_FirstFill(b, fills) ==
  LET f == CHOOSE f \in fills : TRUE
  IN IF fills = {} THEN b
     ELSE [trade_count |-> b.trade_count + 1, traded_volume |-> b.traded_volume + f.qty,
           notional |-> b.notional + f.price * f.qty]

\* The trade handler of run_feed, once per fill.
Blotter(b, fills) ==
  [trade_count   |-> b.trade_count + Cardinality(fills),
   traded_volume |-> b.traded_volume + SumFunction([f \in fills |-> f.qty]),
   notional      |-> b.notional + SumFunction([f \in fills |-> f.price * f.qty])]

Outstanding(b) == SumFunction([o \in Resting(b) |-> o.qty])

ProcessAdd(t) ==
  /\ book' = InsertOrder(book, t.order_id, t.side, t.price, t.quantity)
  /\ blotter' = Blotter(blotter, Fills(book, t.order_id, t.side, t.price, t.quantity))
  /\ added' = added + IF Insertable(book, t.order_id, t.price, t.quantity)
                      THEN t.quantity ELSE 0
  /\ UNCHANGED cancelled

ProcessCancel(t) ==
  /\ book' = CancelOrder(book, t.order_id)
  /\ cancelled' = cancelled + GetOrderQty(book, t.order_id)
  /\ UNCHANGED <<blotter, added>>

ProcessTick(t) ==
  \/ t.event = "ADD" /\ ProcessAdd(t)
  \/ t.event = "CANCEL" /\ ProcessCancel(t)

ReplayLine(line) ==
  /\ pc = "loop"
  /\ Read(line)
  /\ ProcessTick(line)
  /\ processed' = processed + 1
  /\ UNCHANGED pc

\* An empty file ends before its first line, which changes nothing.
EndOfFile ==
  /\ pc \in {"skip", "loop"}
  /\ pc' = "done"
  /\ UNCHANGED <<lines, book, processed, blotter, added, cancelled>>

Returned == pc \in {"done", "failed", "aborted"} /\ UNCHANGED vars

Init ==
  /\ pc = "skip" /\ lines = 0
  /\ book = EmptyBook
  /\ processed = 0
  /\ blotter = [trade_count |-> 0, traded_volume |-> 0, notional |-> 0]
  /\ added = 0 /\ cancelled = 0

Next ==
  \/ \E line \in Line :
       SkipFirstLine(line) \/ IgnoreLine(line) \/ Unparsable(line) \/ ReplayLine(line)
  \/ CannotOpen \/ EndOfFile
  \/ Returned

Spec == Init /\ [][Next]_vars

-----------------------------------------------------------------------------
(* Every share accepted from the file is accounted for: it rests, or a     *)
(* cancel removed it, or it met another in a trade the blotter counts with *)
(* both its sides (OrderBook.cpp:26-41, replay_main.cpp:15-18).            *)
SharesConserved ==
  added = Outstanding(book) + cancelled + 2 * blotter.traded_volume

(* The summary's VWAP lies between the lowest and the highest price that   *)
(* can rest, and the spread it prints is never zero or wrapped below zero  *)
(* (replay_main.cpp:33-43, OrderBook.hpp:201-204).                         *)
SummaryIsSane ==
  /\ blotter.trade_count <= blotter.traded_volume
  /\ blotter.traded_volume <= blotter.notional
  /\ blotter.notional <= (NO_ASK - 1) * blotter.traded_volume
  /\ Tracked(book, "buy") # {} /\ Tracked(book, "sell") # {} => BestAsk(book) > BestBid(book)
=============================================================================
