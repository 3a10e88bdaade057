-------------------------------- MODULE Venue --------------------------------
(***************************************************************************)
(* The exchange whose two files are replayed, modelled from what           *)
(* include/LobsterReplay.hpp says of them: every event at a price in the   *)
(* window is announced by a message and followed by a row with the best    *)
(* levels of each side; an event at a price outside it happens silently.   *)
(* Orders that rested before the capture window have ids no message has    *)
(* introduced.                                                             *)
(***************************************************************************)
EXTENDS BookCalls

CONSTANTS
  FileLevels,    \* levels per side in a row of the orderbook file
  OpeningSizes,  \* the sizes, in queue order, that may rest at a price at the start
  Splits,        \* the prices at which the asks may begin then
  MaxNewOrders,  \* bound: orders that arrive during the capture window
  MaxSilent      \* bound: events outside the window

ASSUME VenueAssumption ==
  /\ FileLevels \in Nat /\ MaxNewOrders \in Nat /\ MaxSilent \in Nat
  /\ \A sizes \in OpeningSizes : sizes \in Seq(Qty)
  /\ Splits \subseteq Int

VARIABLES
  venue,     \* the exchange's own book
  arrivals,  \* orders that have arrived, which names the next
  silent,    \* events that have happened outside the window
  msg,       \* the last line of the message file
  pub        \* the last line of the orderbook file, padding left out

venueVars == <<venue, arrivals, silent, msg, pub>>

PreWindowId(p, k) == MaxNewOrders + k * NO_ASK + p

\* Any uncrossed book of pre-window orders: bids below the split, asks from it on.
OpeningBooks ==
  {[s \in Side |-> [p \in Price |->
      IF (s = "buy") = (p < split)
      THEN [k \in DOMAIN sizes[p] |-> [id |-> PreWindowId(p, k), qty |-> sizes[p][k]]]
      ELSE <<>>]] : split \in Splits, sizes \in [Price -> OpeningSizes]}

-----------------------------------------------------------------------------
Message(event, id, size, p, s) ==
  [event |-> event, order_id |-> id, size |-> size, price |-> p, side |-> s]

\* A matched stream: whatever of an order would cross has been executed before
\* the order rests.
NewLimits ==
  {m \in {Message("NEW_LIMIT", arrivals + 1, n, p, s) : n \in Qty, p \in Price, s \in Side} :
     \A q \in Tracked(venue, Opposite(m.side)) : ~Crosses(m.side, q, m.price)}

Cancels ==
  UNION {{Message(IF n = o.qty THEN "FULL_DELETE" ELSE "PARTIAL_CANCEL",
                  o.id, n, o.price, o.side) : n \in 1 .. o.qty} : o \in Resting(venue)}

\* The venue executes the front of the best level.
Executions ==
  UNION {{Message("EXEC_VISIBLE", o.id, n, o.price, o.side) : n \in 1 .. o.qty} :
    o \in {o \in Resting(venue) : /\ IsBest(o.side, Tracked(venue, o.side), o.price)
                                  /\ venue[o.side][o.price][1].id = o.id}}

\* Events that leave the visible book alone; nothing reads their price.
OffBook ==
  {Message(event, 0, 1, 1, "buy") : event \in {"EXEC_HIDDEN", "CROSS", "HALT"}}

After(m) ==
  CASE m.event = "NEW_LIMIT" ->
         [venue EXCEPT ![m.side][m.price] = Append(@, [id |-> m.order_id, qty |-> m.size])]
    [] m.event \in {"PARTIAL_CANCEL", "EXEC_VISIBLE", "FULL_DELETE"} ->
         ReduceOrder(venue, m.order_id, m.size)
    [] OTHER -> venue

\* Whether the price of m is among the levels the venue reports.
InWindow(m) ==
  \/ m \in OffBook
  \/ Cardinality({q \in Tracked(venue, m.side) : Better(m.side, q, m.price)}) < FileLevels

Happens(m) ==
  /\ m.event = "NEW_LIMIT" => arrivals < MaxNewOrders
  /\ venue' = After(m)
  /\ arrivals' = IF m.event = "NEW_LIMIT" THEN arrivals + 1 ELSE arrivals

Announced(m) ==
  /\ InWindow(m)
  /\ Happens(m)
  /\ msg' = m
  /\ pub' = [s \in Side |-> Depth(After(m), s, FileLevels)]
  /\ UNCHANGED silent

Unannounced(m) ==
  /\ ~InWindow(m)
  /\ silent < MaxSilent
  /\ Happens(m)
  /\ silent' = silent + 1
  /\ UNCHANGED <<msg, pub>>

VenueInit ==
  /\ venue \in OpeningBooks
  /\ arrivals = 0
  /\ silent = 0
  /\ msg = Message("HALT", 0, 0, 0, "buy")
  /\ pub = [s \in Side |-> <<>>]
=============================================================================
