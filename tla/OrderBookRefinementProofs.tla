--------------------- MODULE OrderBookRefinementProofs ----------------------
(***************************************************************************)
(* The engine implements the reference book, for every set of ids, every   *)
(* range of prices and quantities and every pool size.                     *)
(*                                                                         *)
(* A level is read as the FIFO that its list shows from the head           *)
(* (RawFifo), less a used-up maker there (Seen). First what a step does to *)
(* that reading when it removes, resizes or appends an order; then,        *)
(* operation by operation, that the step is one of the reference book or   *)
(* none. At last the callers' view of the same reading (Facts, Calls):     *)
(* what BookCalls says at once of a call is what the engine does fill by   *)
(* fill.                                                                   *)
(***************************************************************************)
EXTENDS OrderBookRefinement, OrderBookProofs

(***************************************************************************)
(* What the reference book is told of a level: its list, read from the     *)
(* head, without a used-up maker there.                                    *)
(***************************************************************************)
Shown == [id : OrderIds, qty : QtyField]

Reading(q) == [i \in DOMAIN q |-> [id |-> mem[q[i]].id, qty |-> mem[q[i]].qty]]

RawFifo(s, p) == IF p \in DOMAIN levels[s] THEN Reading(QueueAt(s, p)) ELSE <<>>

Seen(f) == IF f # <<>> /\ f[1].qty = 0 THEN Tail(f) ELSE f

\* q lists the set A, n of them.
Enumerates(q, n, A) ==
  /\ n \in Nat /\ DOMAIN q = 1 .. n
  /\ \A i \in 1 .. n : q[i] \in A
  /\ \A i, j \in 1 .. n : q[i] = q[j] => i = j
  /\ \A x \in A : \E i \in 1 .. n : q[i] = x

ReadsAs(q, n, s, p) == Enumerates(q, n, OrdersAt(s, p)) /\ RawFifo(s, p) = Reading(q)

(* A level is there exactly while it has orders, and its queue, which is   *)
(* what the walk from its head meets, has them all, each once.             *)
LEMMA LevelReads ==
  ASSUME StoreInv, Open, NEW s \in Side, NEW p \in DOMAIN levels[s], NEW q, Listed(q, s, p)
  PROVE  /\ ReadsAs(q, levels[s][p].order_count, s, p)
         /\ levels[s][p].order_count > 0 /\ q[1] = levels[s][p].head
<1>0. StoreTypeOK
  BY DEF StoreInv
<1>1. PICK n : n = levels[s][p].order_count
  OBVIOUS
<1>2. n \in Nat /\ n > 0
  BY <1>0, <1>1 DEF StoreInv, StoreTypeOK, PriceLevel, QueuesWellFormed
<1>3. QueueAt(s, p) = q
  BY <1>0, QueueIsWalk
<1>4. q \in [1 .. n -> OrdersAt(s, p)] /\ Threads(q, s, p)
  BY <1>1 DEF Listed
<1>5. /\ \A x \in OrdersAt(s, p) : \E i \in 1 .. n : q[i] = x
      /\ \A i, j \in 1 .. n : q[i] = q[j] => i = j
      /\ levels[s][p].head = q[1]
  BY <1>1, <1>4 DEF Threads
<1>6. Enumerates(q, n, OrdersAt(s, p))
  BY <1>2, <1>4, <1>5 DEF Enumerates
<1>7. RawFifo(s, p) = Reading(q)
  BY <1>3 DEF RawFifo
<1> QED
  BY <1>1, <1>2, <1>5, <1>6, <1>7 DEF ReadsAs

LEMMA NoLevelReads ==
  ASSUME StoreInv, Open, NEW s \in Side, NEW p, p \notin DOMAIN levels[s]
  PROVE  OrdersAt(s, p) = {} /\ RawFifo(s, p) = <<>> /\ ReadsAs(<<>>, 0, s, p)
<1>1. OrdersAt(s, p) = {}
  BY DEF OrdersAt, StoreInv, QueuesWellFormed
<1>2. RawFifo(s, p) = <<>>
  BY DEF RawFifo
<1>3. Reading(<<>>) = <<>>
  BY DEF Reading
<1>4. Enumerates(<<>>, 0, {})
  BY DEF Enumerates
<1> QED
  BY <1>1, <1>2, <1>3, <1>4 DEF ReadsAs

LevelsRead ==
  StoreInv /\ Open => \A s \in Side :
    /\ \A p \in DOMAIN levels[s] : \A q : Listed(q, s, p) =>
         /\ ReadsAs(q, levels[s][p].order_count, s, p)
         /\ levels[s][p].order_count > 0 /\ q[1] = levels[s][p].head
    /\ \A p : p \notin DOMAIN levels[s] =>
         OrdersAt(s, p) = {} /\ RawFifo(s, p) = <<>> /\ ReadsAs(<<>>, 0, s, p)

LEMMA LevelsAlwaysRead == LevelsRead
BY LevelReads, NoLevelReads DEF LevelsRead

LEMMA LevelsReadNext == LevelsRead'
BY LevelsAlwaysRead, PTL

(* A price has a queue, empty when it has no level.                        *)
LEMMA PriceReads ==
  ASSUME StoreInv, Open, NEW s \in Side, NEW p
  PROVE  \E q, n : /\ ReadsAs(q, n, s, p)
                   /\ p \in DOMAIN levels[s] <=> n > 0
                   /\ p \in DOMAIN levels[s] => q[1] = levels[s][p].head
<1>1. CASE p \in DOMAIN levels[s]
  <2>1. PICK q : Listed(q, s, p)
    BY <1>1 DEF StoreInv, QueuesWellFormed, Listed
  <2> QED
    BY <1>1, <2>1, LevelReads
<1>2. CASE p \notin DOMAIN levels[s]
  BY <1>2, NoLevelReads
<1> QED
  BY <1>1, <1>2

LEMMA ReadingFacts ==
  ASSUME StoreInv, NEW s \in Side, NEW p, NEW q, NEW n, ReadsAs(q, n, s, p)
  PROVE  /\ n \in Nat /\ RawFifo(s, p) \in Seq(Shown) /\ Len(RawFifo(s, p)) = n
         /\ \A i \in 1 .. n : /\ q[i] \in live /\ q[i] \in OrdersAt(s, p)
                              /\ RawFifo(s, p)[i] = [id |-> mem[q[i]].id, qty |-> mem[q[i]].qty]
<1>1. /\ n \in Nat /\ DOMAIN q = 1 .. n /\ RawFifo(s, p) = Reading(q)
      /\ \A i \in 1 .. n : q[i] \in OrdersAt(s, p)
  BY DEF ReadsAs, Enumerates
<1>2. \A a \in OrdersAt(s, p) : a \in live /\ [id |-> mem[a].id, qty |-> mem[a].qty] \in Shown
  BY DEF OrdersAt, StoreInv, StoreTypeOK, PoolTypeOK, Order, Shown
<1>3. Reading(q) = [i \in 1 .. n |-> [id |-> mem[q[i]].id, qty |-> mem[q[i]].qty]]
  BY <1>1 DEF Reading
<1>4. Reading(q) \in [1 .. n -> Shown]
  BY <1>1, <1>2, <1>3
<1> QED
  BY <1>1, <1>2, <1>3, <1>4

LEMMA FifoIsSeen ==
  ASSUME StoreInv, Open, NEW s \in Side, NEW p
  PROVE  FifoAt(s, p) = Seen(RawFifo(s, p))
<1>1. PICK q, n : ReadsAs(q, n, s, p) /\ (p \in DOMAIN levels[s] <=> n > 0)
  BY PriceReads
<1>2. RawFifo(s, p) \in Seq(Shown) /\ Len(RawFifo(s, p)) = n
  BY <1>1, ReadingFacts
<1>3. CASE p \in DOMAIN levels[s]
  <2>1. RawFifo(s, p) # <<>>
    BY <1>1, <1>2, <1>3
  <2> QED
    BY <1>3, <2>1 DEF FifoAt, Seen, RawFifo, Reading
<1>4. CASE p \notin DOMAIN levels[s]
  BY <1>4 DEF FifoAt, RawFifo, Seen
<1> QED
  BY <1>3, <1>4

(* Which edit a queue has had, from the orders that left or joined.        *)
LEMMA EditSame ==
  ASSUME NEW q, NEW f, NEW n, NEW m, NEW A, Enumerates(q, n, A), Enumerates(f, m, A),
         Edited(q, f, n)
  PROVE  f = q
<1>1. ASSUME NEW k \in 1 .. n, f = Cut(q, n, k) PROVE FALSE
  <2>1. PICK i \in 1 .. m : f[i] = q[k]
    BY DEF Enumerates
  <2>0. n \in Nat /\ \A j \in 1 .. n : q[j] = q[k] => j = k
    BY DEF Enumerates
  <2>2. DOMAIN f = 1 .. n - 1
    BY <1>1 DEF Cut
  <2>3. i \in 1 .. n - 1
    BY <2>2 DEF Enumerates
  <2>4. f[i] = IF i < k THEN q[i] ELSE q[i + 1]
    BY <1>1, <2>3 DEF Cut
  <2>5. i \in 1 .. n /\ i + 1 \in 1 .. n /\ (i < k => i # k) /\ (~(i < k) => i + 1 # k)
    BY <2>0, <2>3
  <2> QED
    BY <2>0, <2>1, <2>4, <2>5
<1>2. ASSUME NEW a, f = Pushed(q, n, a) PROVE FALSE
  <2>0. n \in Nat
    BY DEF Enumerates
  <2>1. n + 1 \in DOMAIN f /\ f[n + 1] = a /\ \A i \in 1 .. n : f[i] = q[i] /\ i \in DOMAIN f
    BY <1>2, <2>0 DEF Pushed
  <2>2. a \in A
    BY <2>1 DEF Enumerates
  <2>3. PICK i \in 1 .. n : q[i] = a
    BY <2>2 DEF Enumerates
  <2>4. f[i] = f[n + 1] /\ i \in DOMAIN f
    BY <2>1, <2>3
  <2>5. i = n + 1
    BY <2>1, <2>4 DEF Enumerates
  <2> QED
    BY <2>0, <2>5
<1> QED
  BY <1>1, <1>2 DEF Edited

LEMMA EditCut ==
  ASSUME NEW q, NEW f, NEW n, NEW m, NEW A, NEW k \in 1 .. n, Enumerates(q, n, A),
         Enumerates(f, m, A \ {q[k]}), Edited(q, f, n)
  PROVE  f = Cut(q, n, k)
<1>0. n \in Nat /\ \A i \in 1 .. n : q[i] = q[k] => i = k
  BY DEF Enumerates
<1>1. ASSUME f = q PROVE FALSE
  <2>1. k \in DOMAIN f
    BY <1>1 DEF Enumerates
  <2> QED
    BY <1>1, <2>1 DEF Enumerates
<1>2. ASSUME NEW a, f = Pushed(q, n, a) PROVE FALSE
  <2>1. k \in DOMAIN f /\ f[k] = q[k]
    BY <1>0, <1>2 DEF Pushed
  <2> QED
    BY <2>1 DEF Enumerates
<1>3. ASSUME NEW j \in 1 .. n, f = Cut(q, n, j), j # k PROVE FALSE
  <2>1. CASE k < j
    <3>1. k \in 1 .. n - 1
      BY <1>0, <2>1
    <3>2. k \in DOMAIN f /\ f[k] = q[k]
      BY <1>3, <2>1, <3>1 DEF Cut
    <3> QED
      BY <3>2 DEF Enumerates
  <2>2. CASE j < k
    <3>1. k - 1 \in 1 .. n - 1 /\ ~(k - 1 < j) /\ k - 1 + 1 = k
      BY <1>0, <2>2
    <3>2. k - 1 \in DOMAIN f /\ f[k - 1] = q[k]
      BY <1>3, <3>1 DEF Cut
    <3> QED
      BY <3>2 DEF Enumerates
  <2> QED
    BY <1>0, <1>3, <2>1, <2>2
<1> QED
  BY <1>1, <1>2, <1>3 DEF Edited

LEMMA EditPush ==
  ASSUME NEW q, NEW f, NEW n, NEW m, NEW A, NEW a, a \notin A, Enumerates(q, n, A),
         Enumerates(f, m, A \cup {a}), Edited(q, f, n)
  PROVE  f = Pushed(q, n, a)
<1>0. n \in Nat /\ \A i \in 1 .. n : q[i] # a
  BY DEF Enumerates
<1>1. PICK i \in 1 .. m : f[i] = a
  BY DEF Enumerates
<1>2. ASSUME f = q PROVE FALSE
  <2>1. i \in 1 .. n
    BY <1>2 DEF Enumerates
  <2> QED
    BY <1>0, <1>1, <1>2, <2>1
<1>3. ASSUME NEW k \in 1 .. n, f = Cut(q, n, k) PROVE FALSE
  <2>1. DOMAIN f = 1 .. n - 1
    BY <1>3 DEF Cut
  <2>2. i \in 1 .. n - 1
    BY <2>1 DEF Enumerates
  <2>3. f[i] = IF i < k THEN q[i] ELSE q[i + 1]
    BY <1>3, <2>2 DEF Cut
  <2>4. i \in 1 .. n /\ i + 1 \in 1 .. n
    BY <1>0, <2>2
  <2> QED
    BY <1>0, <1>1, <2>3, <2>4
<1>4. ASSUME NEW b, f = Pushed(q, n, b) PROVE b = a
  <2>1. DOMAIN f = 1 .. n + 1 /\ \A j \in 1 .. n + 1 : f[j] = IF j = n + 1 THEN b ELSE q[j]
    BY <1>4 DEF Pushed
  <2>2. i \in 1 .. n + 1
    BY <2>1 DEF Enumerates
  <2>3. i = n + 1 \/ i \in 1 .. n
    BY <1>0, <2>2
  <2> QED
    BY <1>0, <1>1, <2>1, <2>2, <2>3
<1> QED
  BY <1>2, <1>3, <1>4 DEF Edited

(* What a step makes of the queue at a price, from what became of its      *)
(* orders.                                                                 *)
LEMMA QueueSame ==
  ASSUME StoreInv, Open, StoreInv', Open', NEW s \in Side, NEW p,
         OrdersAt(s, p)' = OrdersAt(s, p),
         p \in DOMAIN levels'[s] => p \in DOMAIN levels[s] /\ QueueKept(s, p)
  PROVE  \E q, n : /\ ReadsAs(q, n, s, p) /\ ReadsAs(q, n, s, p)'
                   /\ p \in DOMAIN levels[s] => n > 0 /\ q[1] = levels[s][p].head
<1>1. CASE p \in DOMAIN levels'[s]
  <2>1. PICK q, f : /\ Listed(q, s, p) /\ Listed(f, s, p)'
                    /\ Edited(q, f, levels[s][p].order_count)
    BY <1>1 DEF QueueKept
  <2>2. PICK n : n = levels[s][p].order_count
    OBVIOUS
  <2>3. PICK m : m = levels'[s][p].order_count
    OBVIOUS
  <2>4. ReadsAs(q, n, s, p) /\ n > 0 /\ q[1] = levels[s][p].head
    BY <1>1, <2>1, <2>2, LevelReads
  <2>5. ReadsAs(f, m, s, p)'
    BY <1>1, <2>1, <2>3, LevelsReadNext DEF LevelsRead
  <2>6. Enumerates(q, n, OrdersAt(s, p)) /\ Enumerates(f, m, OrdersAt(s, p))
    BY <2>4, <2>5 DEF ReadsAs
  <2>7. f = q /\ n = m
    <3>1. f = q
      BY <2>1, <2>2, <2>6, EditSame
    <3>2. n \in Nat /\ m \in Nat /\ 1 .. n = 1 .. m
      BY <2>6, <3>1 DEF Enumerates
    <3> QED
      BY <3>1, <3>2, <2>4
  <2> QED
    BY <2>4, <2>5, <2>7
<1>2. CASE p \notin DOMAIN levels'[s]
  <2>1. OrdersAt(s, p)' = {} /\ ReadsAs(<<>>, 0, s, p)'
    BY <1>2, LevelsReadNext DEF LevelsRead
  <2>2. PICK q, n : /\ ReadsAs(q, n, s, p)
                    /\ p \in DOMAIN levels[s] <=> n > 0
                    /\ p \in DOMAIN levels[s] => q[1] = levels[s][p].head
    BY PriceReads
  <2>3. n \in Nat /\ ~(n > 0)
    <3>1. n \in Nat /\ \A i \in 1 .. n : FALSE
      BY <2>1, <2>2 DEF ReadsAs, Enumerates
    <3> QED
      BY <3>1
  <2>4. p \notin DOMAIN levels[s]
    BY <2>2, <2>3
  <2> QED
    BY <2>1, <2>4, NoLevelReads
<1> QED
  BY <1>1, <1>2

LEMMA QueueCut ==
  ASSUME StoreInv, Open, StoreInv', Open', NEW s \in Side, NEW p, NEW a \in OrdersAt(s, p),
         OrdersAt(s, p)' = OrdersAt(s, p) \ {a},
         p \in DOMAIN levels'[s] => p \in DOMAIN levels[s] /\ QueueKept(s, p)
  PROVE  \E q, n, k : /\ ReadsAs(q, n, s, p) /\ k \in 1 .. n /\ q[k] = a
                      /\ ReadsAs(Cut(q, n, k), n - 1, s, p)'
                      /\ p \in DOMAIN levels[s] /\ q[1] = levels[s][p].head
<1>1. CASE p \in DOMAIN levels'[s]
  <2>1. PICK q, f : /\ Listed(q, s, p) /\ Listed(f, s, p)'
                    /\ Edited(q, f, levels[s][p].order_count)
    BY <1>1 DEF QueueKept
  <2>2. PICK n : n = levels[s][p].order_count
    OBVIOUS
  <2>3. PICK m : m = levels'[s][p].order_count
    OBVIOUS
  <2>4. ReadsAs(q, n, s, p) /\ n > 0 /\ q[1] = levels[s][p].head
    BY <1>1, <2>1, <2>2, LevelReads
  <2>5. ReadsAs(f, m, s, p)'
    BY <1>1, <2>1, <2>3, LevelsReadNext DEF LevelsRead
  <2>6. Enumerates(q, n, OrdersAt(s, p)) /\ Enumerates(f, m, OrdersAt(s, p) \ {a})
    BY <2>4, <2>5 DEF ReadsAs
  <2>7. PICK k \in 1 .. n : q[k] = a
    BY <2>6 DEF Enumerates
  <2>8. f = Cut(q, n, k) /\ m = n - 1
    <3>1. f = Cut(q, n, k)
      BY <2>1, <2>2, <2>6, <2>7, EditCut
    <3>2. n \in Nat /\ m \in Nat /\ 1 .. n - 1 = 1 .. m
      BY <2>6, <3>1 DEF Enumerates, Cut
    <3> QED
      BY <3>1, <3>2, <2>4
  <2> QED
    BY <1>1, <2>4, <2>5, <2>7, <2>8
<1>2. CASE p \notin DOMAIN levels'[s]
  <2>1. OrdersAt(s, p)' = {} /\ ReadsAs(<<>>, 0, s, p)'
    BY <1>2, LevelsReadNext DEF LevelsRead
  <2>2. PICK q, n : /\ ReadsAs(q, n, s, p)
                    /\ p \in DOMAIN levels[s] <=> n > 0
                    /\ p \in DOMAIN levels[s] => q[1] = levels[s][p].head
    BY PriceReads
  <2>3. Enumerates(q, n, {a})
    BY <2>1, <2>2 DEF ReadsAs
  <2>4. n = 1 /\ q[1] = a
    <3>1. n \in Nat /\ n >= 1
      BY <2>3 DEF Enumerates
    <3>2. n > 1 => q[1] = a /\ q[2] = a
      BY <2>3, <3>1 DEF Enumerates
    <3>3. ~(n > 1)
      BY <2>3, <3>1, <3>2 DEF Enumerates
    <3> QED
      BY <2>3, <3>1, <3>3 DEF Enumerates
  <2>5. Cut(q, n, 1) = <<>>
    BY <2>4 DEF Cut
  <2> QED
    BY <2>1, <2>2, <2>4, <2>5
<1> QED
  BY <1>1, <1>2

LEMMA QueuePush ==
  ASSUME StoreInv, Open, StoreInv', Open', NEW s \in Side, NEW p, NEW a, a \notin OrdersAt(s, p),
         OrdersAt(s, p)' = OrdersAt(s, p) \cup {a},
         p \in DOMAIN levels'[s] /\ p \in DOMAIN levels[s] => QueueKept(s, p)
  PROVE  \E q, n : /\ ReadsAs(q, n, s, p) /\ ReadsAs(Pushed(q, n, a), n + 1, s, p)'
                   /\ p \in DOMAIN levels'[s]
<1>0. p \in DOMAIN levels'[s]
  <2>1. OrdersAt(s, p)' # {}
    OBVIOUS
  <2> QED
    BY <2>1, LevelsReadNext DEF LevelsRead
<1>1. CASE p \in DOMAIN levels[s]
  <2>1. PICK q, f : /\ Listed(q, s, p) /\ Listed(f, s, p)'
                    /\ Edited(q, f, levels[s][p].order_count)
    BY <1>0, <1>1 DEF QueueKept
  <2>2. PICK n : n = levels[s][p].order_count
    OBVIOUS
  <2>3. PICK m : m = levels'[s][p].order_count
    OBVIOUS
  <2>4. ReadsAs(q, n, s, p)
    BY <1>1, <2>1, <2>2, LevelReads
  <2>5. ReadsAs(f, m, s, p)'
    BY <1>0, <2>1, <2>3, LevelsReadNext DEF LevelsRead
  <2>6. Enumerates(q, n, OrdersAt(s, p)) /\ Enumerates(f, m, OrdersAt(s, p) \cup {a})
    BY <2>4, <2>5 DEF ReadsAs
  <2>8. f = Pushed(q, n, a) /\ m = n + 1
    <3>1. f = Pushed(q, n, a)
      BY <2>1, <2>2, <2>6, EditPush
    <3>2. n \in Nat /\ m \in Nat /\ 1 .. n + 1 = 1 .. m
      BY <2>6, <3>1 DEF Enumerates, Pushed
    <3> QED
      BY <3>1, <3>2
  <2> QED
    BY <1>0, <2>4, <2>5, <2>8
<1>2. CASE p \notin DOMAIN levels[s]
  <2>1. OrdersAt(s, p) = {} /\ ReadsAs(<<>>, 0, s, p)
    BY <1>2, NoLevelReads
  <2>2. PICK f : Listed(f, s, p)'
    BY <1>0 DEF StoreInv, QueuesWellFormed, Listed
  <2>3. PICK m : m = levels'[s][p].order_count
    OBVIOUS
  <2>4. ReadsAs(f, m, s, p)'
    BY <1>0, <2>2, <2>3, LevelsReadNext DEF LevelsRead
  <2>5. Enumerates(f, m, {a})
    BY <2>1, <2>4 DEF ReadsAs
  <2>6. m = 1 /\ f[1] = a /\ DOMAIN f = 1 .. 1
    <3>1. m \in Nat /\ m >= 1
      BY <2>5 DEF Enumerates
    <3>2. m > 1 => f[1] = a /\ f[2] = a
      BY <2>5, <3>1 DEF Enumerates
    <3>3. ~(m > 1)
      BY <2>5, <3>1, <3>2 DEF Enumerates
    <3> QED
      BY <2>5, <3>1, <3>3 DEF Enumerates
  <2>7. Reading(f)' = Reading(Pushed(<<>>, 0, a))'
    <3>1. DOMAIN Pushed(<<>>, 0, a) = 1 .. 1 /\ Pushed(<<>>, 0, a)[1] = a
      BY DEF Pushed
    <3> QED
      BY <2>6, <3>1 DEF Reading
  <2>8. Enumerates(Pushed(<<>>, 0, a), 1, {a})
    BY DEF Enumerates, Pushed
  <2>9. ReadsAs(Pushed(<<>>, 0, a), 0 + 1, s, p)'
    BY <2>1, <2>4, <2>7, <2>8 DEF ReadsAs
  <2> QED
    BY <1>0, <2>1, <2>9
<1> QED
  BY <1>1, <1>2

(* ... and of its entries.                                                 *)
LEMMA RawSame ==
  ASSUME StoreInv, Open, StoreInv', Open', NEW s \in Side, NEW p,
         OrdersAt(s, p)' = OrdersAt(s, p),
         p \in DOMAIN levels'[s] => p \in DOMAIN levels[s] /\ QueueKept(s, p),
         \A x \in OrdersAt(s, p) : mem'[x].id = mem[x].id /\ mem'[x].qty = mem[x].qty
  PROVE  RawFifo(s, p)' = RawFifo(s, p)
<1>1. PICK q, n : ReadsAs(q, n, s, p) /\ ReadsAs(q, n, s, p)'
  BY QueueSame
<1>2. /\ RawFifo(s, p) = Reading(q) /\ RawFifo(s, p)' = Reading(q)'
      /\ DOMAIN q = 1 .. n /\ \A i \in 1 .. n : q[i] \in OrdersAt(s, p)
  BY <1>1 DEF ReadsAs, Enumerates
<1>3. Reading(q)' = Reading(q)
  BY <1>2 DEF Reading
<1> QED
  BY <1>2, <1>3

\* In g the k-th entry of f has the size v, in place of its own.
ResizedAt(g, f, k, entry, v) ==
  k \in 1 .. Len(f) /\ f[k] = entry /\ g = [f EXCEPT ![k].qty = v]

LEMMA RawResized ==
  ASSUME StoreInv, Open, StoreInv', Open', NEW s \in Side, NEW p, NEW a \in OrdersAt(s, p),
         OrdersAt(s, p)' = OrdersAt(s, p),
         p \in DOMAIN levels'[s] => p \in DOMAIN levels[s] /\ QueueKept(s, p),
         \A x \in OrdersAt(s, p) : /\ mem'[x].id = mem[x].id
                                   /\ x # a => mem'[x].qty = mem[x].qty
  PROVE  \E k : /\ ResizedAt(RawFifo(s, p)', RawFifo(s, p), k,
                             [id |-> mem[a].id, qty |-> mem[a].qty], mem'[a].qty)
                /\ a = levels[s][p].head => k = 1
<1>1. PICK q, n : /\ ReadsAs(q, n, s, p) /\ ReadsAs(q, n, s, p)'
                  /\ p \in DOMAIN levels[s] => n > 0 /\ q[1] = levels[s][p].head
  BY QueueSame
<1>2. /\ RawFifo(s, p) = Reading(q) /\ RawFifo(s, p)' = Reading(q)'
      /\ DOMAIN q = 1 .. n /\ \A i \in 1 .. n : q[i] \in OrdersAt(s, p)
      /\ \A i, j \in 1 .. n : q[i] = q[j] => i = j
  BY <1>1 DEF ReadsAs, Enumerates
<1>3. /\ n \in Nat /\ Len(RawFifo(s, p)) = n
      /\ \A i \in 1 .. n : RawFifo(s, p)[i] = [id |-> mem[q[i]].id, qty |-> mem[q[i]].qty]
  BY <1>1, ReadingFacts
<1>4. PICK k \in 1 .. n : q[k] = a
  BY <1>1 DEF ReadsAs, Enumerates
<1>5. Reading(q)' = [Reading(q) EXCEPT ![k].qty = mem'[a].qty]
  <2>1. \A i \in 1 .. n : i # k => q[i] # a
    BY <1>2, <1>4
  <2>2. PICK r : r = Reading(q)
    OBVIOUS
  <2>3. Reading(q)' = [i \in 1 .. n |-> [id |-> mem'[q[i]].id, qty |-> mem'[q[i]].qty]]
    BY <1>2 DEF Reading
  <2>4. \A i \in 1 .. n : i # k => mem'[q[i]].id = mem[q[i]].id /\ mem'[q[i]].qty = mem[q[i]].qty
    BY <1>2, <2>1
  <2>5. mem'[q[k]].id = mem[q[k]].id /\ q[k] = a
    BY <1>4
  <2>6. DOMAIN r = 1 .. n /\ r = [i \in 1 .. n |-> r[i]]
    BY <1>2, <2>2 DEF Reading
  <2>7. \A i \in 1 .. n : r[i] = [id |-> mem[q[i]].id, qty |-> mem[q[i]].qty]
    BY <1>2, <1>3, <2>2
  <2>8. PICK v : v = mem'[a].qty
    OBVIOUS
  <2>9. [r EXCEPT ![k].qty = v] = [i \in 1 .. n |-> IF i = k THEN [r[k] EXCEPT !.qty = v] ELSE r[i]]
    BY <2>6
  <2>10. [r[k] EXCEPT !.qty = v] = [id |-> mem[q[k]].id, qty |-> v]
    <3>1. PICK x, y : x = mem[q[k]].id /\ y = mem[q[k]].qty
      OBVIOUS
    <3>2. r[k] = [id |-> x, qty |-> y]
      BY <2>7, <3>1
    <3>3. [r[k] EXCEPT !.qty = v] = [id |-> x, qty |-> v]
      BY ONLY <3>2
    <3> QED
      BY <3>1, <3>3
  <2>11. \A i \in 1 .. n : [id |-> mem'[q[i]].id, qty |-> mem'[q[i]].qty]
                             = IF i = k THEN [r[k] EXCEPT !.qty = v] ELSE r[i]
    BY <2>4, <2>5, <2>7, <2>8, <2>10
  <2> QED
    BY <2>2, <2>3, <2>8, <2>9, <2>11
<1>6. a = levels[s][p].head => k = 1
  <2>1. p \in DOMAIN levels[s]
    BY NoLevelReads
  <2> QED
    BY <1>1, <1>2, <1>3, <1>4, <2>1
<1> QED
  BY <1>2, <1>3, <1>4, <1>5, <1>6 DEF ResizedAt

LEMMA RawCut ==
  ASSUME StoreInv, Open, StoreInv', Open', NEW s \in Side, NEW p, NEW a \in OrdersAt(s, p),
         OrdersAt(s, p)' = OrdersAt(s, p) \ {a},
         p \in DOMAIN levels'[s] => p \in DOMAIN levels[s] /\ QueueKept(s, p),
         \A x \in OrdersAt(s, p) : x # a =>
           mem'[x].id = mem[x].id /\ mem'[x].qty = mem[x].qty
  PROVE  \E k : /\ k \in 1 .. Len(RawFifo(s, p))
                /\ RawFifo(s, p)[k] = [id |-> mem[a].id, qty |-> mem[a].qty]
                /\ RawFifo(s, p)' = Cut(RawFifo(s, p), Len(RawFifo(s, p)), k)
                /\ a = levels[s][p].head => k = 1
<1>1. PICK q, n, k : /\ ReadsAs(q, n, s, p) /\ k \in 1 .. n /\ q[k] = a
                     /\ ReadsAs(Cut(q, n, k), n - 1, s, p)'
                     /\ p \in DOMAIN levels[s] /\ q[1] = levels[s][p].head
  BY QueueCut
<1>2. /\ RawFifo(s, p) = Reading(q) /\ RawFifo(s, p)' = Reading(Cut(q, n, k))'
      /\ DOMAIN q = 1 .. n /\ \A i \in 1 .. n : q[i] \in OrdersAt(s, p)
      /\ \A i, j \in 1 .. n : q[i] = q[j] => i = j
  BY <1>1 DEF ReadsAs, Enumerates
<1>3. /\ n \in Nat /\ Len(RawFifo(s, p)) = n
      /\ \A i \in 1 .. n : RawFifo(s, p)[i] = [id |-> mem[q[i]].id, qty |-> mem[q[i]].qty]
  BY <1>1, ReadingFacts
<1>5. Reading(Cut(q, n, k))' = Cut(RawFifo(s, p), n, k)
  <2> DEFINE pos(i) == IF i < k THEN i ELSE i + 1
  <2>1. \A i \in 1 .. n - 1 : pos(i) \in 1 .. n /\ pos(i) # k
    BY <1>1, <1>3
  <2>2. Cut(q, n, k) = [i \in 1 .. n - 1 |-> q[pos(i)]]
    BY DEF Cut
  <2>3. Cut(RawFifo(s, p), n, k) = [i \in 1 .. n - 1 |-> RawFifo(s, p)[pos(i)]]
    BY DEF Cut
  <2> HIDE DEF pos
  <2>4. Reading(Cut(q, n, k))'
          = [i \in 1 .. n - 1 |-> [id |-> mem'[q[pos(i)]].id, qty |-> mem'[q[pos(i)]].qty]]
    BY <2>2 DEF Reading
  <2>5. \A i \in 1 .. n - 1 : /\ q[pos(i)] \in OrdersAt(s, p) /\ q[pos(i)] # a
                              /\ RawFifo(s, p)[pos(i)] = [id |-> mem[q[pos(i)]].id, qty |-> mem[q[pos(i)]].qty]
    BY <1>1, <1>2, <1>3, <2>1
  <2>6. \A i \in 1 .. n - 1 : /\ mem'[q[pos(i)]].id = mem[q[pos(i)]].id
                              /\ mem'[q[pos(i)]].qty = mem[q[pos(i)]].qty
    BY <2>5
  <2> QED
    BY <2>3, <2>4, <2>5, <2>6
<1>6. a = levels[s][p].head => k = 1
  BY <1>1, <1>2, <1>3
<1> QED
  BY <1>1, <1>2, <1>3, <1>5, <1>6

LEMMA RawPush ==
  ASSUME StoreInv, Open, StoreInv', Open', NEW s \in Side, NEW p, NEW a, a \notin OrdersAt(s, p),
         OrdersAt(s, p)' = OrdersAt(s, p) \cup {a},
         p \in DOMAIN levels'[s] /\ p \in DOMAIN levels[s] => QueueKept(s, p),
         \A x \in OrdersAt(s, p) : mem'[x].id = mem[x].id /\ mem'[x].qty = mem[x].qty
  PROVE  /\ RawFifo(s, p)' = Append(RawFifo(s, p), [id |-> mem'[a].id, qty |-> mem'[a].qty])
         /\ p \in DOMAIN levels'[s]
<1>1. PICK q, n : /\ ReadsAs(q, n, s, p) /\ ReadsAs(Pushed(q, n, a), n + 1, s, p)'
                  /\ p \in DOMAIN levels'[s]
  BY QueuePush
<1>2. /\ RawFifo(s, p) = Reading(q) /\ RawFifo(s, p)' = Reading(Pushed(q, n, a))'
      /\ DOMAIN q = 1 .. n /\ \A i \in 1 .. n : q[i] \in OrdersAt(s, p)
  BY <1>1 DEF ReadsAs, Enumerates
<1>3. /\ n \in Nat /\ Len(RawFifo(s, p)) = n /\ RawFifo(s, p) \in Seq(Shown)
      /\ \A i \in 1 .. n : RawFifo(s, p)[i] = [id |-> mem[q[i]].id, qty |-> mem[q[i]].qty]
  BY <1>1, ReadingFacts
<1>4. \A i \in 1 .. n + 1 : i # n + 1 => i \in 1 .. n
  BY <1>3
<1>5. PICK e : e = [id |-> mem'[a].id, qty |-> mem'[a].qty]
  OBVIOUS
<1>6. Reading(Pushed(q, n, a))' = [i \in 1 .. n + 1 |-> IF i = n + 1 THEN e ELSE RawFifo(s, p)[i]]
  <2>1. Pushed(q, n, a) = [i \in 1 .. n + 1 |-> IF i = n + 1 THEN a ELSE q[i]]
    BY DEF Pushed
  <2>2. Reading(Pushed(q, n, a))'
          = [i \in 1 .. n + 1 |-> IF i = n + 1 THEN e
                                  ELSE [id |-> mem'[q[i]].id, qty |-> mem'[q[i]].qty]]
    BY <1>5, <2>1 DEF Reading
  <2>3. \A i \in 1 .. n : [id |-> mem'[q[i]].id, qty |-> mem'[q[i]].qty] = RawFifo(s, p)[i]
    BY <1>2, <1>3
  <2> QED
    BY <1>4, <2>2, <2>3
<1>7. Append(RawFifo(s, p), e) = [i \in 1 .. n + 1 |-> IF i = n + 1 THEN e ELSE RawFifo(s, p)[i]]
  <2>1. PICK f : f = RawFifo(s, p)
    OBVIOUS
  <2>2. PICK E : E = Shown \cup {e}
    OBVIOUS
  <2>3. f \in Seq(E) /\ e \in E /\ Len(f) = n
    BY <1>3, <2>1, <2>2
  <2>4. Append(f, e) = [i \in 1 .. n + 1 |-> IF i = n + 1 THEN e ELSE f[i]]
    <3>1. /\ Len(Append(f, e)) = n + 1 /\ Append(f, e) \in Seq(E) /\ Append(f, e)[n + 1] = e
          /\ \A i \in 1 .. n : Append(f, e)[i] = f[i]
      BY ONLY <2>3
    <3>2. DOMAIN Append(f, e) = 1 .. n + 1 /\ Append(f, e) = [i \in 1 .. n + 1 |-> Append(f, e)[i]]
      <4>1. PICK g : g = Append(f, e)
        OBVIOUS
      <4>2. g \in Seq(E) /\ Len(g) = n + 1
        BY <3>1, <4>1
      <4>3. DOMAIN g = 1 .. n + 1 /\ g = [i \in 1 .. n + 1 |-> g[i]]
        BY ONLY <4>2
      <4> QED
        BY <4>1, <4>3
    <3> QED
      BY <1>4, <3>1, <3>2
  <2> QED
    BY <2>1, <2>4
<1> QED
  BY <1>1, <1>2, <1>5, <1>6, <1>7

-----------------------------------------------------------------------------
(* A FIFO without its k-th entry.                                          *)
LEMMA CutFront ==
  ASSUME NEW E, NEW f \in Seq(E), f # <<>>
  PROVE  Cut(f, Len(f), 1) = Tail(f)
<1>1. Len(f) \in Nat /\ Len(f) >= 1
  OBVIOUS
<1>2. Cut(f, Len(f), 1) = [i \in 1 .. Len(f) - 1 |-> f[i + 1]]
  BY DEF Cut
<1>3. Len(Tail(f)) = Len(f) - 1 /\ Tail(f) \in Seq(E) /\ \A i \in 1 .. Len(f) - 1 : Tail(f)[i] = f[i + 1]
  BY <1>1
<1>4. Tail(f) = [i \in 1 .. Len(f) - 1 |-> Tail(f)[i]]
  <2>1. PICK t : t = Tail(f)
    OBVIOUS
  <2>2. t \in Seq(E) /\ Len(t) = Len(f) - 1
    BY <1>3, <2>1
  <2>3. t = [i \in 1 .. Len(f) - 1 |-> t[i]]
    BY ONLY <2>2
  <2> QED
    BY <2>1, <2>3
<1> QED
  BY <1>2, <1>3, <1>4

LEMMA CutIsSelected ==
  ASSUME NEW E, NEW f \in Seq(E), NEW k \in 1 .. Len(f), NEW D,
         \A i \in 1 .. Len(f) : i \in D <=> i # k
  PROVE  EntriesAt(f, D) = Cut(f, Len(f), k)
<1>0. PICK n \in Nat : n = Len(f)
  OBVIOUS
<1>1. PICK v : Selects(v, f, D, n) /\ EntriesAt(f, D) = v[n]
  BY <1>0, EntriesAtSelects
<1>2. v[0] = <<>> /\ \A m \in 1 .. n : v[m] = IF m \in D THEN Append(v[m - 1], f[m]) ELSE v[m - 1]
  BY <1>1, SelectsStep
<1>3. \A i \in 1 .. n : f[i] \in E
  BY <1>0
<1> DEFINE upTo(m) == IF m < k THEN [i \in 1 .. m |-> f[i]] ELSE Cut(f, m, k)
           G == {m \in Nat : m <= n => v[m] = upTo(m) /\ v[m] \in Seq(E)}
<1>u. /\ \A m \in Nat : m < k => upTo(m) = [i \in 1 .. m |-> f[i]]
      /\ \A m \in Nat : ~(m < k) => upTo(m) = Cut(f, m, k)
  OBVIOUS
<1> HIDE DEF upTo
<1>4. 0 \in G
  <2>1. [i \in 1 .. 0 |-> f[i]] = <<>> /\ <<>> \in Seq(E)
    OBVIOUS
  <2> QED
    BY <1>0, <1>u, <1>2, <2>1
<1>5. ASSUME NEW m \in Nat, m \in G PROVE m + 1 \in G
  <2> SUFFICES ASSUME m + 1 <= n PROVE v[m + 1] = upTo(m + 1) /\ v[m + 1] \in Seq(E)
    OBVIOUS
  <2>1. v[m] = upTo(m) /\ v[m] \in Seq(E) /\ m + 1 \in 1 .. n /\ f[m + 1] \in E /\ m + 1 - 1 = m
    BY <1>3, <1>5
  <2>2. CASE m + 1 = k
    <3>1. v[m + 1] = v[m]
      <4>1. m + 1 \notin D
        BY <1>0, <2>1, <2>2
      <4>2. v[m + 1] = v[m + 1 - 1]
        BY <1>2, <2>1, <4>1
      <4> QED
        BY <2>1, <4>2
    <3>2. v[m] = [i \in 1 .. m |-> f[i]]
      BY <2>1, <2>2, <1>0, <1>u
    <3>3. Cut(f, m + 1, k) = [i \in 1 .. m |-> f[i]]
      BY <2>2, <1>0 DEF Cut
    <3> QED
      BY <2>1, <2>2, <3>1, <3>2, <3>3, <1>0, <1>u
  <2>3. CASE m + 1 # k
    <3>1. v[m + 1] = Append(v[m], f[m + 1])
      <4>1. m + 1 \in D
        BY <1>0, <2>1, <2>3
      <4>2. PICK j \in 1 .. n : j = m + 1 /\ j - 1 = m /\ j \in D
        BY <2>1, <4>1
      <4>3. v[j] = Append(v[j - 1], f[j])
        BY <1>2, <4>2
      <4> QED
        BY <4>2, <4>3
    <3>2. CASE m + 1 < k
      <4>1. v[m] = [i \in 1 .. m |-> f[i]]
        BY <2>1, <3>2, <1>0, <1>u
      <4>2. Append(v[m], f[m + 1]) = [i \in 1 .. m + 1 |-> f[i]]
        BY <4>1, <2>1
      <4> QED
        <5>1. upTo(m + 1) = [i \in 1 .. m + 1 |-> f[i]]
          BY <1>u, <3>2
        <5>2. Append(v[m], f[m + 1]) \in Seq(E)
          BY <2>1
        <5> QED
          BY <3>1, <4>2, <5>1, <5>2
    <3>3. CASE k < m + 1
      <4>1. v[m] = [i \in 1 .. m - 1 |-> IF i < k THEN f[i] ELSE f[i + 1]] /\ m - 1 \in Nat
        BY <2>1, <3>3, <1>0, <1>u DEF Cut
      <4>2. Append(v[m], f[m + 1]) = [i \in 1 .. m |-> IF i < k THEN f[i] ELSE f[i + 1]]
        BY <4>1, <2>1, <3>3
      <4>3. Cut(f, m + 1, k) = [i \in 1 .. m |-> IF i < k THEN f[i] ELSE f[i + 1]]
        BY DEF Cut
      <4> QED
        <5>1. upTo(m + 1) = Cut(f, m + 1, k)
          BY <1>0, <1>u, <3>3
        <5>2. Append(v[m], f[m + 1]) \in Seq(E)
          BY <2>1
        <5>3. Cut(f, m + 1, k) = Append(v[m], f[m + 1])
          BY <4>2, <4>3
        <5> QED
          BY <3>1, <5>1, <5>2, <5>3
    <3> QED
      BY <1>0, <2>3, <3>2, <3>3
  <2> QED
    BY <2>2, <2>3
<1> HIDE DEF G
<1>6. n \in G
  BY <1>4, <1>5, NumberInduction
<1> USE DEF G
<1>7. v[n] = Cut(f, n, k)
  BY <1>0, <1>6, <1>u
<1> QED
  BY <1>0, <1>1, <1>7

LEMMA CutIsWithoutId ==
  ASSUME NEW E, NEW f \in Seq(E), NEW k \in 1 .. Len(f), NEW id,
         \A i \in 1 .. Len(f) : f[i].id = id <=> i = k
  PROVE  WithoutId(f, id) = Cut(f, Len(f), k)
<1>1. PICK D : D = {i \in DOMAIN f : f[i].id # id}
  OBVIOUS
<1>2. \A i \in 1 .. Len(f) : i \in D <=> i # k
  BY <1>1
<1>3. EntriesAt(f, D) = Cut(f, Len(f), k)
  BY <1>2, CutIsSelected
<1> QED
  BY <1>1, <1>3 DEF WithoutId

-----------------------------------------------------------------------------
(* What each kind of change of the stored book makes of its FIFOs.         *)
LEMMA RemovedFifos ==
  ASSUME StoreInv, Open, NEW a \in live, RemoveOrder(a), Open',
         NEW s, NEW p, s = mem[a].side, p = mem[a].price
  PROVE  /\ \E k : /\ k \in 1 .. Len(RawFifo(s, p))
                   /\ RawFifo(s, p)[k] = [id |-> mem[a].id, qty |-> mem[a].qty]
                   /\ RawFifo(s, p)' = Cut(RawFifo(s, p), Len(RawFifo(s, p)), k)
                   /\ a = levels[s][p].head => k = 1
         /\ \A t \in Side, r \in Price : t # s \/ r # p => RawFifo(t, r)' = RawFifo(t, r)
<1>1. /\ s \in Side /\ p \in Price /\ a \in OrdersAt(s, p)
  BY LiveOrder
<1>2. /\ StoreInv' /\ live' = live \ {a}
      /\ \A x \in live' : mem'[x].qty = mem[x].qty /\ mem'[x].id = mem[x].id
      /\ \A t \in Side, r \in Price :
           OrdersAt(t, r)' = IF t = s /\ r = p THEN OrdersAt(t, r) \ {a} ELSE OrdersAt(t, r)
      /\ \A t \in Side : \A r \in DOMAIN levels'[t] : r \in DOMAIN levels[t] /\ QueueKept(t, r)
  BY RemoveOrderInv
<1>3. \A t \in Side, r \in Price : \A x \in OrdersAt(t, r) : x # a =>
        mem'[x].id = mem[x].id /\ mem'[x].qty = mem[x].qty
  BY <1>2 DEF OrdersAt
<1>4. \E k : /\ k \in 1 .. Len(RawFifo(s, p))
             /\ RawFifo(s, p)[k] = [id |-> mem[a].id, qty |-> mem[a].qty]
             /\ RawFifo(s, p)' = Cut(RawFifo(s, p), Len(RawFifo(s, p)), k)
             /\ a = levels[s][p].head => k = 1
  BY <1>1, <1>2, <1>3, RawCut
<1>5. ASSUME NEW t \in Side, NEW r \in Price, t # s \/ r # p
      PROVE  RawFifo(t, r)' = RawFifo(t, r)
  <2>1. OrdersAt(t, r)' = OrdersAt(t, r) /\ a \notin OrdersAt(t, r)
    BY <1>2, <1>5 DEF OrdersAt
  <2> QED
    BY <1>2, <1>3, <2>1, RawSame
<1> QED
  BY <1>4, <1>5

LEMMA ResizedFifos ==
  ASSUME StoreInv, Open, NEW a \in live, NEW s, NEW p, s = mem[a].side, p = mem[a].price,
         NEW v \in QtyField, NEW w \in Int, Resized(a, s, p, v, w), Open'
  PROVE  /\ \E k : /\ ResizedAt(RawFifo(s, p)', RawFifo(s, p), k,
                                [id |-> mem[a].id, qty |-> mem[a].qty], v)
                   /\ a = levels[s][p].head => k = 1
         /\ \A t \in Side, r \in Price : t # s \/ r # p => RawFifo(t, r)' = RawFifo(t, r)
<1>1. /\ s \in Side /\ p \in Price /\ a \in OrdersAt(s, p)
  BY LiveOrder
<1>2. /\ StoreInv' /\ mem'[a].qty = v
      /\ \A x \in live \ {a} : mem'[x] = mem[x]
      /\ \A x \in live : mem'[x].id = mem[x].id
      /\ \A t \in Side : DOMAIN levels'[t] = DOMAIN levels[t]
      /\ \A t \in Side, r \in Price : OrdersAt(t, r)' = OrdersAt(t, r)
      /\ \A t \in Side : \A r \in DOMAIN levels[t] : QueueKept(t, r)
  BY ResizeInv
<1>3. \A t \in Side, r \in Price : \A x \in OrdersAt(t, r) :
        mem'[x].id = mem[x].id /\ (x # a => mem'[x].qty = mem[x].qty)
  BY <1>2 DEF OrdersAt
<1>4. \E k : /\ ResizedAt(RawFifo(s, p)', RawFifo(s, p), k,
                          [id |-> mem[a].id, qty |-> mem[a].qty], mem'[a].qty)
             /\ a = levels[s][p].head => k = 1
  <2>1. p \in DOMAIN levels'[s] => p \in DOMAIN levels[s] /\ QueueKept(s, p)
    BY <1>1, <1>2
  <2>2. OrdersAt(s, p)' = OrdersAt(s, p)
    BY <1>1, <1>2
  <2>3. \A x \in OrdersAt(s, p) : /\ mem'[x].id = mem[x].id
                                  /\ x # a => mem'[x].qty = mem[x].qty
    BY <1>1, <1>3
  <2> QED
    BY <1>1, <1>2, <2>1, <2>2, <2>3, RawResized
<1>5. ASSUME NEW t \in Side, NEW r \in Price, t # s \/ r # p
      PROVE  RawFifo(t, r)' = RawFifo(t, r)
  <2>1. OrdersAt(t, r)' = OrdersAt(t, r) /\ a \notin OrdersAt(t, r)
    BY <1>2, <1>5 DEF OrdersAt
  <2> QED
    BY <1>2, <1>3, <2>1, RawSame
<1> QED
  BY <1>2, <1>4, <1>5

LEMMA AppendedFifos ==
  ASSUME StoreInv, Open,
         NEW id \in OrderIds, NEW s \in Side, NEW p \in Price, NEW qty \in Qty,
         order_map[id] = NULL,
         \A r \in DOMAIN levels[Opposite(s)] : ~Crosses(s, r, p),
         AppendOrder(id, s, p, qty), Open'
  PROVE  /\ RawFifo(s, p)' = Append(RawFifo(s, p), [id |-> id, qty |-> qty])
         /\ \A t \in Side, r \in Price : t # s \/ r # p => RawFifo(t, r)' = RawFifo(t, r)
<1>2. /\ StoreInv'
      /\ \A x \in live : mem'[x].qty = mem[x].qty /\ mem'[x].id = mem[x].id
      /\ \A t \in Side : \A r \in DOMAIN levels'[t] :
           ~(t = s /\ r = p) => r \in DOMAIN levels[t]
      /\ \A t \in Side : \A r \in DOMAIN levels'[t] : r \in DOMAIN levels[t] => QueueKept(t, r)
  BY AppendInv
<1>3. PICK a \in live' \ live :
        /\ live' = live \cup {a} /\ mem'[a].qty = qty /\ mem'[a].id = id
        /\ \A t \in Side, r \in Price :
             OrdersAt(t, r)' = IF t = s /\ r = p THEN OrdersAt(t, r) \cup {a} ELSE OrdersAt(t, r)
  BY AppendInv
<1>4. \A t \in Side, r \in Price : /\ a \notin OrdersAt(t, r)
                                   /\ \A x \in OrdersAt(t, r) :
                                        mem'[x].id = mem[x].id /\ mem'[x].qty = mem[x].qty
  BY <1>2, <1>3 DEF OrdersAt
<1>5. RawFifo(s, p)' = Append(RawFifo(s, p), [id |-> mem'[a].id, qty |-> mem'[a].qty])
  BY <1>2, <1>3, <1>4, RawPush
<1>6. ASSUME NEW t \in Side, NEW r \in Price, t # s \/ r # p
      PROVE  RawFifo(t, r)' = RawFifo(t, r)
  <2>1. OrdersAt(t, r)' = OrdersAt(t, r)
    BY <1>3, <1>6
  <2>2. r \in DOMAIN levels'[t] => r \in DOMAIN levels[t] /\ QueueKept(t, r)
    BY <1>2, <1>6
  <2> QED
    BY <1>2, <1>4, <2>1, <2>2, RawSame
<1> QED
  BY <1>3, <1>5, <1>6

(* What the mapping makes of the raw FIFOs.                                *)
FifosShow ==
  StoreInv /\ Open => \A s \in Side : \A p \in Price :
    /\ FifoAt(s, p) = Seen(RawFifo(s, p))
    /\ RawFifo(s, p) \in Seq(Shown)
    /\ (\A x \in live : mem[x].qty # 0) => FifoAt(s, p) = RawFifo(s, p)

LEMMA FifosAlwaysShow == FifosShow
<1> SUFFICES ASSUME StoreInv, Open, NEW s \in Side, NEW p \in Price
             PROVE  /\ FifoAt(s, p) = Seen(RawFifo(s, p))
                    /\ RawFifo(s, p) \in Seq(Shown)
                    /\ (\A x \in live : mem[x].qty # 0) => FifoAt(s, p) = RawFifo(s, p)
  BY DEF FifosShow
<1>1. FifoAt(s, p) = Seen(RawFifo(s, p))
  BY FifoIsSeen
<1>2. PICK q, n : ReadsAs(q, n, s, p)
  BY PriceReads
<1>3. /\ n \in Nat /\ RawFifo(s, p) \in Seq(Shown) /\ Len(RawFifo(s, p)) = n
      /\ \A i \in 1 .. n : /\ q[i] \in live
                           /\ RawFifo(s, p)[i] = [id |-> mem[q[i]].id, qty |-> mem[q[i]].qty]
  BY <1>2, ReadingFacts
<1>4. ASSUME \A x \in live : mem[x].qty # 0 PROVE Seen(RawFifo(s, p)) = RawFifo(s, p)
  <2>1. ASSUME RawFifo(s, p) # <<>> PROVE RawFifo(s, p)[1].qty # 0
    <3>1. 1 \in 1 .. n
      BY <1>3, <2>1
    <3> QED
      BY <1>3, <1>4, <3>1
  <2> QED
    BY <2>1 DEF Seen
<1> QED
  BY <1>1, <1>3, <1>4

LEMMA FifosShowNext == FifosShow'
BY FifosAlwaysShow, PTL

-----------------------------------------------------------------------------
(* The mapping, step by step.                                              *)
LiveMap ==
  [id \in RestingIds |->
     [price |-> mem[order_map[id]].price, side |-> mem[order_map[id]].side]]

LEMMA QueueChanges ==
  ASSUME NEW s \in Side, NEW p \in Price, NEW v, FifoAt(s, p)' = v,
         \A t \in Side, r \in Price : t # s \/ r # p => FifoAt(t, r)' = FifoAt(t, r)
  PROVE  Queue' = [Queue EXCEPT ![s][p] = v]
BY DEF Queue

LEMMA QueueStays ==
  ASSUME \A t \in Side, r \in Price : FifoAt(t, r)' = FifoAt(t, r)
  PROVE  Queue' = Queue
BY DEF Queue

\* No order is used up.
NoZeros == \A x \in live : mem[x].qty # 0

LEMMA Nonzero ==
  ASSUME BookInv, pc # "settle"
  PROVE  NoZeros
BY DEF BookInv, InFlight, NoZeros

LEMMA PlainFifos ==
  ASSUME StoreInv, Open, NoZeros, NEW s \in Side, NEW p \in Price
  PROVE  /\ FifoAt(s, p) = RawFifo(s, p) /\ FifoAt(s, p) \in Seq(Shown)
         /\ FifoAt(s, p) # <<>> <=> p \in DOMAIN levels[s]
<1>1. FifoAt(s, p) = RawFifo(s, p) /\ RawFifo(s, p) \in Seq(Shown)
  BY FifosAlwaysShow DEF FifosShow, NoZeros
<1>2. PICK q, n : ReadsAs(q, n, s, p) /\ (p \in DOMAIN levels[s] <=> n > 0)
  BY PriceReads
<1>3. n \in Nat /\ Len(RawFifo(s, p)) = n
  BY <1>2, ReadingFacts
<1>4. RawFifo(s, p) # <<>> <=> n > 0
  BY <1>1, <1>3
<1> QED
  BY <1>1, <1>2, <1>4

LEMMA QueueKeys ==
  ASSUME StoreInv, Open, NoZeros, NEW s \in Side
  PROVE  {p \in Price : Queue[s][p] # <<>>} = DOMAIN levels[s]
<1>1. DOMAIN levels[s] \subseteq Price
  BY DEF StoreInv, StoreTypeOK
<1>2. \A p \in Price : Queue[s][p] = FifoAt(s, p)
  BY DEF Queue
<1> QED
  BY <1>1, <1>2, PlainFifos

LEMMA IndexedOrder ==
  ASSUME StoreInv, NEW id \in OrderIds, order_map[id] # NULL
  PROVE  order_map[id] \in live /\ mem[order_map[id]].id = id /\ mem[order_map[id]] \in Order
BY DEF StoreInv, StoreTypeOK, IndexAgrees, PoolTypeOK

LEMMA PlainIds ==
  ASSUME StoreInv, Open, NoZeros
  PROVE  RestingIds = {id \in OrderIds : order_map[id] # NULL}
<1>1. \A id \in OrderIds : order_map[id] # NULL => mem[order_map[id]].qty > 0
  <2> SUFFICES ASSUME NEW id \in OrderIds, order_map[id] # NULL PROVE mem[order_map[id]].qty > 0
    OBVIOUS
  <2>1. order_map[id] \in live /\ mem[order_map[id]] \in Order
    BY IndexedOrder
  <2>2. mem[order_map[id]].qty \in Int /\ mem[order_map[id]].qty >= 0
    BY <2>1 DEF Order, QtyField
  <2> QED
    BY <2>1, <2>2 DEF NoZeros
<1> QED
  BY <1>1 DEF RestingIds

(* A used-up maker is out of sight, one that is not has shrunk.            *)
FillShows(opp, p, a, fill) ==
  /\ FifoAt(opp, p) \in Seq(Shown) /\ FifoAt(opp, p) # <<>>
  /\ Head(FifoAt(opp, p)) = [id |-> mem[a].id, qty |-> mem[a].qty]
  /\ FifoAt(opp, p)' = IF fill = mem[a].qty THEN Tail(FifoAt(opp, p))
                       ELSE [FifoAt(opp, p) EXCEPT ![1].qty = mem[a].qty - fill]
  /\ \A t \in Side, r \in Price : t # opp \/ r # p => FifoAt(t, r)' = FifoAt(t, r)

LEMMA FillFifos ==
  ASSUME BookInv, Fill
  PROVE  \E p \in Price, a \in live, fill \in Qty :
           Filled(Opposite(taker.side), p, a, fill) /\ FillShows(Opposite(taker.side), p, a, fill)
<1>1. PICK p \in Price, a \in live, fill \in Qty : Filled(Opposite(taker.side), p, a, fill)
  BY FillFacts
<1>2. PICK opp : opp = Opposite(taker.side)
  OBVIOUS
<1>3. /\ StoreInv /\ Open /\ Open' /\ NoZeros /\ StoreInv' /\ opp \in Side /\ p \in DOMAIN levels[opp]
  <2>1. pc = "match" /\ pc' = "settle" /\ opp \in Side
    BY <1>2, SideFacts DEF Fill, BookInv, CallTypeOK, InCall, Taker
  <2>2. BookInv'
    BY FillInv
  <2> QED
    BY <1>1, <1>2, <2>1, <2>2, Nonzero DEF BookInv, Open, Filled, IsBest
<1>4. PICK m \in Nat : m = mem[a].qty
  BY <1>3 DEF StoreInv, StoreTypeOK, PoolTypeOK, Order, QtyField
<1>5. fill \in Nat /\ fill > 0 /\ fill <= m /\ m - fill \in QtyField
  <2>1. remaining \in Nat /\ m <= MaxQty
    BY <1>3, <1>4 DEF BookInv, CallTypeOK, QtyField, StoreInv, StoreTypeOK, PoolTypeOK, Order
  <2>2. fill \in Nat /\ fill > 0
    BY DEF Qty
  <2>3. fill = IF remaining <= m THEN remaining ELSE m
    BY <1>1, <1>4 DEF Filled
  <2>4. fill <= m
    BY <2>1, <2>2, <2>3
  <2> QED
    BY <2>1, <2>2, <2>4, BookAssumption DEF QtyField
<1>z. PICK z \in QtyField : z = m - fill
  BY <1>5
<1>6. PICK w \in Int : w = levels[opp][p].total_volume - fill
  BY <1>3, <1>5 DEF StoreInv, StoreTypeOK, PriceLevel
<1>7. /\ Resized(a, opp, p, z, w) /\ opp = mem[a].side /\ p = mem[a].price
      /\ a = levels[opp][p].head
  BY <1>1, <1>2, <1>4, <1>6, <1>z DEF Filled, Resized, Fill
<1>8. /\ \E k : /\ ResizedAt(RawFifo(opp, p)', RawFifo(opp, p), k,
                             [id |-> mem[a].id, qty |-> mem[a].qty], z)
                /\ a = levels[opp][p].head => k = 1
      /\ \A t \in Side, r \in Price : t # opp \/ r # p => RawFifo(t, r)' = RawFifo(t, r)
  <2>1. a \in live /\ z \in QtyField /\ w \in Int
    BY <1>1, <1>6, <1>z
  <2>2. StoreInv /\ Open /\ Open'
    BY <1>3
  <2>3. Resized(a, opp, p, z, w) /\ opp = mem[a].side /\ p = mem[a].price
    BY <1>7
  <2> QED
    BY ONLY <2>1, <2>2, <2>3, ResizedFifos
<1>9. PICK k : /\ ResizedAt(RawFifo(opp, p)', RawFifo(opp, p), k,
                            [id |-> mem[a].id, qty |-> mem[a].qty], z)
               /\ a = levels[opp][p].head => k = 1
  BY <1>8
<1>10. PICK f \in Seq(Shown) : f = FifoAt(opp, p) /\ f = RawFifo(opp, p) /\ f # <<>>
  BY <1>3, PlainFifos
<1>11. PICK g : g = RawFifo(opp, p)'
  OBVIOUS
<1>12. /\ f[1] = [id |-> mem[a].id, qty |-> m]
       /\ g = [f EXCEPT ![1].qty = z]
  BY <1>4, <1>7, <1>9, <1>10, <1>11 DEF ResizedAt
<1>13. FifoAt(opp, p)' = Seen(g)
  BY <1>3, <1>11, FifosShowNext DEF FifosShow
<1>14. Seen(g) = IF fill = m THEN Tail(f) ELSE g
  <2>1. PICK n \in Nat : n = Len(f) /\ n >= 1
    BY <1>10
  <2>2. DOMAIN g = 1 .. n /\ g[1].qty = z /\ \A i \in 2 .. n : g[i] = f[i]
    <3>2. DOMAIN f = 1 .. n /\ f[1] \in Shown
      BY <2>1
    <3>3. g = [f EXCEPT ![1].qty = z]
      BY <1>12
    <3>4. g = [i \in 1 .. n |-> IF i = 1 THEN [f[1] EXCEPT !.qty = z] ELSE f[i]]
      BY <3>2, <3>3
    <3>5. [f[1] EXCEPT !.qty = z].qty = z
      BY <3>2 DEF Shown
    <3>6. 1 \in 1 .. n /\ \A i \in 2 .. n : i \in 1 .. n /\ i # 1
      BY <2>1
    <3> QED
      BY <3>4, <3>5, <3>6
  <2>3. g \in Seq(Shown)
    BY <1>3, <1>11, FifosShowNext DEF FifosShow
  <2>4. Len(g) = n /\ g # <<>>
    BY <2>1, <2>2, <2>3
  <2>5. Tail(g) = Tail(f)
    <3>1. Tail(f) = [i \in 1 .. n - 1 |-> f[i + 1]]
      BY <1>10, <2>1, CutFront DEF Cut
    <3>2. Tail(g) = [i \in 1 .. n - 1 |-> g[i + 1]]
      BY <2>3, <2>4, <2>1, CutFront DEF Cut
    <3>3. \A i \in 1 .. n - 1 : i + 1 \in 2 .. n
      BY <2>1
    <3> QED
      BY <2>2, <3>1, <3>2, <3>3
  <2>6. g[1].qty = 0 <=> fill = m
    BY <1>5, <1>z, <2>2
  <2> QED
    BY <2>4, <2>5, <2>6 DEF Seen
<1>15. Head(f) = f[1]
  BY <1>10
<1>16. ASSUME NEW t \in Side, NEW r \in Price, t # opp \/ r # p
       PROVE  FifoAt(t, r)' = FifoAt(t, r)
  <2>1. FifoAt(t, r)' = Seen(RawFifo(t, r)')
    BY <1>3, FifosShowNext DEF FifosShow
  <2>2. FifoAt(t, r) = Seen(RawFifo(t, r))
    BY <1>3, FifosAlwaysShow DEF FifosShow
  <2> QED
    BY <1>8, <1>16, <2>1, <2>2
<1> QED
  <2>1. FifoAt(opp, p)' = IF fill = m THEN Tail(f) ELSE [f EXCEPT ![1].qty = z]
    BY <1>12, <1>13, <1>14
  <2>2. FifoAt(opp, p)' = IF fill = mem[a].qty THEN Tail(FifoAt(opp, p))
                          ELSE [FifoAt(opp, p) EXCEPT ![1].qty = mem[a].qty - fill]
    BY <1>4, <1>z, <1>10, <2>1
  <2>3. Head(FifoAt(opp, p)) = [id |-> mem[a].id, qty |-> mem[a].qty]
    BY <1>4, <1>10, <1>12, <1>15
  <2>4. FillShows(opp, p, a, fill)
    BY <1>10, <1>16, <2>2, <2>3 DEF FillShows
  <2> QED
    BY <1>1, <1>2, <2>4

(* The reference book's vocabulary is the engine's.                        *)
LEMMA RefTypes ==
  /\ Reference!Price = Price /\ Reference!Side = Side
  /\ Reference!NO_BID = NO_BID /\ Reference!PriceField = PriceField
  /\ Reference!QtyField = QtyField /\ Reference!OrderType = OrderType
  /\ \A s : Reference!Opposite(s) = Opposite(s)
  /\ \A type, s, price : Reference!LimitOf(type, s, price) = LimitOf(type, s, price)
  /\ \A s, p, limit : Reference!Crosses(s, p, limit) <=> Crosses(s, p, limit)
  /\ \A s, prices, p : Reference!IsBest(s, prices, p) <=> IsBest(s, prices, p)
<1>1. /\ Reference!Price = Price /\ Reference!Side = Side
      /\ Reference!NO_BID = NO_BID /\ Reference!PriceField = PriceField
      /\ Reference!QtyField = QtyField /\ Reference!OrderType = OrderType
  BY DEF Reference!Price, Price, Reference!Side, Side, Reference!NO_BID, NO_BID,
         Reference!PriceField, PriceField, Reference!QtyField, QtyField,
         Reference!OrderType, OrderType
<1>2. /\ \A s : Reference!Opposite(s) = Opposite(s)
      /\ \A type, s, price : Reference!LimitOf(type, s, price) = LimitOf(type, s, price)
  BY DEF Reference!Opposite, Opposite, Reference!LimitOf, LimitOf, Reference!NO_BID, NO_BID
<1>3. /\ \A s, p, limit : Reference!Crosses(s, p, limit) <=> Crosses(s, p, limit)
      /\ \A s, prices, p : Reference!IsBest(s, prices, p) <=> IsBest(s, prices, p)
  BY DEF Reference!Crosses, Crosses, Reference!IsBest, IsBest, Reference!Better, Better
<1> QED
  BY <1>1, <1>2, <1>3

RefPc ==
  CASE pc = "settle" -> "match"
    [] pc \in {"teardown", "destroyed"} -> "closed"
    [] OTHER -> pc

RefTaker == IF InCall THEN taker ELSE "none"

LEMMA RefLocals ==
  /\ pc = "idle" => RefPc = "idle" /\ RefTaker = "none"
  /\ pc = "match" => RefPc = "match" /\ RefTaker = taker
  /\ pc = "settle" => RefPc = "match" /\ RefTaker = taker
  /\ pc \in {"teardown", "destroyed"} => RefPc = "closed" /\ RefTaker = "none"
BY DEF RefPc, RefTaker, InCall

LEMMA RefLocalsNext ==
  /\ pc' = "idle" => RefPc' = "idle" /\ RefTaker' = "none"
  /\ pc' = "match" => RefPc' = "match" /\ RefTaker' = taker'
  /\ pc' = "settle" => RefPc' = "match" /\ RefTaker' = taker'
  /\ pc' \in {"teardown", "destroyed"} => RefPc' = "closed" /\ RefTaker' = "none"
BY DEF RefPc, RefTaker, InCall

(* A change of size, down to zero it may be, and the resting ids.          *)
LEMMA ResizedIds ==
  ASSUME StoreInv, Open, Open', NEW a \in live, mem[a].qty > 0, NEW v \in QtyField,
         mem' = [mem EXCEPT ![a].qty = v], order_map' = order_map
  PROVE  /\ mem[a].id \in RestingIds
         /\ RestingIds' = IF v = 0 THEN RestingIds \ {mem[a].id} ELSE RestingIds
         /\ LiveMap' = [id \in RestingIds' |-> LiveMap[id]]
<1>1. /\ mem[a] \in Order /\ a \in Addr /\ order_map[mem[a].id] = a /\ mem[a].id \in OrderIds /\ a # NULL
      /\ mem \in [Addr -> Order \cup {RawOrder}]
  <2>1. mem[a] \in Order /\ a \in Addr /\ order_map[mem[a].id] = a /\ mem \in [Addr -> Order \cup {RawOrder}]
    BY DEF StoreInv, StoreTypeOK, IndexAgrees, PoolTypeOK
  <2>2. a # NULL
    BY LiveOrder
  <2> QED
    BY <2>1, <2>2 DEF Order
<1>2. \A id \in OrderIds : order_map[id] # NULL =>
        order_map[id] \in Addr /\ mem[order_map[id]].id = id /\ (order_map[id] = a <=> id = mem[a].id)
  <2>1. \A id \in OrderIds : order_map[id] # NULL =>
          order_map[id] \in live /\ mem[order_map[id]].id = id
    BY IndexedOrder
  <2>2. live \subseteq Addr
    BY DEF StoreInv, StoreTypeOK, PoolTypeOK
  <2> QED
    BY <1>1, <2>1, <2>2
<1>3. mem'[a].qty = v /\ mem'[a].price = mem[a].price /\ mem'[a].side = mem[a].side
  BY <1>1 DEF Order
<1>4. \A x \in Addr : x # a => mem'[x] = mem[x]
  BY <1>1
<1>5. mem[a].id \in RestingIds
  BY <1>1 DEF RestingIds
<1>6. RestingIds' = {id \in OrderIds : order_map[id] # NULL /\ mem'[order_map[id]].qty > 0}
  BY DEF RestingIds
<1>7. RestingIds = {id \in OrderIds : order_map[id] # NULL /\ mem[order_map[id]].qty > 0}
  BY DEF RestingIds
<1>8. v > 0 <=> v # 0
  BY DEF QtyField
<1>9. RestingIds' = IF v = 0 THEN RestingIds \ {mem[a].id} ELSE RestingIds
  BY <1>1, <1>2, <1>3, <1>4, <1>5, <1>6, <1>7, <1>8
<1>10. \A id \in RestingIds : /\ mem'[order_map[id]].price = mem[order_map[id]].price
                              /\ mem'[order_map[id]].side = mem[order_map[id]].side
  BY <1>2, <1>3, <1>4, <1>7
<1>11. RestingIds' \subseteq RestingIds
  BY <1>9
<1> QED
  BY <1>5, <1>9, <1>10, <1>11 DEF LiveMap

LEMMA FillMatches ==
  ASSUME BookInv, Fill
  PROVE  Reference!MatchFront
<1>0. PICK opp : opp = Opposite(taker.side)
  OBVIOUS
<1>1. PICK p \in Price, a \in live, fill \in Qty :
        Filled(opp, p, a, fill) /\ FillShows(opp, p, a, fill)
  BY <1>0, FillFifos
<1>2. /\ pc = "match" /\ pc' = "settle" /\ Open /\ Open' /\ StoreInv /\ NoZeros /\ opp \in Side
      /\ taker' = taker /\ order_map' = order_map
  BY <1>0, Nonzero, SideFacts DEF BookInv, Fill, CallTypeOK, InCall, Taker, Open
<1>3. RefPc = "match" /\ RefPc' = "match" /\ RefTaker = taker /\ RefTaker' = taker
  BY <1>2, RefLocals, RefLocalsNext
<1>4. {q \in Price : Queue[opp][q] # <<>>} = DOMAIN levels[opp]
  BY <1>2, QueueKeys
<1>5. PICK f \in Seq(Shown) : f = FifoAt(opp, p) /\ f # <<>> /\ Queue[opp][p] = f
  BY <1>1, <1>2 DEF FillShows, Queue
<1>6. PICK front : front = Head(f) /\ front.id = mem[a].id /\ front.qty = mem[a].qty
  BY <1>1, <1>5 DEF FillShows
<1>7. /\ mem[a].qty \in QtyField /\ mem[a].qty > 0
      /\ mem[a].qty - fill \in QtyField /\ (mem[a].qty - fill = 0 <=> fill = mem[a].qty)
  <2>1. mem[a].qty \in QtyField /\ mem[a].qty # 0
    BY <1>2 DEF StoreInv, StoreTypeOK, PoolTypeOK, Order, NoZeros
  <2>2. fill = IF remaining <= mem[a].qty THEN remaining ELSE mem[a].qty
    BY <1>1 DEF Filled
  <2>3. remaining \in Int
    BY DEF BookInv, CallTypeOK, QtyField
  <2> QED
    BY <2>1, <2>2, <2>3, BookAssumption DEF QtyField, Qty
<1>8. /\ mem[a].id \in RestingIds
      /\ RestingIds' = IF fill = mem[a].qty THEN RestingIds \ {mem[a].id} ELSE RestingIds
      /\ LiveMap' = [id \in RestingIds' |-> LiveMap[id]]
  <2>1. mem' = [mem EXCEPT ![a].qty = mem[a].qty - fill]
    BY <1>1 DEF Filled
  <2>2. PICK v \in QtyField : v = mem[a].qty - fill
    BY <1>7
  <2>3. /\ mem[a].id \in RestingIds
        /\ RestingIds' = IF v = 0 THEN RestingIds \ {mem[a].id} ELSE RestingIds
        /\ LiveMap' = [id \in RestingIds' |-> LiveMap[id]]
    BY <1>2, <1>7, <2>1, <2>2, ResizedIds
  <2> QED
    BY <1>7, <2>2, <2>3
<1>9. DOMAIN LiveMap = RestingIds /\ LiveMap = [id \in RestingIds |-> LiveMap[id]]
  BY DEF LiveMap
<1>10. FifoAt(opp, p)' = IF fill = front.qty THEN Tail(f)
                         ELSE [f EXCEPT ![1].qty = front.qty - fill]
  BY <1>1, <1>5, <1>6 DEF FillShows
<1>11. Queue' = [Queue EXCEPT ![opp][p] = IF fill = front.qty THEN Tail(f)
                                          ELSE [f EXCEPT ![1].qty = front.qty - fill]]
  <2>1. \A t \in Side, r \in Price : t # opp \/ r # p => FifoAt(t, r)' = FifoAt(t, r)
    BY <1>1 DEF FillShows
  <2> QED
    BY <1>2, <1>10, <2>1, QueueChanges
<1>12. ASSUME fill = front.qty
       PROVE  Queue' = [Queue EXCEPT ![opp][p] = Tail(@)] /\ LiveMap' = [i \in DOMAIN LiveMap \ {front.id} |-> LiveMap[i]]
  BY <1>5, <1>6, <1>8, <1>9, <1>11, <1>12
<1>13. ASSUME fill # front.qty
       PROVE  Queue' = [Queue EXCEPT ![opp][p][1].qty = @ - fill] /\ LiveMap' = LiveMap
  <2>1. front = f[1]
    BY <1>5, <1>6
  <2> QED
    BY <1>5, <1>6, <1>8, <1>9, <1>11, <1>13, <2>1
<1>14. /\ remaining > 0 /\ \E q \in DOMAIN levels[opp] : Crosses(taker.side, q, taker.limit)
       /\ IsBest(opp, DOMAIN levels[opp], p)
       /\ fill = IF remaining <= front.qty THEN remaining ELSE front.qty
       /\ remaining' = remaining - fill
       /\ trades' = Append(trades, [taker_id |-> taker.id, maker_id |-> front.id, price |-> p,
                                    qty |-> fill, taker_side |-> taker.side])
  BY <1>0, <1>1, <1>6 DEF Fill, Matching, Filled
<1>15. InCall /\ InCall'
  BY <1>2 DEF InCall
<1>16. Reference!Keys(opp) = DOMAIN levels[opp]
  BY <1>4, RefTypes DEF Reference!Keys
<1>17. Reference!Matching
  BY <1>0, <1>14, <1>15, <1>16, RefTypes DEF Reference!Matching
<1>18. Reference!LiveWithout(front.id) = [i \in DOMAIN LiveMap \ {front.id} |-> LiveMap[i]]
  BY DEF Reference!LiveWithout, LiveMap
<1>19. Reference!Opposite(RefTaker.side) = opp /\ Head(Queue[opp][p]) = front
  BY <1>0, <1>3, <1>5, <1>6, RefTypes
<1>20. UNCHANGED <<RefPc, RefTaker>>
  BY <1>3
<1>21. Reference!IsBest(opp, Reference!Keys(opp), p)
  BY <1>14, <1>16, RefTypes
<1>22. IF fill = front.qty
       THEN Queue' = [Queue EXCEPT ![opp][p] = Tail(@)] /\ LiveMap' = Reference!LiveWithout(front.id)
       ELSE Queue' = [Queue EXCEPT ![opp][p][1].qty = @ - fill] /\ UNCHANGED LiveMap
  BY <1>12, <1>13, <1>18
<1>23. \E q \in Price :
         LET o == Reference!Opposite(RefTaker.side)
             first == Head(Queue[o][q])
             n == IF remaining <= first.qty THEN remaining ELSE first.qty
         IN /\ Reference!IsBest(o, Reference!Keys(o), q)
            /\ remaining' = remaining - n
            /\ trades' = Append(trades, [taker_id |-> RefTaker.id, maker_id |-> first.id,
                                         price |-> q, qty |-> n, taker_side |-> RefTaker.side])
            /\ IF n = first.qty
               THEN /\ Queue' = [Queue EXCEPT ![o][q] = Tail(@)]
                    /\ LiveMap' = Reference!LiveWithout(first.id)
               ELSE /\ Queue' = [Queue EXCEPT ![o][q][1].qty = @ - n]
                    /\ UNCHANGED LiveMap
  <2> WITNESS p \in Price
  <2> QED
    BY <1>3, <1>14, <1>19, <1>21, <1>22
<1> QED
  BY <1>3, <1>17, <1>20, <1>23, RefTypes DEF Reference!MatchFront, RefPc, RefTaker, LiveMap

LEMMA RemovedIds ==
  ASSUME StoreInv, Open, Open', NEW a \in live, RemoveOrder(a)
  PROVE  /\ RestingIds' = RestingIds \ {mem[a].id}
         /\ LiveMap' = [id \in RestingIds' |-> LiveMap[id]]
<1>1. order_map' = [order_map EXCEPT ![mem[a].id] = NULL] /\ mem' = UnlinkedFrom(a)
  BY DEF RemoveOrder
<1>2. /\ mem[a] \in Order /\ mem[a].id \in OrderIds /\ order_map \in [OrderIds -> Pointer]
      /\ order_map[mem[a].id] = a
  BY DEF StoreInv, StoreTypeOK, IndexAgrees, PoolTypeOK, Order
<1>3. \A x \in live : x # a =>
        mem'[x].qty = mem[x].qty /\ mem'[x].price = mem[x].price /\ mem'[x].side = mem[x].side
  <2> SUFFICES ASSUME NEW x \in live, x # a
               PROVE  mem'[x].qty = mem[x].qty /\ mem'[x].price = mem[x].price /\ mem'[x].side = mem[x].side
    OBVIOUS
  <2>1. mem[x] \in Order /\ x \in Addr
    BY DEF StoreInv, StoreTypeOK, PoolTypeOK
  <2>2. mem'[x] = [mem[x] EXCEPT !.next = IF x = mem[a].prev THEN mem[a].next ELSE @,
                                 !.prev = IF x = mem[a].next THEN mem[a].prev ELSE @]
    BY <1>1, <2>1 DEF UnlinkedFrom
  <2> QED
    BY <2>1, <2>2 DEF Order
<1>4. \A id \in OrderIds : order_map[id] # NULL => order_map[id] \in live /\ mem[order_map[id]].id = id
  BY IndexedOrder
<1>5. \A id \in OrderIds : id # mem[a].id => order_map'[id] = order_map[id] /\ order_map[id] # a
  BY <1>1, <1>2, <1>4, LiveOrder
<1>6. order_map'[mem[a].id] = NULL
  BY <1>1, <1>2
<1>7. RestingIds' = {id \in OrderIds : order_map'[id] # NULL /\ mem'[order_map'[id]].qty > 0}
  BY DEF RestingIds
<1>8. RestingIds = {id \in OrderIds : order_map[id] # NULL /\ mem[order_map[id]].qty > 0}
  BY DEF RestingIds
<1>9. RestingIds' = RestingIds \ {mem[a].id}
  BY <1>3, <1>4, <1>5, <1>6, <1>7, <1>8
<1>10. \A id \in RestingIds' : /\ id \in RestingIds /\ order_map'[id] = order_map[id]
                               /\ mem'[order_map[id]].price = mem[order_map[id]].price
                               /\ mem'[order_map[id]].side = mem[order_map[id]].side
  BY <1>3, <1>4, <1>5, <1>8, <1>9
<1> QED
  BY <1>9, <1>10 DEF LiveMap

LEMMA RetireStutters ==
  ASSUME BookInv, RetireMaker
  PROVE  Queue' = Queue /\ RestingIds' = RestingIds /\ LiveMap' = LiveMap
<1>1. PICK opp, a, p : opp = Opposite(taker.side) /\ a = hit.order /\ p = hit.price
  OBVIOUS
<1>2. /\ pc = "settle" /\ pc' = "match" /\ Open /\ Open' /\ StoreInv /\ opp \in Side
      /\ p \in DOMAIN levels[opp] /\ a = levels[opp][p].head
  <2>1. pc = "settle" /\ pc' = "match" /\ StoreInv /\ opp \in Side
    BY <1>1, SideFacts DEF BookInv, RetireMaker, CallTypeOK, InCall, Taker
  <2>2. HitIsFront
    BY <2>1 DEF BookInv, InFlight
  <2> QED
    BY <1>1, <2>1, <2>2 DEF HitIsFront, IsBest, Open
<1>3. p \in Price /\ a \in live /\ mem[a].side = opp /\ mem[a].price = p /\ mem[a].qty = 0
  <2>1. /\ p \in Price /\ levels[opp][p].head \in live
        /\ mem[levels[opp][p].head].side = opp /\ mem[levels[opp][p].head].price = p
    BY <1>2, HeadOrder
  <2>2. mem[a].qty = 0
    BY <1>1 DEF RetireMaker
  <2> QED
    BY <1>2, <2>1, <2>2
<1>4. RemoveOrder(a)
  BY <1>1, <1>3 DEF RetireMaker, RemoveOrder
<1>5. BookInv' /\ StoreInv' /\ NoZeros'
  <2>1. BookInv'
    BY RetireMakerInv
  <2> QED
    BY <1>2, <2>1 DEF BookInv, InFlight, NoZeros
<1>6. /\ \E k : /\ k \in 1 .. Len(RawFifo(opp, p))
                /\ RawFifo(opp, p)[k] = [id |-> mem[a].id, qty |-> mem[a].qty]
                /\ RawFifo(opp, p)' = Cut(RawFifo(opp, p), Len(RawFifo(opp, p)), k)
                /\ a = levels[opp][p].head => k = 1
      /\ \A t \in Side, r \in Price : t # opp \/ r # p => RawFifo(t, r)' = RawFifo(t, r)
  BY <1>2, <1>3, <1>4, RemovedFifos
<1>7. PICK f \in Seq(Shown) : f = RawFifo(opp, p)
  BY <1>2, <1>3, FifosAlwaysShow DEF FifosShow
<1>8. /\ 1 \in 1 .. Len(f) /\ f[1] = [id |-> mem[a].id, qty |-> mem[a].qty]
      /\ RawFifo(opp, p)' = Cut(f, Len(f), 1)
  BY <1>2, <1>6, <1>7
<1>9. f # <<>> /\ f[1].qty = 0 /\ RawFifo(opp, p)' = Tail(f)
  BY <1>3, <1>8, CutFront
<1>10. FifoAt(opp, p)' = FifoAt(opp, p)
  <2>1. FifoAt(opp, p) = Tail(f)
    BY <1>2, <1>3, <1>7, <1>9, FifosAlwaysShow DEF FifosShow, Seen
  <2>2. FifoAt(opp, p)' = RawFifo(opp, p)'
    BY <1>2, <1>3, <1>5, FifosShowNext DEF FifosShow, NoZeros
  <2> QED
    BY <1>9, <2>1, <2>2
<1>11. ASSUME NEW t \in Side, NEW r \in Price, t # opp \/ r # p PROVE FifoAt(t, r)' = FifoAt(t, r)
  <2>1. FifoAt(t, r)' = Seen(RawFifo(t, r)')
    BY <1>2, <1>5, FifosShowNext DEF FifosShow
  <2>2. FifoAt(t, r) = Seen(RawFifo(t, r))
    BY <1>2, FifosAlwaysShow DEF FifosShow
  <2> QED
    BY <1>6, <1>11, <2>1, <2>2
<1>12. Queue' = Queue
  BY <1>10, <1>11, QueueStays
<1>13. RestingIds' = RestingIds \ {mem[a].id} /\ LiveMap' = [id \in RestingIds' |-> LiveMap[id]]
  BY <1>2, <1>3, <1>4, RemovedIds
<1>14. mem[a].id \notin RestingIds
  <2>1. order_map[mem[a].id] = a
    BY <1>2, <1>3 DEF StoreInv, IndexAgrees
  <2> QED
    BY <1>3, <2>1 DEF RestingIds
<1>15. RestingIds' = RestingIds
  BY <1>13, <1>14
<1>16. LiveMap = [id \in RestingIds |-> LiveMap[id]]
  BY DEF LiveMap
<1> QED
  BY <1>12, <1>13, <1>15, <1>16

(* A step that leaves the stored book alone leaves the reading alone.      *)
LEMMA StoredStays ==
  ASSUME UNCHANGED <<mem, levels, order_map>>, Open' = Open
  PROVE  Queue' = Queue /\ RestingIds' = RestingIds /\ LiveMap' = LiveMap
<1>1. \A s, p : QueueAt(s, p)' = QueueAt(s, p)
  BY DEF QueueAt, NextOf
<1>2. \A s, p : FifoAt(s, p)' = FifoAt(s, p)
  BY <1>1 DEF FifoAt
<1>3. RestingIds' = RestingIds
  BY DEF RestingIds
<1> QED
  BY <1>2, <1>3, QueueStays DEF LiveMap

LEMMA RefStutters ==
  ASSUME Queue' = Queue, LiveMap' = LiveMap, RefPc' = RefPc, RefTaker' = RefTaker,
         UNCHANGED <<remaining, trades>>
  PROVE  UNCHANGED Reference!vars
BY DEF Reference!vars, LiveMap, RefPc, RefTaker

LEMMA LoopStutters ==
  ASSUME BookInv, RetireMaker \/ KeepMaker
  PROVE  UNCHANGED Reference!vars
<1>1. Queue' = Queue /\ LiveMap' = LiveMap
  <2>1. CASE RetireMaker
    BY <2>1, RetireStutters
  <2>2. CASE KeepMaker
    <3>1. UNCHANGED <<mem, levels, order_map>> /\ Open /\ Open'
      BY <2>2 DEF KeepMaker, Open
    <3> QED
      BY <3>1, StoredStays
  <2> QED
    BY <2>1, <2>2
<1>2. pc = "settle" /\ pc' = "match" /\ UNCHANGED <<taker, remaining, trades>>
  BY DEF RetireMaker, KeepMaker
<1>3. RefPc' = RefPc /\ RefTaker' = RefTaker
  BY <1>2, RefLocals, RefLocalsNext
<1> QED
  BY <1>1, <1>2, <1>3, RefStutters

LEMMA AppendedIds ==
  ASSUME StoreInv, Open, NoZeros,
         NEW id \in OrderIds, NEW s \in Side, NEW p \in Price, NEW qty \in Qty,
         order_map[id] = NULL,
         \A r \in DOMAIN levels[Opposite(s)] : ~Crosses(s, r, p),
         AppendOrder(id, s, p, qty), Open'
  PROVE  /\ NoZeros' /\ StoreInv'
         /\ RestingIds' = RestingIds \cup {id}
         /\ LiveMap' = [i \in RestingIds \cup {id} |->
                          IF i = id THEN [price |-> p, side |-> s] ELSE LiveMap[i]]
<1>1. StoreInv' /\ \A x \in live : mem'[x].qty = mem[x].qty /\ mem'[x].id = mem[x].id
  BY AppendInv
<1>2. PICK a \in live' \ live :
        /\ live' = live \cup {a} /\ mem'[a].qty = qty /\ mem'[a].id = id
        /\ \A t \in Side, r \in Price :
             OrdersAt(t, r)' = IF t = s /\ r = p THEN OrdersAt(t, r) \cup {a} ELSE OrdersAt(t, r)
  BY AppendInv
<1>3. qty # 0 /\ qty > 0
  BY DEF Qty
<1>4. StoreInv' /\ NoZeros'
  BY <1>1, <1>2, <1>3 DEF NoZeros
<1>5. mem'[a].side = s /\ mem'[a].price = p
  <2>1. a \in OrdersAt(s, p)'
    BY <1>2
  <2> QED
    BY <2>1 DEF OrdersAt
<1>6. \A x \in live : mem'[x].side = mem[x].side /\ mem'[x].price = mem[x].price
  <2> SUFFICES ASSUME NEW x \in live
               PROVE  mem'[x].side = mem[x].side /\ mem'[x].price = mem[x].price
    OBVIOUS
  <2>1. PICK t \in Side, r \in Price : t = mem[x].side /\ r = mem[x].price
    BY LiveOrder
  <2>2. x \in OrdersAt(t, r)
    BY <2>1 DEF OrdersAt
  <2>3. x \in OrdersAt(t, r)'
    BY <1>2, <2>2
  <2> QED
    BY <2>1, <2>3 DEF OrdersAt
<1>7. order_map'[id] = a /\ a # NULL
  <2>1. order_map'[id] = a
    BY <1>1, <1>2 DEF StoreInv, IndexAgrees
  <2>2. a \in Addr
    BY <1>1, <1>2 DEF StoreInv, StoreTypeOK, PoolTypeOK
  <2> QED
    BY <2>1, <2>2, PoolAssumption DEF Addr
<1>8. \A i \in OrderIds : i # id => order_map'[i] = order_map[i]
  <2>1. order_map \in [OrderIds -> Pointer]
    BY DEF StoreInv, StoreTypeOK
  <2> QED
    BY <2>1 DEF AppendOrder
<1>9. \A i \in OrderIds : order_map[i] # NULL => order_map[i] \in live
  BY IndexedOrder
<1>10. RestingIds = {i \in OrderIds : order_map[i] # NULL /\ mem[order_map[i]].qty > 0}
  BY DEF RestingIds
<1>11. RestingIds' = {i \in OrderIds : order_map'[i] # NULL /\ mem'[order_map'[i]].qty > 0}
  BY DEF RestingIds
<1>12. RestingIds' = RestingIds \cup {id}
  BY <1>1, <1>2, <1>3, <1>7, <1>8, <1>9, <1>10, <1>11
<1>13. \A i \in RestingIds : /\ i # id /\ order_map'[i] = order_map[i]
                             /\ mem'[order_map[i]].side = mem[order_map[i]].side
                             /\ mem'[order_map[i]].price = mem[order_map[i]].price
  BY <1>6, <1>8, <1>9, <1>10
<1>14. \A i \in RestingIds : LiveMap[i] = [price |-> mem[order_map[i]].price,
                                           side |-> mem[order_map[i]].side]
  BY DEF LiveMap
<1>15. LiveMap' = [i \in RestingIds \cup {id} |->
                     [price |-> mem'[order_map'[i]].price, side |-> mem'[order_map'[i]].side]]
  BY <1>12 DEF LiveMap
<1>16. \A i \in RestingIds \cup {id} :
         [price |-> mem'[order_map'[i]].price, side |-> mem'[order_map'[i]].side]
           = IF i = id THEN [price |-> p, side |-> s] ELSE LiveMap[i]
  <2>1. ASSUME NEW i \in RestingIds
        PROVE  /\ i # id
               /\ [price |-> mem'[order_map'[i]].price, side |-> mem'[order_map'[i]].side] = LiveMap[i]
    BY <1>13, <1>14
  <2>2. [price |-> mem'[order_map'[id]].price, side |-> mem'[order_map'[id]].side]
          = [price |-> p, side |-> s]
    BY <1>5, <1>7
  <2> QED
    BY <2>1, <2>2
<1>17. LiveMap' = [i \in RestingIds \cup {id} |->
                     IF i = id THEN [price |-> p, side |-> s] ELSE LiveMap[i]]
  BY <1>15, <1>16
<1> QED
  BY <1>1, <1>4, <1>12, <1>17

LEMMA MatchingMaps ==
  ASSUME BookInv, pc = "match"
  PROVE  Reference!Matching <=> Matching
<1>1. PICK opp : opp = Opposite(taker.side)
  OBVIOUS
<1>2. StoreInv /\ Open /\ NoZeros /\ opp \in Side /\ InCall
  BY <1>1, Nonzero, SideFacts DEF BookInv, CallTypeOK, InCall, Taker, Open
<1>3. Reference!Keys(opp) = DOMAIN levels[opp]
  BY <1>2, QueueKeys, RefTypes DEF Reference!Keys
<1> QED
  BY <1>1, <1>2, <1>3, RefTypes DEF Reference!Matching, Matching

LEMMA Ends ==
  ASSUME Return
  PROVE  Reference!End
<1>1. RefPc' = "idle" /\ RefTaker' = "none" /\ remaining' = 0 /\ trades' = <<>>
  BY RefLocalsNext DEF Return
<1> QED
  BY <1>1 DEF Reference!End, Reference!NoTaker, RefPc, RefTaker

(* A remainder goes to the back of its level, on the mapped book too.      *)
LEMMA RestQueue ==
  ASSUME BookInv, RestRemainder
  PROVE  \E id \in OrderIds, s \in Side, p \in Price, qty \in Qty :
           /\ id = taker.id /\ s = taker.side /\ p = taker.limit /\ qty = remaining
           /\ order_map[id] = NULL /\ AppendOrder(id, s, p, qty)
           /\ \A r \in DOMAIN levels[Opposite(s)] : ~Crosses(s, r, p)
           /\ Queue' = [Queue EXCEPT ![s][p] = Append(@, [id |-> id, qty |-> qty])]
<1>1. /\ pc = "match" /\ ~Matching /\ Open /\ Open' /\ StoreInv /\ NoZeros /\ InCall
      /\ remaining > 0 /\ taker.type = "LIMIT"
  BY Nonzero DEF BookInv, RestRemainder, Return, Open, InCall
<1>2. PICK id \in OrderIds, s \in Side, p \in Price, qty \in Qty :
        /\ id = taker.id /\ s = taker.side /\ p = taker.limit /\ qty = remaining
        /\ order_map[id] = NULL /\ AppendOrder(id, s, p, qty)
  <2>1. /\ order_map[taker.id] = NULL /\ taker.id \in OrderIds /\ taker.side \in Side
        /\ taker.limit \in Price /\ remaining \in Qty
        /\ AppendOrder(taker.id, taker.side, taker.limit, remaining)
    BY BookAssumption
    DEF RestRemainder, BookInv, CallTypeOK, InFlight, InCall, Taker, Qty, QtyField
  <2> QED
    BY <2>1
<1>3. \A r \in DOMAIN levels[Opposite(s)] : ~Crosses(s, r, p)
  BY <1>1, <1>2 DEF Matching
<1>4. StoreInv' /\ NoZeros'
  BY <1>1, <1>2, <1>3, AppendedIds
<1>5. /\ RawFifo(s, p)' = Append(RawFifo(s, p), [id |-> id, qty |-> qty])
      /\ \A t \in Side, r \in Price : t # s \/ r # p => RawFifo(t, r)' = RawFifo(t, r)
  BY <1>1, <1>2, <1>3, AppendedFifos
<1>6. \A t \in Side, r \in Price : /\ FifoAt(t, r) = RawFifo(t, r)
                                   /\ FifoAt(t, r)' = RawFifo(t, r)'
  BY <1>1, <1>4, FifosAlwaysShow, FifosShowNext DEF FifosShow, NoZeros
<1>7. Queue' = [Queue EXCEPT ![s][p] = Append(FifoAt(s, p), [id |-> id, qty |-> qty])]
  <2>1. FifoAt(s, p)' = Append(FifoAt(s, p), [id |-> id, qty |-> qty])
    BY <1>5, <1>6
  <2>2. \A t \in Side, r \in Price : t # s \/ r # p => FifoAt(t, r)' = FifoAt(t, r)
    BY <1>5, <1>6
  <2> QED
    BY <2>1, <2>2, QueueChanges
<1>8. Queue' = [Queue EXCEPT ![s][p] = Append(@, [id |-> id, qty |-> qty])]
  BY <1>7 DEF Queue
<1> QED
  BY <1>2, <1>3, <1>8

LEMMA RestRests ==
  ASSUME BookInv, RestRemainder
  PROVE  Reference!Rest
<1>1. /\ pc = "match" /\ ~Matching /\ Open /\ Open' /\ StoreInv /\ NoZeros /\ InCall
      /\ remaining > 0 /\ taker.type = "LIMIT" /\ Return
  BY Nonzero DEF BookInv, RestRemainder, Return, Open, InCall
<1>2. PICK id \in OrderIds, s \in Side, p \in Price, qty \in Qty :
        /\ id = taker.id /\ s = taker.side /\ p = taker.limit /\ qty = remaining
        /\ order_map[id] = NULL /\ AppendOrder(id, s, p, qty)
        /\ \A r \in DOMAIN levels[Opposite(s)] : ~Crosses(s, r, p)
        /\ Queue' = [Queue EXCEPT ![s][p] = Append(@, [id |-> id, qty |-> qty])]
  BY RestQueue
<1>3. LiveMap' = [i \in RestingIds \cup {id} |->
                    IF i = id THEN [price |-> p, side |-> s] ELSE LiveMap[i]]
  BY <1>1, <1>2, AppendedIds
<1>4. LiveMap' = [i \in DOMAIN LiveMap \cup {id} |->
                    IF i = id THEN [price |-> p, side |-> s] ELSE LiveMap[i]]
  BY <1>3 DEF LiveMap
<1>5. RefPc = "match" /\ RefTaker = taker
  BY <1>1, RefLocals
<1>6. ~Reference!Matching /\ Reference!End
  BY <1>1, MatchingMaps, Ends
<1> QED
  BY <1>1, <1>2, <1>4, <1>5, <1>6 DEF Reference!Rest, RefPc, RefTaker, LiveMap

LEMMA DiscardDiscards ==
  ASSUME BookInv, DiscardRemainder
  PROVE  Reference!Discard
<1>1. /\ pc = "match" /\ ~Matching /\ Open /\ Open' /\ Return
      /\ ~(remaining > 0 /\ taker.type = "LIMIT") /\ UNCHANGED <<mem, levels, order_map>>
  BY DEF DiscardRemainder, Return, Open
<1>2. Queue' = Queue /\ LiveMap' = LiveMap
  BY <1>1, StoredStays
<1>3. RefPc = "match" /\ RefTaker = taker
  BY <1>1, RefLocals
<1>4. ~Reference!Matching /\ Reference!End
  BY <1>1, MatchingMaps, Ends
<1> QED
  BY <1>1, <1>2, <1>3, <1>4 DEF Reference!Discard, RefPc, RefTaker, LiveMap

(* The reference's check of a FOK order adds up FIFOs, the engine's adds   *)
(* up cached volumes.                                                      *)
LEMMA RefSums ==
  /\ \A f : Reference!SumFunction(f) = SumFunction(f)
  /\ \A fifo : Reference!Volume(fifo) = Volume(fifo)
<1>1. \A f : Reference!SumFunction(f) = SumFunction(f)
  BY DEF Reference!SumFunction, SumFunction, Reference!SumFunctionOnSet, SumFunctionOnSet,
         Reference!FoldFunctionOnSet, FoldFunctionOnSet, Reference!MapThenFoldSet, MapThenFoldSet
<1>2. \A fifo, k : Reference!Shares(fifo, k) = Shares(fifo, k)
  BY <1>1 DEF Reference!Shares, Shares
<1> QED
  BY <1>1, <1>2 DEF Reference!Volume, Volume

LEMMA FifoVolume ==
  ASSUME StoreInv, Open, NoZeros, VolumesExact, NEW s \in Side, NEW p \in DOMAIN levels[s]
  PROVE  Volume(FifoAt(s, p)) = levels[s][p].total_volume
<1>1. p \in Price
  BY DEF StoreInv, StoreTypeOK
<1>2. PICK f : f = FifoAt(s, p) /\ f = RawFifo(s, p)
  BY <1>1, PlainFifos
<1>3. PICK q, n : ReadsAs(q, n, s, p)
  BY PriceReads
<1>4. /\ n \in Nat /\ f \in Seq(Shown) /\ Len(f) = n
      /\ \A i \in 1 .. n : q[i] \in OrdersAt(s, p) /\ f[i] = [id |-> mem[q[i]].id, qty |-> mem[q[i]].qty]
  BY <1>2, <1>3, ReadingFacts
<1>5. \A a \in OrdersAt(s, p) : Sizes[a] = mem[a].qty /\ Sizes[a] \in Int
  BY OrdersCounted
<1>6. PICK sizes : sizes = [i \in 1 .. n |-> f[i].qty]
  OBVIOUS
<1>7. PICK u : u = [i \in 1 .. n |-> q[i]]
  OBVIOUS
<1>8. Recounts(u, sizes, 1 .. n, Sizes, OrdersAt(s, p))
  <2>1. \A i \in 1 .. n : sizes[i] = Sizes[q[i]] /\ sizes[i] \in Int
    BY <1>4, <1>5, <1>6
  <2>2. Enumerates(q, n, OrdersAt(s, p))
    BY <1>3 DEF ReadsAs
  <2> QED
    BY <1>7, <2>1, <2>2 DEF Recounts, Enumerates
<1>9. IsFiniteSet(1 .. n)
  BY <1>4, FS_Interval
<1>10. SumFunctionOnSet(sizes, 1 .. n) = SumFunctionOnSet(Sizes, OrdersAt(s, p))
  BY <1>8, <1>9, SumInjection
<1>11. DOMAIN sizes = 1 .. n
  BY <1>6
<1>12. SumFunction(sizes) = SumFunctionOnSet(sizes, 1 .. n)
  BY <1>9, <1>11, TotalSame
<1>13. Volume(f) = SumFunction(sizes)
  BY <1>4, <1>6 DEF Volume, Shares
<1> QED
  BY <1>2, <1>10, <1>12, <1>13 DEF VolumesExact

LEMMA FullyFillable ==
  ASSUME StoreInv, Open, NoZeros, VolumesExact, NEW side \in Side, NEW limit, NEW qty
  PROVE  Reference!CanFullyFill(side, limit, qty) <=> CanFullyFill(side, limit, qty)
<1>1. PICK opp \in Side : opp = Opposite(side)
  BY SideFacts
<1>2. Reference!Keys(opp) = DOMAIN levels[opp]
  BY <1>1, QueueKeys, RefTypes DEF Reference!Keys
<1>3. \A p \in DOMAIN levels[opp] : Reference!Volume(Queue[opp][p]) = levels[opp][p].total_volume
  <2>1. DOMAIN levels[opp] \subseteq Price
    BY <1>1 DEF StoreInv, StoreTypeOK
  <2>2. \A p \in DOMAIN levels[opp] : Queue[opp][p] = FifoAt(opp, p)
    BY <1>1, <2>1 DEF Queue
  <2> QED
    BY <1>1, <2>2, FifoVolume, RefSums
<1>4. PICK cr : cr = {p \in DOMAIN levels[opp] : Crosses(side, p, limit)}
  OBVIOUS
<1>5. {p \in Reference!Keys(opp) : Reference!Crosses(side, p, limit)} = cr
  BY <1>2, <1>4, RefTypes
<1>6. [p \in cr |-> Reference!Volume(Queue[opp][p])] = [p \in cr |-> levels[opp][p].total_volume]
  BY <1>3, <1>4
<1>7. Reference!Opposite(side) = opp
  BY <1>1, RefTypes
<1>8. Reference!CanFullyFill(side, limit, qty)
        <=> Reference!SumFunction([p \in cr |-> Reference!Volume(Queue[opp][p])]) >= qty
  BY <1>5, <1>7 DEF Reference!CanFullyFill
<1>9. CanFullyFill(side, limit, qty) <=> SumFunction([p \in cr |-> levels[opp][p].total_volume]) >= qty
  BY <1>1, <1>4 DEF CanFullyFill
<1> QED
  BY <1>6, <1>8, <1>9, RefSums

(* The beginning of a call.                                                *)
LEMMA StartBegins ==
  ASSUME NEW id, NEW price, NEW qty, NEW side, NEW type,
         StartMatching(id, price, qty, side, type), trades' = trades
  PROVE  Reference!Begin(id, price, qty, side, type)
<1>1. RefPc' = "match" /\ RefTaker' = taker'
  BY RefLocalsNext DEF StartMatching
<1> QED
  BY <1>1, RefTypes DEF StartMatching, Reference!Begin, RefPc, RefTaker

LEMMA InsertInserts ==
  ASSUME BookInv, VolumesExact, NEW id \in OrderIds, NEW price \in PriceField, NEW qty \in QtyField,
         NEW side \in Side, NEW type \in OrderType, InsertOrder(id, price, qty, side, type)
  PROVE  Reference!InsertOrder(id, price, qty, side, type)
<1>1. /\ pc = "idle" /\ Open /\ Open' /\ StoreInv /\ NoZeros /\ UNCHANGED <<mem, levels, order_map>>
      /\ Accepted(id, price, qty, side, type) /\ StartMatching(id, price, qty, side, type)
      /\ trades' = trades
  BY Nonzero DEF BookInv, InsertOrder, StartMatching, Open
<1>2. Queue' = Queue /\ LiveMap' = LiveMap
  BY <1>1, StoredStays
<1>3. id \notin DOMAIN LiveMap
  BY <1>1, PlainIds DEF LiveMap, Accepted
<1>4. type = "FOK" => Reference!CanFullyFill(side, LimitOf(type, side, price), qty)
  BY <1>1, FullyFillable DEF Accepted
<1>5. Reference!Begin(id, price, qty, side, type)
  BY <1>1, StartBegins
<1>6. RefPc = "idle"
  BY <1>1, RefLocals
<1>7. NO_BID = Reference!NO_BID
  BY RefTypes
<1> QED
  BY <1>1, <1>2, <1>3, <1>4, <1>5, <1>6, <1>7, RefTypes
  DEF Reference!InsertOrder, Accepted, RefPc, LiveMap

(* The cancellations.                                                      *)
LEMMA RefWithoutId == \A fifo, id : Reference!WithoutId(fifo, id) = WithoutId(fifo, id)
BY DEF Reference!WithoutId, WithoutId, Reference!EntriesAt, EntriesAt

\* No two entries of a FIFO have the same id.
LEMMA IdOnce ==
  ASSUME StoreInv, Open, NEW s \in Side, NEW p \in Price
  PROVE  \A i, k \in 1 .. Len(RawFifo(s, p)) : RawFifo(s, p)[i].id = RawFifo(s, p)[k].id => i = k
<1>1. PICK q, n : ReadsAs(q, n, s, p)
  BY PriceReads
<1>2. /\ n \in Nat /\ Len(RawFifo(s, p)) = n
      /\ \A i \in 1 .. n : /\ q[i] \in live
                           /\ RawFifo(s, p)[i] = [id |-> mem[q[i]].id, qty |-> mem[q[i]].qty]
  BY <1>1, ReadingFacts
<1>3. \A i, k \in 1 .. n : mem[q[i]].id = mem[q[k]].id => q[i] = q[k]
  BY <1>2 DEF StoreInv, IndexAgrees
<1>4. \A i, k \in 1 .. n : q[i] = q[k] => i = k
  BY <1>1 DEF ReadsAs, Enumerates
<1> QED
  BY <1>2, <1>3, <1>4

(* A removal takes its order's entry out of the mapped book.               *)
LEMMA RemovedQueue ==
  ASSUME StoreInv, Open, Open', NoZeros, NEW id \in OrderIds, order_map[id] # NULL,
         RemoveOrder(order_map[id])
  PROVE  /\ StoreInv' /\ NoZeros'
         /\ \E s \in Side, p \in Price :
              /\ s = mem[order_map[id]].side /\ p = mem[order_map[id]].price
              /\ Queue[s][p] \in Seq(Shown)
              /\ Queue' = [Queue EXCEPT ![s][p] = WithoutId(Queue[s][p], id)]
<1>1. PICK a \in live : a = order_map[id] /\ mem[a].id = id /\ RemoveOrder(a)
  BY IndexedOrder
<1>2. PICK s \in Side, p \in Price : s = mem[a].side /\ p = mem[a].price
  BY LiveOrder
<1>3. StoreInv' /\ NoZeros'
  <2>1. StoreInv' /\ live' = live \ {a} /\ \A x \in live' : mem'[x].qty = mem[x].qty
    BY <1>1, RemoveOrderInv
  <2> QED
    BY <2>1 DEF NoZeros
<1>4. PICK f \in Seq(Shown) : f = FifoAt(s, p) /\ f = RawFifo(s, p)
  BY PlainFifos
<1>5. /\ \E k : /\ k \in 1 .. Len(RawFifo(s, p))
                /\ RawFifo(s, p)[k] = [id |-> mem[a].id, qty |-> mem[a].qty]
                /\ RawFifo(s, p)' = Cut(RawFifo(s, p), Len(RawFifo(s, p)), k)
                /\ a = levels[s][p].head => k = 1
      /\ \A t \in Side, r \in Price : t # s \/ r # p => RawFifo(t, r)' = RawFifo(t, r)
  BY <1>1, <1>2, RemovedFifos
<1>6. PICK k \in 1 .. Len(f) : f[k].id = id /\ RawFifo(s, p)' = Cut(f, Len(f), k)
  BY <1>1, <1>4, <1>5
<1>7. \A i \in 1 .. Len(f) : f[i].id = id <=> i = k
  BY <1>4, <1>6, IdOnce
<1>8. RawFifo(s, p)' = WithoutId(f, id)
  BY <1>6, <1>7, CutIsWithoutId
<1>9. \A t \in Side, r \in Price : FifoAt(t, r) = RawFifo(t, r) /\ FifoAt(t, r)' = RawFifo(t, r)'
  BY <1>3, FifosAlwaysShow, FifosShowNext DEF FifosShow, NoZeros
<1>10. FifoAt(s, p)' = WithoutId(f, id)
  BY <1>8, <1>9
<1>11. Queue' = [Queue EXCEPT ![s][p] = WithoutId(f, id)]
  <2>1. \A t \in Side, r \in Price : t # s \/ r # p => FifoAt(t, r)' = FifoAt(t, r)
    BY <1>5, <1>9
  <2> QED
    BY <1>10, <2>1, QueueChanges
<1>12. Queue[s][p] = f
  BY <1>4 DEF Queue
<1> QED
  BY <1>1, <1>2, <1>3, <1>4, <1>11, <1>12

LEMMA RemovalErases ==
  ASSUME StoreInv, Open, Open', NoZeros, NEW id \in OrderIds, order_map[id] # NULL,
         RemoveOrder(order_map[id])
  PROVE  id \in DOMAIN LiveMap /\ Reference!Erase(id)
<1>1. PICK s \in Side, p \in Price :
        /\ s = mem[order_map[id]].side /\ p = mem[order_map[id]].price
        /\ Queue' = [Queue EXCEPT ![s][p] = WithoutId(Queue[s][p], id)]
  BY RemovedQueue
<1>2. PICK a \in live : a = order_map[id] /\ mem[a].id = id /\ RemoveOrder(a)
  BY IndexedOrder
<1>3. id \in RestingIds /\ LiveMap[id] = [price |-> p, side |-> s]
  <2>1. id \in RestingIds
    BY PlainIds
  <2> QED
    BY <1>1, <2>1 DEF LiveMap
<1>4. RestingIds' = RestingIds \ {id} /\ LiveMap' = [i \in RestingIds' |-> LiveMap[i]]
  BY <1>2, RemovedIds
<1>5. LiveMap' = Reference!LiveWithout(id)
  BY <1>4 DEF Reference!LiveWithout, LiveMap
<1>6. Queue' = [Queue EXCEPT ![LiveMap[id].side][LiveMap[id].price] = Reference!WithoutId(@, id)]
  <2>1. [Queue EXCEPT ![s][p] = Reference!WithoutId(@, id)]
          = [Queue EXCEPT ![s][p] = WithoutId(Queue[s][p], id)]
    <3>1. DOMAIN Queue = Side /\ DOMAIN Queue[s] = Price
      BY DEF Queue
    <3>2. Reference!WithoutId(Queue[s][p], id) = WithoutId(Queue[s][p], id)
      BY RefWithoutId
    <3> QED
      BY <3>1, <3>2
  <2>2. LiveMap[id].side = s /\ LiveMap[id].price = p
    BY <1>3
  <2> QED
    BY <1>1, <2>1, <2>2
<1>7. Reference!Erase(id)
  BY <1>5, <1>6 DEF Reference!Erase, LiveMap
<1> QED
  BY <1>3, <1>7 DEF LiveMap

LEMMA CancelCancels ==
  ASSUME BookInv, NEW id \in OrderIds, CancelOrder(id)
  PROVE  Reference!CancelOrder(id)
<1>1. /\ pc = "idle" /\ pc' = "idle" /\ Open /\ Open' /\ StoreInv /\ NoZeros
      /\ order_map[id] # NULL /\ RemoveOrder(order_map[id]) /\ UNCHANGED <<remaining, trades>>
  BY Nonzero DEF BookInv, CancelOrder, Open
<1>2. id \in DOMAIN LiveMap /\ Reference!Erase(id)
  BY <1>1, RemovalErases
<1>3. RefPc = "idle" /\ RefPc' = RefPc /\ RefTaker' = RefTaker
  BY <1>1, RefLocals, RefLocalsNext
<1> QED
  BY <1>1, <1>2, <1>3 DEF Reference!CancelOrder, RefPc, RefTaker, LiveMap

LEMMA RequeueAmends ==
  ASSUME BookInv, NEW id \in OrderIds, NEW price \in PriceField, NEW qty \in QtyField,
         AmendRequeue(id, price, qty)
  PROVE  Reference!AmendOrder(id, price, qty)
<1>1. /\ pc = "idle" /\ Open /\ Open' /\ StoreInv /\ NoZeros
      /\ order_map[id] # NULL /\ RemoveOrder(order_map[id]) /\ qty # 0 /\ price \notin {NO_BID, NO_ASK}
      /\ StartMatching(id, price, qty, mem[order_map[id]].side, "LIMIT") /\ trades' = trades
      /\ ~KeepsPriority(id, price, qty)
  BY Nonzero DEF BookInv, AmendRequeue, Amendable, StartMatching, Open
<1>2. id \in DOMAIN LiveMap /\ Reference!Erase(id)
  BY <1>1, RemovalErases
<1>3. PICK a \in live : a = order_map[id] /\ mem[a].id = id
  BY <1>1, IndexedOrder
<1>4. PICK s \in Side, p \in Price : s = mem[a].side /\ p = mem[a].price
  BY <1>1, LiveOrder
<1>5. LiveMap[id] = [price |-> p, side |-> s]
  BY <1>2, <1>3, <1>4 DEF LiveMap
<1>6. Reference!Begin(id, price, qty, s, "LIMIT")
  BY <1>1, <1>3, <1>4, StartBegins
<1>7. PICK f \in Seq(Shown) : f = FifoAt(s, p) /\ f = RawFifo(s, p) /\ Queue[s][p] = f
  BY <1>1, PlainFifos DEF Queue
<1>8. PICK i \in DOMAIN f : f[i].id = id /\ f[i].qty = mem[a].qty
  <2>1. /\ \E k : /\ k \in 1 .. Len(RawFifo(s, p))
                  /\ RawFifo(s, p)[k] = [id |-> mem[a].id, qty |-> mem[a].qty]
                  /\ RawFifo(s, p)' = Cut(RawFifo(s, p), Len(RawFifo(s, p)), k)
                  /\ a = levels[s][p].head => k = 1
        /\ \A t \in Side, r \in Price : t # s \/ r # p => RawFifo(t, r)' = RawFifo(t, r)
    BY <1>1, <1>3, <1>4, RemovedFifos
  <2> QED
    BY <1>3, <1>7, <2>1
<1>9. ~(price = p /\ qty <= f[i].qty)
  BY <1>1, <1>3, <1>4, <1>8 DEF KeepsPriority
<1>10. RefPc = "idle" /\ NO_BID = Reference!NO_BID
  BY <1>1, RefLocals, RefTypes
<1>11. LET side == LiveMap[id].side
           fifo == Queue[side][LiveMap[id].price]
       IN \E j \in DOMAIN fifo :
            /\ fifo[j].id = id
            /\ IF price = LiveMap[id].price /\ qty <= fifo[j].qty
               THEN /\ Queue' = [Queue EXCEPT ![side][price][j].qty = qty]
                    /\ LiveMap' = LiveMap /\ RefPc' = RefPc /\ RefTaker' = RefTaker
                    /\ UNCHANGED <<remaining, trades>>
               ELSE Reference!Erase(id) /\ Reference!Begin(id, price, qty, side, "LIMIT")
  <2>1. LiveMap[id].side = s /\ LiveMap[id].price = p
    BY <1>5
  <2> QED
    BY <1>2, <1>6, <1>7, <1>8, <1>9, <2>1
<1> QED
  BY <1>1, <1>2, <1>10, <1>11 DEF Reference!AmendOrder, RefPc, RefTaker, LiveMap

(* A change of size in place changes one entry of the mapped book.         *)
EntryResized(f, k, s, p, id, old, new) ==
  /\ f = Queue[s][p] /\ k \in DOMAIN f /\ f[k].id = id /\ f[k].qty = old
  /\ Queue' = [Queue EXCEPT ![s][p] = [f EXCEPT ![k].qty = new]]

LEMMA ResizedQueue ==
  ASSUME BookInv, pc = "idle", pc' = "idle", NEW id \in OrderIds, order_map[id] # NULL,
         NEW a \in live, a = order_map[id], NEW s \in Side, s = mem[a].side,
         NEW p \in Price, p = mem[a].price, NEW v \in Qty, NEW w \in Int, Resized(a, s, p, v, w)
  PROVE  \E f \in Seq(Shown) : \E k : EntryResized(f, k, s, p, id, mem[a].qty, v)
<1>1. /\ Open /\ Open' /\ StoreInv /\ NoZeros /\ mem[a].id = id /\ mem[a].qty > 0
      /\ v \in QtyField /\ v # 0 /\ v \in Int
  <2>1. Open /\ Open' /\ StoreInv /\ NoZeros
    BY Nonzero DEF BookInv, Open
  <2>2. mem[a].id = id /\ mem[a] \in Order
    BY <2>1, IndexedOrder
  <2>3. mem[a].qty # 0 /\ mem[a].qty \in Int /\ mem[a].qty >= 0
    BY <2>1, <2>2 DEF NoZeros, Order, QtyField
  <2> QED
    BY <2>1, <2>2, <2>3, BookAssumption DEF Qty, QtyField
<1>2. StoreInv' /\ NoZeros'
  <2>1. StoreInv' /\ mem'[a].qty = v /\ \A x \in live \ {a} : mem'[x] = mem[x]
    BY <1>1, ResizeInv
  <2>2. live' = live
    BY DEF Resized, poolVars
  <2> QED
    BY <1>1, <2>1, <2>2 DEF NoZeros
<1>3. PICK f \in Seq(Shown) : f = FifoAt(s, p) /\ f = RawFifo(s, p) /\ Queue[s][p] = f
  BY <1>1, PlainFifos DEF Queue
<1>4. /\ \E k : /\ ResizedAt(RawFifo(s, p)', RawFifo(s, p), k,
                             [id |-> mem[a].id, qty |-> mem[a].qty], v)
                /\ a = levels[s][p].head => k = 1
      /\ \A t \in Side, r \in Price : t # s \/ r # p => RawFifo(t, r)' = RawFifo(t, r)
  BY <1>1, ResizedFifos
<1>5. PICK k : ResizedAt(RawFifo(s, p)', f, k, [id |-> mem[a].id, qty |-> mem[a].qty], v)
  BY <1>3, <1>4
<1>6. /\ k \in 1 .. Len(f) /\ k \in DOMAIN f /\ f[k].id = id /\ f[k].qty = mem[a].qty
      /\ RawFifo(s, p)' = [f EXCEPT ![k].qty = v]
  BY <1>1, <1>3, <1>5 DEF ResizedAt
<1>7. \A t \in Side, r \in Price : FifoAt(t, r) = RawFifo(t, r) /\ FifoAt(t, r)' = RawFifo(t, r)'
  BY <1>1, <1>2, FifosAlwaysShow, FifosShowNext DEF FifosShow, NoZeros
<1>8. Queue' = [Queue EXCEPT ![s][p] = [f EXCEPT ![k].qty = v]]
  <2>1. FifoAt(s, p)' = [f EXCEPT ![k].qty = v]
    BY <1>6, <1>7
  <2>2. \A t \in Side, r \in Price : t # s \/ r # p => FifoAt(t, r)' = FifoAt(t, r)
    BY <1>4, <1>7
  <2> QED
    BY <2>1, <2>2, QueueChanges
<1> QED
  BY <1>3, <1>6, <1>8 DEF EntryResized

LEMMA ShrinkAmends ==
  ASSUME BookInv, pc = "idle", pc' = "idle", NEW id \in OrderIds, order_map[id] # NULL,
         NEW a \in live, a = order_map[id], NEW s \in Side, s = mem[a].side,
         NEW p \in Price, p = mem[a].price, NEW v \in Qty, v <= mem[a].qty,
         NEW w \in Int, Resized(a, s, p, v, w), UNCHANGED <<remaining, trades>>
  PROVE  Reference!AmendOrder(id, p, v)
<1>1. /\ Open /\ Open' /\ StoreInv /\ NoZeros /\ mem[a].id = id /\ mem[a].qty > 0
      /\ v \in QtyField /\ v # 0 /\ v \in Int
  <2>1. Open /\ Open' /\ StoreInv /\ NoZeros
    BY Nonzero DEF BookInv, Open
  <2>2. mem[a].id = id /\ mem[a] \in Order
    BY <2>1, IndexedOrder
  <2>3. mem[a].qty # 0 /\ mem[a].qty \in Int /\ mem[a].qty >= 0
    BY <2>1, <2>2 DEF NoZeros, Order, QtyField
  <2> QED
    BY <2>1, <2>2, <2>3, BookAssumption DEF Qty, QtyField
<1>2. LiveMap' = LiveMap /\ id \in RestingIds
  <2>1. mem' = [mem EXCEPT ![a].qty = v] /\ order_map' = order_map
    BY DEF Resized
  <2>2. /\ mem[a].id \in RestingIds
        /\ RestingIds' = IF v = 0 THEN RestingIds \ {mem[a].id} ELSE RestingIds
        /\ LiveMap' = [i \in RestingIds' |-> LiveMap[i]]
    BY <1>1, <2>1, ResizedIds
  <2>3. LiveMap = [i \in RestingIds |-> LiveMap[i]]
    BY DEF LiveMap
  <2> QED
    BY <1>1, <2>2, <2>3
<1>3. LiveMap[id] = [price |-> p, side |-> s]
  BY <1>2 DEF LiveMap
<1>4. PICK f \in Seq(Shown) : \E k : EntryResized(f, k, s, p, id, mem[a].qty, v)
  BY ResizedQueue
<1>5. PICK k : EntryResized(f, k, s, p, id, mem[a].qty, v)
  BY <1>4
<1>6. /\ f = Queue[s][p] /\ k \in DOMAIN f /\ f[k].id = id /\ f[k].qty = mem[a].qty
      /\ Queue' = [Queue EXCEPT ![s][p][k].qty = v]
  BY <1>5 DEF EntryResized, Queue
<1>7. RefPc = "idle" /\ RefPc' = RefPc /\ RefTaker' = RefTaker
  BY RefLocals, RefLocalsNext
<1>8. p \notin {Reference!NO_BID, NO_ASK}
  BY RefTypes, BookAssumption DEF Price, NO_BID
<1>9. LET side == LiveMap[id].side
           fifo == Queue[side][LiveMap[id].price]
       IN \E j \in DOMAIN fifo :
            /\ fifo[j].id = id
            /\ IF p = LiveMap[id].price /\ v <= fifo[j].qty
               THEN /\ Queue' = [Queue EXCEPT ![side][p][j].qty = v]
                    /\ LiveMap' = LiveMap /\ RefPc' = RefPc /\ RefTaker' = RefTaker
                    /\ UNCHANGED <<remaining, trades>>
               ELSE Reference!Erase(id) /\ Reference!Begin(id, p, v, side, "LIMIT")
  <2>1. LiveMap[id].side = s /\ LiveMap[id].price = p
    BY <1>3
  <2>2. \E j \in DOMAIN f :
          /\ f[j].id = id
          /\ IF p = p /\ v <= f[j].qty
             THEN /\ Queue' = [Queue EXCEPT ![s][p][j].qty = v]
                  /\ LiveMap' = LiveMap /\ RefPc' = RefPc /\ RefTaker' = RefTaker
                  /\ UNCHANGED <<remaining, trades>>
             ELSE Reference!Erase(id) /\ Reference!Begin(id, p, v, s, "LIMIT")
    <3>1. v <= f[k].qty
      BY <1>6
    <3> QED
      BY <1>2, <1>6, <1>7, <3>1
  <2> QED
    BY <1>6, <2>1, <2>2
<1>10. id \in DOMAIN LiveMap
  BY <1>2 DEF LiveMap
<1> QED
  BY <1>1, <1>7, <1>8, <1>9, <1>10 DEF Reference!AmendOrder, RefPc, RefTaker, LiveMap

LEMMA ShrinkResizes ==
  ASSUME BookInv, pc = "idle", NEW id \in OrderIds, order_map[id] # NULL,
         NEW v \in Qty, NEW q, q = mem[order_map[id]].price, Shrink(order_map[id], q, v),
         UNCHANGED <<order_map, poolVars>>
  PROVE  \E a \in live, s \in Side, p \in Price, w \in Int :
           /\ a = order_map[id] /\ s = mem[a].side /\ p = mem[a].price /\ p = q
           /\ Resized(a, s, p, v, w)
<1>1. StoreInv /\ Open
  BY DEF BookInv, Open
<1>2. PICK a \in live : a = order_map[id]
  BY <1>1, IndexedOrder
<1>3. PICK s \in Side, p \in Price : s = mem[a].side /\ p = mem[a].price /\ p = q
  BY <1>1, <1>2, LiveOrder
<1>4. levels[s][p].total_volume \in Int /\ mem[a].qty \in Int /\ v \in Int
  BY <1>1, <1>2, <1>3, LiveOrder DEF PriceLevel, Order, QtyField, Qty
<1>5. PICK w \in Int : w = levels[s][p].total_volume - (mem[a].qty - v)
  BY <1>4
<1>6. Resized(a, s, p, v, w)
  BY <1>2, <1>3, <1>5 DEF Shrink, Resized
<1> QED
  BY <1>2, <1>3, <1>6

LEMMA InPlaceAmends ==
  ASSUME BookInv, NEW id \in OrderIds, NEW price \in PriceField, NEW qty \in QtyField,
         AmendInPlace(id, price, qty)
  PROVE  Reference!AmendOrder(id, price, qty)
<1>1. /\ pc = "idle" /\ pc' = "idle" /\ order_map[id] # NULL /\ qty \in Qty
      /\ price = mem[order_map[id]].price /\ qty <= mem[order_map[id]].qty
      /\ Shrink(order_map[id], price, qty)
      /\ UNCHANGED <<order_map, poolVars>> /\ UNCHANGED <<remaining, trades>>
  BY DEF AmendInPlace, Amendable, KeepsPriority, Qty, QtyField
<1>2. PICK a \in live, s \in Side, p \in Price, w \in Int :
        /\ a = order_map[id] /\ s = mem[a].side /\ p = mem[a].price /\ p = price
        /\ Resized(a, s, p, qty, w)
  BY <1>1, ShrinkResizes
<1>3. Reference!AmendOrder(id, p, qty)
  BY <1>1, <1>2, ShrinkAmends
<1> QED
  BY <1>2, <1>3

LEMMA ReductionAmends ==
  ASSUME BookInv, NEW id \in OrderIds, NEW qty_delta \in QtyField, ReducePartial(id, qty_delta)
  PROVE  \E price \in Price, qty \in Qty : Reference!AmendOrder(id, price, qty)
<1>1. /\ pc = "idle" /\ pc' = "idle" /\ order_map[id] # NULL
      /\ qty_delta # 0 /\ qty_delta < mem[order_map[id]].qty
      /\ Shrink(order_map[id], mem[order_map[id]].price, mem[order_map[id]].qty - qty_delta)
      /\ UNCHANGED <<order_map, poolVars>> /\ UNCHANGED <<remaining, trades>>
  BY DEF ReducePartial
<1>2. mem[order_map[id]].qty \in QtyField
  BY <1>1, IndexedOrder DEF BookInv, Order
<1>3. PICK v \in Qty : v = mem[order_map[id]].qty - qty_delta /\ v <= mem[order_map[id]].qty
  <2>1. PICK m \in QtyField : m = mem[order_map[id]].qty
    BY <1>2
  <2>2. qty_delta # 0 /\ qty_delta < m
    BY <1>1, <2>1
  <2>3. m - qty_delta \in Qty /\ m - qty_delta <= m
    BY <2>2, BookAssumption DEF Qty, QtyField
  <2> QED
    BY <2>1, <2>3
<1>4. PICK q : q = mem[order_map[id]].price
  OBVIOUS
<1>5. Shrink(order_map[id], q, v)
  BY <1>1, <1>3, <1>4
<1>6. PICK a \in live, s \in Side, p \in Price, w \in Int :
        /\ a = order_map[id] /\ s = mem[a].side /\ p = mem[a].price /\ p = q
        /\ Resized(a, s, p, v, w)
  BY <1>1, <1>4, <1>5, ShrinkResizes
<1>7. Reference!AmendOrder(id, p, v)
  BY <1>1, <1>3, <1>6, ShrinkAmends
<1> QED
  BY <1>7

(* The beginning and the end of the book.                                  *)
EmptyQueue == [s \in Side |-> [p \in Price |-> <<>>]]
EmptyLive == [i \in {} |-> "none"]

\* The book cannot be read, or there is nothing in it.
Bare ==
  \/ ~Open
  \/ levels = [s \in Side |-> NoLevels] /\ \A id \in OrderIds : order_map[id] = NULL

LEMMA BareReads ==
  ASSUME Bare
  PROVE  Queue = EmptyQueue /\ LiveMap = EmptyLive
<1>1. \A s \in Side, p \in Price : FifoAt(s, p) = <<>>
  BY DEF Bare, FifoAt, NoLevels
<1>2. RestingIds = {}
  BY DEF Bare, RestingIds
<1> QED
  BY <1>1, <1>2 DEF Queue, EmptyQueue, LiveMap, EmptyLive

LEMMA BareReadsNext ==
  ASSUME Bare'
  PROVE  Queue' = EmptyQueue /\ LiveMap' = EmptyLive
<1>1. \A s \in Side, p \in Price : FifoAt(s, p)' = <<>>
  BY DEF Bare, FifoAt, NoLevels
<1>2. RestingIds' = {}
  BY DEF Bare, RestingIds
<1> QED
  BY <1>1, <1>2 DEF Queue, EmptyQueue, LiveMap, EmptyLive

LEMMA InitMaps ==
  ASSUME Init
  PROVE  Reference!Init
<1>1. Queue = EmptyQueue /\ LiveMap = EmptyLive
  BY BareReads DEF Init, Bare
<1>2. RefPc = "idle" /\ RefTaker = "none"
  BY RefLocals DEF Init
<1> QED
  BY <1>1, <1>2, RefTypes
  DEF Init, Reference!Init, Reference!NoTaker, EmptyQueue, EmptyLive, RefPc, RefTaker, LiveMap

LEMMA DestroyCloses ==
  ASSUME Destroy
  PROVE  Reference!Close
<1>1. Queue' = EmptyQueue /\ LiveMap' = EmptyLive
  BY BareReadsNext DEF Destroy, Bare, Open
<1>2. RefPc = "idle" /\ RefPc' = "closed" /\ RefTaker' = RefTaker /\ UNCHANGED <<remaining, trades>>
  BY RefLocals, RefLocalsNext DEF Destroy
<1> QED
  BY <1>1, <1>2, RefTypes
  DEF Reference!Close, Reference!NoTaker, EmptyQueue, EmptyLive, RefPc, RefTaker, LiveMap

LEMMA TeardownStutters ==
  ASSUME DestroyLevels \/ \E id \in OrderIds : DestroyOrder(id)
  PROVE  UNCHANGED Reference!vars
<1>1. /\ pc = "teardown" /\ pc' \in {"teardown", "destroyed"} /\ Bare /\ Bare'
      /\ UNCHANGED <<taker, remaining, trades>>
  BY DEF DestroyLevels, DestroyOrder, Bare, Open
<1>2. Queue' = Queue /\ LiveMap' = LiveMap
  BY <1>1, BareReads, BareReadsNext
<1>3. RefPc' = RefPc /\ RefTaker' = RefTaker
  BY <1>1, RefLocals, RefLocalsNext
<1> QED
  BY <1>1, <1>2, <1>3, RefStutters

LEMMA IdleStutters ==
  ASSUME UNCHANGED vars
  PROVE  UNCHANGED Reference!vars
<1>1. Queue' = Queue /\ LiveMap' = LiveMap
  BY StoredStays DEF vars, Open
<1>2. RefPc' = RefPc /\ RefTaker' = RefTaker /\ UNCHANGED <<remaining, trades>>
  BY DEF vars, RefPc, RefTaker, InCall
<1> QED
  BY <1>1, <1>2, RefStutters

LEMMA NextRefines ==
  ASSUME BookInv, VolumesExact, [Next]_vars
  PROVE  [Reference!Next]_(Reference!vars)
<1>1. ASSUME NEW id \in OrderIds, NEW price \in PriceField, NEW qty \in QtyField,
             NEW side \in Side, NEW type \in OrderType, InsertOrder(id, price, qty, side, type)
      PROVE  Reference!Next
  <2>1. Reference!InsertOrder(id, price, qty, side, type)
    BY <1>1, InsertInserts
  <2> QED
    BY <2>1, RefTypes DEF Reference!Next
<1>2. ASSUME NEW id \in OrderIds, NEW price \in PriceField, NEW qty \in QtyField,
             Reference!AmendOrder(id, price, qty)
      PROVE  Reference!Next
  BY <1>2, RefTypes DEF Reference!Next
<1>3. ASSUME NEW id \in OrderIds, NEW qty_delta \in QtyField, ReducePartial(id, qty_delta)
      PROVE  Reference!Next
  <2>1. PICK price \in Price, qty \in Qty : Reference!AmendOrder(id, price, qty)
    BY <1>3, ReductionAmends
  <2>2. price \in PriceField /\ qty \in QtyField
    BY SideFacts, BookAssumption DEF Qty, QtyField
  <2> QED
    BY <1>2, <2>1, <2>2
<1>4. ASSUME NEW id \in OrderIds, CancelOrder(id)
      PROVE  Reference!Next
  BY <1>4, CancelCancels DEF Reference!Next
<1>5. CASE EngineStep
  <2>1. Fill \/ RestRemainder \/ DiscardRemainder => Reference!Next
    BY FillMatches, RestRests, DiscardDiscards DEF Reference!Next
  <2>2. RetireMaker \/ KeepMaker => UNCHANGED Reference!vars
    BY LoopStutters
  <2>3. DestroyLevels \/ (\E id \in OrderIds : DestroyOrder(id)) => UNCHANGED Reference!vars
    BY TeardownStutters
  <2> QED
    BY <1>5, <2>1, <2>2, <2>3 DEF EngineStep
<1>6. CASE CallerStep
  <2>1. ASSUME NEW id \in OrderIds, NEW price \in PriceField, NEW qty \in QtyField,
               NEW side \in Side, NEW type \in OrderType,
               InsertOrder(id, price, qty, side, type) \/ RejectOrder(id, price, qty, side, type)
        PROVE  Reference!Next \/ UNCHANGED Reference!vars
    BY <1>1, <2>1, IdleStutters DEF RejectOrder
  <2>2. ASSUME NEW id \in OrderIds, NEW price \in PriceField, NEW qty \in QtyField,
               \/ AmendInPlace(id, price, qty) \/ AmendRequeue(id, price, qty)
               \/ IgnoreRequest(id, price, qty)
        PROVE  Reference!Next \/ UNCHANGED Reference!vars
    BY <1>2, <2>2, InPlaceAmends, RequeueAmends, IdleStutters DEF IgnoreRequest
  <2>3. ASSUME NEW id \in OrderIds, NEW qty_delta \in QtyField,
               ReducePartial(id, qty_delta) \/ ReduceAll(id, qty_delta)
        PROVE  Reference!Next
    BY <1>3, <1>4, <2>3 DEF ReduceAll
  <2>4. Destroy => Reference!Next
    BY DestroyCloses DEF Reference!Next
  <2> QED
    BY <1>4, <1>6, <2>1, <2>2, <2>3, <2>4 DEF CallerStep
<1>7. CASE Destroyed \/ UNCHANGED vars
  BY <1>7, IdleStutters DEF Destroyed
<1> QED
  BY <1>5, <1>6, <1>7 DEF Next

(* The engine implements the reference book: with every list read from its *)
(* head, the book starts as the reference starts, and every step of the    *)
(* engine, within a call too, is a step of the reference or none           *)
(* (OrderBook.cpp:11-166, tests/test_differential.cpp:22-177).             *)
THEOREM EngineImplementsReference == Spec => ImplementsReference
<1>1. Init => Reference!Init
  BY InitMaps
<1>2. Init => VolumesExact
  BY DEF Init, VolumesExact, NoLevels
<1>3. BookInv /\ VolumesExact /\ [Next]_vars => VolumesExact'
  BY VolumesInv
<1>4. BookInv /\ VolumesExact /\ [Next]_vars => [Reference!Next]_(Reference!vars)
  BY NextRefines
<1> QED
  BY <1>1, <1>2, <1>3, <1>4, BookSafety, PTL DEF Spec, ImplementsReference, Reference!Spec

-----------------------------------------------------------------------------
(***************************************************************************)
(* The callers' view of the book.  What is proved of BookCalls is proved   *)
(* of its operators here; Calls, the instance that the properties name,    *)
(* has the same ones.                                                      *)
(***************************************************************************)
Facts == INSTANCE BookCallsProofs

LEMMA SameTypes ==
  /\ Facts!Price = Price /\ Facts!Side = Side /\ Calls!Price = Price /\ Calls!Side = Side
  /\ \A s : Facts!Opposite(s) = Opposite(s) /\ Calls!Opposite(s) = Opposite(s)
  /\ \A s, p, q : (Facts!Crosses(s, p, q) <=> Crosses(s, p, q))
  /\ \A s, p, q : (Calls!Crosses(s, p, q) <=> Crosses(s, p, q))
  /\ \A s, p, q : (Facts!Better(s, p, q) <=> Better(s, p, q))
  /\ \A s, p, q : (Calls!Better(s, p, q) <=> Better(s, p, q))
  /\ \A s, prices, p : (Facts!IsBest(s, prices, p) <=> IsBest(s, prices, p))
BY DEF Facts!Price, Price, Facts!Side, Side, Calls!Price, Calls!Side,
       Facts!Opposite, Opposite, Calls!Opposite, Facts!Crosses, Crosses, Calls!Crosses,
       Facts!Better, Better, Calls!Better, Facts!IsBest, IsBest

LEMMA SameFifos ==
  /\ \A f : Facts!SumFunction(f) = SumFunction(f) /\ Calls!SumFunction(f) = SumFunction(f)
  /\ \A f, k : Facts!Shares(f, k) = Shares(f, k) /\ Calls!Shares(f, k) = Shares(f, k)
  /\ \A f : Facts!Volume(f) = Volume(f) /\ Calls!Volume(f) = Volume(f)
  /\ \A f, n : Facts!TakeFront(f, n) = TakeFront(f, n) /\ Calls!TakeFront(f, n) = TakeFront(f, n)
  /\ \A f, D : Facts!EntriesAt(f, D) = EntriesAt(f, D) /\ Calls!EntriesAt(f, D) = EntriesAt(f, D)
  /\ \A f, id : Facts!WithoutId(f, id) = WithoutId(f, id) /\ Calls!WithoutId(f, id) = WithoutId(f, id)
<1>1. \A f : Facts!SumFunction(f) = SumFunction(f) /\ Calls!SumFunction(f) = SumFunction(f)
  BY DEF Facts!SumFunction, Calls!SumFunction, SumFunction,
         Facts!SumFunctionOnSet, Calls!SumFunctionOnSet, SumFunctionOnSet,
         Facts!FoldFunctionOnSet, Calls!FoldFunctionOnSet, FoldFunctionOnSet,
         Facts!MapThenFoldSet, Calls!MapThenFoldSet, MapThenFoldSet
<1>2. \A f, k : Facts!Shares(f, k) = Shares(f, k) /\ Calls!Shares(f, k) = Shares(f, k)
  BY <1>1 DEF Facts!Shares, Calls!Shares, Shares
<1>3. \A f : Facts!Volume(f) = Volume(f) /\ Calls!Volume(f) = Volume(f)
  BY <1>2 DEF Facts!Volume, Calls!Volume, Volume
<1>4. \A f, n : Facts!TakeFront(f, n) = TakeFront(f, n) /\ Calls!TakeFront(f, n) = TakeFront(f, n)
  BY DEF Facts!TakeFront, Calls!TakeFront, TakeFront, Facts!Volume, Calls!Volume, Volume,
         Facts!Shares, Calls!Shares, Shares, Facts!SumFunction, Calls!SumFunction, SumFunction,
         Facts!SumFunctionOnSet, Calls!SumFunctionOnSet, SumFunctionOnSet,
         Facts!FoldFunctionOnSet, Calls!FoldFunctionOnSet, FoldFunctionOnSet,
         Facts!MapThenFoldSet, Calls!MapThenFoldSet, MapThenFoldSet
<1>5. \A f, D : Facts!EntriesAt(f, D) = EntriesAt(f, D) /\ Calls!EntriesAt(f, D) = EntriesAt(f, D)
  BY DEF Facts!EntriesAt, Calls!EntriesAt, EntriesAt
<1>6. \A f, id : Facts!WithoutId(f, id) = WithoutId(f, id) /\ Calls!WithoutId(f, id) = WithoutId(f, id)
  BY <1>5 DEF Facts!WithoutId, Calls!WithoutId, WithoutId
<1> QED
  BY <1>1, <1>2, <1>3, <1>4, <1>5, <1>6

LEMMA SameBooks ==
  /\ \A b, s : Facts!Tracked(b, s) = Calls!Tracked(b, s)
  /\ \A b : Facts!Resting(b) = Calls!Resting(b)
  /\ \A b, id : Facts!GetOrderQty(b, id) = Calls!GetOrderQty(b, id)
  /\ \A b, id, p, n : Facts!Insertable(b, id, p, n) <=> Calls!Insertable(b, id, p, n)
  /\ \A b : Facts!BestBid(b) = Calls!BestBid(b) /\ Facts!BestAsk(b) = Calls!BestAsk(b)
  /\ \A b, s, n : Facts!Depth(b, s, n) = Calls!Depth(b, s, n)
<1>1. \A b, s : Facts!Tracked(b, s) = Calls!Tracked(b, s)
  BY SameTypes DEF Facts!Tracked, Calls!Tracked
<1>2. \A b : Facts!Resting(b) = Calls!Resting(b)
  BY SameTypes DEF Facts!Resting, Calls!Resting
<1>3. \A b, id : Facts!GetOrderQty(b, id) = Calls!GetOrderQty(b, id)
  BY <1>2 DEF Facts!GetOrderQty, Calls!GetOrderQty
<1>4. \A b, id, p, n : Facts!Insertable(b, id, p, n) <=> Calls!Insertable(b, id, p, n)
  BY DEF Facts!Insertable, Calls!Insertable, Facts!Resting, Calls!Resting,
         Facts!Price, Calls!Price, Facts!Side, Calls!Side, Facts!NO_BID, Calls!NO_BID
<1>5. \A b : Facts!BestBid(b) = Calls!BestBid(b) /\ Facts!BestAsk(b) = Calls!BestAsk(b)
  BY DEF Facts!BestBid, Calls!BestBid, Facts!BestAsk, Calls!BestAsk, Facts!NO_BID, Calls!NO_BID,
         Facts!Max, Calls!Max, Facts!Min, Calls!Min,
         Facts!Tracked, Calls!Tracked, Facts!Price, Calls!Price
<1>6. \A b, s : Facts!Size(b, s) = Calls!Size(b, s)
  BY DEF Facts!Size, Calls!Size, Facts!Cardinality, Calls!Cardinality,
         Facts!Tracked, Calls!Tracked, Facts!Price, Calls!Price
<1>7. \A b, s, i : Facts!PriceAt(b, s, i) = Calls!PriceAt(b, s, i)
  BY DEF Facts!PriceAt, Calls!PriceAt, Facts!Cardinality, Calls!Cardinality,
         Facts!Tracked, Calls!Tracked, Facts!Price, Calls!Price, Facts!Better, Calls!Better
<1>8. \A b, s, i : Facts!LevelAt(b, s, i) = Calls!LevelAt(b, s, i)
  BY <1>7, SameFifos DEF Facts!LevelAt, Calls!LevelAt
<1>9. \A b, s, n : Facts!Depth(b, s, n) = Calls!Depth(b, s, n)
  BY <1>6, <1>8 DEF Facts!Depth, Calls!Depth
<1> QED
  BY <1>1, <1>2, <1>3, <1>4, <1>5, <1>9

LEMMA SameCalls ==
  /\ \A b, id, s, p, n : Facts!InsertOrder(b, id, s, p, n) = Calls!InsertOrder(b, id, s, p, n)
  /\ \A b, id, s, p, n : Facts!Fills(b, id, s, p, n) = Calls!Fills(b, id, s, p, n)
  /\ \A b, id : Facts!CancelOrder(b, id) = Calls!CancelOrder(b, id)
  /\ \A b, id, n : Facts!ReduceOrder(b, id, n) = Calls!ReduceOrder(b, id, n)
<1>1. \A b, s, p, n, q : Facts!MatchAt(b, s, p, n, q) = Calls!MatchAt(b, s, p, n, q)
  BY SameTypes, SameFifos, SameBooks DEF Facts!MatchAt, Calls!MatchAt
<1>2. \A b, s, p : Facts!Available(b, s, p) = Calls!Available(b, s, p)
  BY SameTypes, SameFifos, SameBooks DEF Facts!Available, Calls!Available
<1>3. \A b, id, s, p, n : Facts!InsertOrder(b, id, s, p, n) = Calls!InsertOrder(b, id, s, p, n)
  <2> SUFFICES ASSUME NEW b, NEW id, NEW s, NEW p, NEW n
               PROVE  Facts!InsertOrder(b, id, s, p, n) = Calls!InsertOrder(b, id, s, p, n)
    OBVIOUS
  <2>1. PICK taken : taken = [q \in Price |-> Facts!MatchAt(b, s, p, n, q)]
    OBVIOUS
  <2>2. /\ Facts!Price = Price /\ Calls!Price = Price
        /\ Facts!Opposite(s) = Opposite(s) /\ Calls!Opposite(s) = Opposite(s)
        /\ Facts!Insertable(b, id, p, n) <=> Calls!Insertable(b, id, p, n)
    BY SameTypes, SameBooks
  <2>3. taken = [q \in Price |-> Calls!MatchAt(b, s, p, n, q)]
    BY <1>1, <2>1
  <2>4. PICK av : av = Facts!Available(b, s, p) /\ av = Calls!Available(b, s, p)
    BY <1>2
  <2>5. Facts!InsertOrder(b, id, s, p, n) =
          IF ~Facts!Insertable(b, id, p, n) THEN b
          ELSE [b EXCEPT ![Opposite(s)] = taken,
                         ![s][p] = IF av < n THEN Append(@, [id |-> id, qty |-> n - av]) ELSE @]
    BY <2>1, <2>2, <2>4 DEF Facts!InsertOrder
  <2>6. Calls!InsertOrder(b, id, s, p, n) =
          IF ~Calls!Insertable(b, id, p, n) THEN b
          ELSE [b EXCEPT ![Opposite(s)] = taken,
                         ![s][p] = IF av < n THEN Append(@, [id |-> id, qty |-> n - av]) ELSE @]
    BY <2>2, <2>3, <2>4 DEF Calls!InsertOrder
  <2> QED
    BY <2>2, <2>5, <2>6
<1>4. \A b, id, s, p, n : Facts!Fills(b, id, s, p, n) = Calls!Fills(b, id, s, p, n)
  BY <1>3, SameBooks DEF Facts!Fills, Calls!Fills
<1>5. \A b, id : Facts!CancelOrder(b, id) = Calls!CancelOrder(b, id)
  BY SameTypes, SameFifos DEF Facts!CancelOrder, Calls!CancelOrder
<1>6. \A b, id, n : Facts!ReduceOrder(b, id, n) = Calls!ReduceOrder(b, id, n)
  BY <1>5, SameTypes, SameBooks DEF Facts!ReduceOrder, Calls!ReduceOrder
<1> QED
  BY <1>3, <1>4, <1>5, <1>6

(* Between two calls and between two fills the reading is a book in good   *)
(* order, and it holds the ids that are indexed.                           *)
LEMMA QueueEntries ==
  ASSUME StoreInv, Open, NoZeros, NEW s \in Side, NEW p \in Price
  PROVE  /\ Queue[s][p] = RawFifo(s, p) /\ Queue[s][p] \in Seq([id : OrderIds, qty : Nat \ {0}])
         /\ \A i \in 1 .. Len(Queue[s][p]) : \E a \in live :
              /\ mem[a].side = s /\ mem[a].price = p
              /\ Queue[s][p][i].id = mem[a].id /\ order_map[mem[a].id] = a
<1>1. Queue[s][p] = FifoAt(s, p)
  BY DEF Queue
<1>2. PICK f \in Seq(Shown) : f = Queue[s][p] /\ f = RawFifo(s, p)
  BY <1>1, PlainFifos
<1>3. PICK q, n : ReadsAs(q, n, s, p)
  BY PriceReads
<1>4. /\ n \in Nat /\ Len(f) = n
      /\ \A i \in 1 .. n : /\ q[i] \in live /\ q[i] \in OrdersAt(s, p)
                           /\ f[i] = [id |-> mem[q[i]].id, qty |-> mem[q[i]].qty]
  BY <1>2, <1>3, ReadingFacts
<1>5. \A i \in 1 .. n : /\ mem[q[i]].side = s /\ mem[q[i]].price = p
                        /\ order_map[mem[q[i]].id] = q[i]
                        /\ mem[q[i]].id \in OrderIds /\ mem[q[i]].qty \in Nat \ {0}
  <2>1. \A i \in 1 .. n : /\ mem[q[i]] \in Order /\ mem[q[i]].qty # 0
                          /\ order_map[mem[q[i]].id] = q[i]
                          /\ mem[q[i]].side = s /\ mem[q[i]].price = p
    BY <1>4 DEF StoreInv, StoreTypeOK, PoolTypeOK, IndexAgrees, NoZeros, OrdersAt
  <2> QED
    BY <2>1, BookAssumption DEF Order, QtyField
<1>6. \A i \in 1 .. n : f[i] \in [id : OrderIds, qty : Nat \ {0}]
  BY <1>4, <1>5
<1>7. f \in Seq([id : OrderIds, qty : Nat \ {0}])
  <2>1. f = [i \in 1 .. n |-> f[i]]
    BY <1>4
  <2>2. PICK Entry : Entry = [id : OrderIds, qty : Nat \ {0}]
    OBVIOUS
  <2>3. n \in Nat /\ \A i \in 1 .. n : f[i] \in Entry
    BY <1>4, <1>6, <2>2
  <2>4. f \in Seq(Entry)
    BY ONLY <2>1, <2>3
  <2> QED
    BY <2>2, <2>4
<1>8. ASSUME NEW i \in 1 .. Len(f)
      PROVE  \E a \in live : /\ mem[a].side = s /\ mem[a].price = p
                             /\ f[i].id = mem[a].id /\ order_map[mem[a].id] = a
  <2>1. PICK a \in live : a = q[i]
    BY <1>4
  <2>2. /\ mem[a].side = s /\ mem[a].price = p
        /\ f[i].id = mem[a].id /\ order_map[mem[a].id] = a
    BY <1>4, <1>5, <2>1
  <2> QED
    BY <2>2
<1> QED
  BY <1>2, <1>7, <1>8

LEMMA QueueOK ==
  ASSUME StoreInv, Open, NoZeros
  PROVE  /\ Facts!BookOK(Queue, OrderIds)
         /\ \A s \in Side : Facts!Tracked(Queue, s) = DOMAIN levels[s]
         /\ \A id : Facts!Holds(Queue, id) => id \in OrderIds /\ order_map[id] # NULL
<1> DEFINE Entry == [id : OrderIds, qty : Nat \ {0}]
<1>1. Queue \in [Side -> [Price -> Seq(Entry)]]
  <2>1. \A s \in Side, p \in Price : FifoAt(s, p) \in Seq(Entry)
    BY QueueEntries DEF Queue
  <2> QED
    BY <2>1 DEF Queue
<1>2. \A s \in Side : Facts!Tracked(Queue, s) = DOMAIN levels[s]
  BY QueueKeys, SameTypes DEF Facts!Tracked
<1>3. ASSUME NEW s \in Side, NEW t \in Side, NEW p \in Price, NEW q \in Price,
             NEW i \in 1 .. Len(Queue[s][p]), NEW j \in 1 .. Len(Queue[t][q]),
             Queue[s][p][i].id = Queue[t][q][j].id
      PROVE  s = t /\ p = q /\ i = j
  <2>1. PICK a \in live : /\ mem[a].side = s /\ mem[a].price = p
                          /\ Queue[s][p][i].id = mem[a].id /\ order_map[mem[a].id] = a
    BY QueueEntries
  <2>2. PICK b \in live : /\ mem[b].side = t /\ mem[b].price = q
                          /\ Queue[t][q][j].id = mem[b].id /\ order_map[mem[b].id] = b
    BY QueueEntries
  <2>3. a = b
    BY <1>3, <2>1, <2>2
  <2>4. s = t /\ p = q
    BY <2>1, <2>2, <2>3
  <2>5. Queue[s][p] = RawFifo(s, p)
    BY QueueEntries
  <2> QED
    BY <1>3, <2>4, <2>5, IdOnce
<1>4. Facts!IdsUnique(Queue)
  BY <1>3, SameTypes DEF Facts!IdsUnique
<1>5. Facts!NotCrossed(Queue)
  BY <1>2 DEF Facts!NotCrossed, StoreInv, Uncrossed, Side
<1>6. Facts!BookOK(Queue, OrderIds)
  BY <1>1, <1>4, <1>5, SameTypes DEF Facts!BookOK, Facts!Entries
<1>7. \A id : Facts!Holds(Queue, id) => id \in OrderIds /\ order_map[id] # NULL
  <2>1. \A a \in live : mem[a].id \in OrderIds /\ (order_map[mem[a].id] = a => order_map[mem[a].id] # NULL)
    <3>1. NULL \notin live
      BY PoolAssumption DEF StoreInv, StoreTypeOK, PoolTypeOK, Addr
    <3>2. \A a \in live : mem[a] \in Order
      BY DEF StoreInv, StoreTypeOK, PoolTypeOK
    <3> QED
      BY <3>1, <3>2 DEF Order
  <2> QED
    BY <2>1, QueueEntries, SameTypes DEF Facts!Holds
<1> QED
  BY <1>2, <1>6, <1>7

(* The order in which a side's map is iterated is that of the ranks.       *)
LEMMA IterationRanks ==
  ASSUME StoreInv, Open, NoZeros, NEW s \in Side
  PROVE  /\ Cardinality(DOMAIN levels[s]) = Facts!Size(Queue, s)
         /\ IterationOrder(s) = [i \in 1 .. Facts!Size(Queue, s) |-> Facts!PriceAt(Queue, s, i)]
<1>1. PICK T, l : /\ T = DOMAIN levels[s] /\ T = Facts!Tracked(Queue, s)
                  /\ l = Cardinality(T) /\ l = Facts!Size(Queue, s) /\ s \in Facts!Side
  BY QueueOK, SameTypes DEF Facts!Size, Facts!Cardinality, Cardinality
<1>2. PICK f : f = [i \in 1 .. l |-> Facts!PriceAt(Queue, s, i)]
  OBVIOUS
<1> DEFINE Sorted(keys) == \A i, j \in DOMAIN keys : i < j => Better(s, keys[i], keys[j])
<1>3. \A keys : Sorted(keys) <=> Facts!BestFirst(s, keys)
  BY SameTypes DEF Facts!BestFirst
<1>4. f \in [1 .. l -> T] /\ Sorted(f)
  BY <1>1, <1>2, <1>3, Facts!RanksSort, BookAssumption DEF Facts!BookAssumption
<1>5. \A keys \in [1 .. l -> T] : Sorted(keys) => keys = f
  BY <1>1, <1>2, <1>3, Facts!SortingRanks, BookAssumption DEF Facts!BookAssumption
<1>6. IterationOrder(s) = CHOOSE keys \in [1 .. l -> T] : Sorted(keys)
  BY <1>1 DEF IterationOrder
<1> HIDE DEF Sorted
<1> QED
  BY <1>1, <1>2, <1>4, <1>5, <1>6

(* The cached fields of a level are what its orders come to.               *)
LEMMA CachedFields ==
  ASSUME StoreInv, Open, NoZeros, VolumesExact, NEW s \in Side, NEW p \in DOMAIN levels[s]
  PROVE  /\ levels[s][p].total_volume = Facts!Volume(Queue[s][p])
         /\ levels[s][p].order_count = Len(Queue[s][p])
<1>1. p \in Price /\ Queue[s][p] = FifoAt(s, p)
  BY DEF StoreInv, StoreTypeOK, Queue
<1>2. levels[s][p].total_volume = Facts!Volume(Queue[s][p])
  BY <1>1, FifoVolume, SameFifos
<1>3. PICK q : Listed(q, s, p)
  BY DEF StoreInv, QueuesWellFormed, Listed
<1>4. ReadsAs(q, levels[s][p].order_count, s, p)
  BY <1>1, <1>3, LevelReads
<1>5. Len(RawFifo(s, p)) = levels[s][p].order_count
  BY <1>4, ReadingFacts
<1> QED
  BY <1>1, <1>2, <1>5, PlainFifos

LEMMA SnapshotHolds ==
  ASSUME StoreInv, Open, NoZeros, VolumesExact, NEW s \in Side, NEW n \in Nat
  PROVE  Snapshot(s, n) =
           [i \in DOMAIN Calls!Depth(Queue, s, n) |->
             LET level == Calls!Depth(Queue, s, n)[i]
             IN [price |-> level.price, volume |-> level.volume,
                 order_count |-> Len(Queue[s][level.price])]]
<1>1. PICK d, l, m : /\ d = Calls!Depth(Queue, s, n) /\ d = Facts!Depth(Queue, s, n)
                     /\ l = Facts!Size(Queue, s) /\ m = IF n < l THEN n ELSE l
  BY SameBooks
<1>2. l \in Nat
  BY <1>1, Facts!TrackedFinite, BookAssumption DEF Facts!BookAssumption
<1>3. \A i \in 1 .. m : i \in 1 .. l
  BY <1>1, <1>2
<1>4. d = [i \in 1 .. m |-> [price |-> Facts!PriceAt(Queue, s, i),
                             volume |-> Facts!Volume(Queue[s][Facts!PriceAt(Queue, s, i)])]]
  BY <1>1 DEF Facts!Depth, Facts!LevelAt
<1>5. PICK keys : keys = IterationOrder(s) /\ keys = [i \in 1 .. l |-> Facts!PriceAt(Queue, s, i)]
  BY <1>1, IterationRanks
<1>6. Snapshot(s, n) = [i \in 1 .. m |->
        [price |-> keys[i], volume |-> levels[s][keys[i]].total_volume,
         order_count |-> levels[s][keys[i]].order_count]]
  BY <1>1, <1>5, IterationRanks DEF Snapshot
<1>7. \A i \in 1 .. m : /\ keys[i] \in DOMAIN levels[s] /\ keys[i] = d[i].price
                        /\ d[i].volume = Facts!Volume(Queue[s][keys[i]])
  <2>1. \A i \in 1 .. l : Facts!PriceAt(Queue, s, i) \in Facts!Tracked(Queue, s)
    BY <1>1, Facts!PriceAtRank, BookAssumption DEF Facts!BookAssumption
  <2>2. \A i \in 1 .. m : keys[i] = Facts!PriceAt(Queue, s, i)
    BY <1>3, <1>5
  <2>3. Facts!Tracked(Queue, s) = DOMAIN levels[s]
    BY QueueOK
  <2> QED
    BY <1>3, <1>4, <2>1, <2>2, <2>3
<1>8. \A i \in 1 .. m : /\ levels[s][keys[i]].total_volume = d[i].volume
                        /\ levels[s][keys[i]].order_count = Len(Queue[s][keys[i]])
  BY <1>7, CachedFields
<1>9. DOMAIN d = 1 .. m
  BY <1>4
<1> QED
  BY <1>1, <1>6, <1>7, <1>8, <1>9

LEMMA TouchHolds ==
  ASSUME StoreInv, Open, NoZeros
  PROVE  GetBestBid = Calls!BestBid(Queue) /\ GetBestAsk = Calls!BestAsk(Queue)
<1>1. PICK bids, asks : /\ bids = DOMAIN levels["buy"] /\ bids = Facts!Tracked(Queue, "buy")
                        /\ asks = DOMAIN levels["sell"] /\ asks = Facts!Tracked(Queue, "sell")
  BY QueueOK DEF Side
<1>2. PICK bid, ask : /\ bid = Calls!BestBid(Queue) /\ bid = Facts!BestBid(Queue)
                      /\ ask = Calls!BestAsk(Queue) /\ ask = Facts!BestAsk(Queue)
  BY SameBooks
<1>3. /\ \A q \in asks : ask <= q
      /\ \A q \in bids : q <= bid
      /\ ask \in asks \/ (asks = {} /\ ask = NO_ASK)
      /\ bid \in bids \/ (bids = {} /\ bid = 0)
  BY <1>1, <1>2, Facts!TouchFacts, BookAssumption DEF Facts!BookAssumption
<1>4. bids \subseteq Price /\ asks \subseteq Price /\ Price \subseteq Int
  <2>1. \A t \in Side : DOMAIN levels[t] \subseteq Price
    BY DEF StoreInv, StoreTypeOK
  <2>2. Price \subseteq Int
    BY BookAssumption DEF Price
  <2> QED
    BY <1>1, <2>1, <2>2 DEF Side
<1>5. GetBestBid = bid
  <2>1. CASE bids = {}
    BY <1>1, <1>3, <2>1 DEF GetBestBid, NO_BID
  <2>2. CASE bids # {}
    <3>1. bid \in bids /\ \A q \in bids \ {bid} : bid > q
      <4>1. bid \in bids /\ \A q \in bids : q \in Int
        BY <1>3, <1>4, <2>2
      <4>2. \A q \in bids : q <= bid
        BY <1>3
      <4> QED
        BY <4>1, <4>2
    <3>2. \A p \in Price : IsBest("buy", bids, p) <=> p = bid
      <4>1. IsBest("buy", bids, bid)
        BY <3>1 DEF IsBest, Better
      <4>2. ASSUME NEW p \in Price, IsBest("buy", bids, p), p # bid PROVE FALSE
        BY <1>4, <3>1, <4>2 DEF IsBest, Better
      <4> QED
        BY <4>1, <4>2
    <3> QED
      BY <1>1, <1>4, <2>2, <3>1, <3>2 DEF GetBestBid
  <2> QED
    BY <2>1, <2>2
<1>6. GetBestAsk = ask
  <2>1. CASE asks = {}
    BY <1>1, <1>3, <2>1 DEF GetBestAsk
  <2>2. CASE asks # {}
    <3>1. ask \in asks /\ \A q \in asks \ {ask} : ask < q
      <4>1. ask \in asks /\ \A q \in asks : q \in Int
        BY <1>3, <1>4, <2>2
      <4>2. \A q \in asks : ask <= q
        BY <1>3
      <4> QED
        BY <4>1, <4>2
    <3>2. \A p \in Price : IsBest("sell", asks, p) <=> p = ask
      <4>1. IsBest("sell", asks, ask)
        BY <3>1 DEF IsBest, Better
      <4>2. ASSUME NEW p \in Price, IsBest("sell", asks, p), p # ask PROVE FALSE
        BY <1>4, <3>1, <4>2 DEF IsBest, Better
      <4> QED
        BY <4>1, <4>2
    <3> QED
      BY <1>1, <1>4, <2>2, <3>1, <3>2 DEF GetBestAsk
  <2> QED
    BY <2>1, <2>2
<1> QED
  BY <1>2, <1>5, <1>6

(* The size by id: the index points at the order that rests under it.      *)
LEMMA OrderQtyHolds ==
  ASSUME StoreInv, Open, NoZeros, NEW id \in OrderIds
  PROVE  GetOrderQty(id) = Calls!GetOrderQty(Queue, id)
<1>1. Facts!BookOK(Queue, OrderIds) /\ (Facts!Holds(Queue, id) => order_map[id] # NULL)
  BY QueueOK
<1>2. /\ \A s \in Side, p \in Price : \A i \in 1 .. Len(Queue[s][p]) :
           Facts!GetOrderQty(Queue, Queue[s][p][i].id) = Queue[s][p][i].qty
      /\ ~Facts!Holds(Queue, id) => Facts!GetOrderQty(Queue, id) = 0
  BY <1>1, Facts!OrderQty, SameTypes, BookAssumption DEF Facts!BookAssumption
<1>3. CASE order_map[id] = NULL
  BY <1>1, <1>2, <1>3, SameBooks DEF GetOrderQty
<1>4. CASE order_map[id] # NULL
  <2>1. PICK a \in live : a = order_map[id] /\ mem[a].id = id /\ mem[a] \in Order
    BY <1>4, IndexedOrder
  <2>2. PICK s \in Side, p \in Price : s = mem[a].side /\ p = mem[a].price
    BY <2>1 DEF Order
  <2>3. p \in DOMAIN levels[s] /\ a \in OrdersAt(s, p)
    BY <2>1, <2>2 DEF StoreInv, QueuesWellFormed, OrdersAt
  <2>4. PICK q, n : ReadsAs(q, n, s, p)
    BY PriceReads
  <2>5. PICK i \in 1 .. n : q[i] = a
    BY <2>3, <2>4 DEF ReadsAs, Enumerates
  <2>6. /\ n \in Nat /\ Len(RawFifo(s, p)) = n
        /\ RawFifo(s, p)[i] = [id |-> mem[a].id, qty |-> mem[a].qty]
    BY <2>4, <2>5, ReadingFacts
  <2>7. Queue[s][p] = RawFifo(s, p)
    BY QueueEntries
  <2>8. i \in 1 .. Len(Queue[s][p]) /\ Queue[s][p][i].id = id /\ Queue[s][p][i].qty = mem[a].qty
    BY <2>1, <2>6, <2>7
  <2>9. Facts!GetOrderQty(Queue, id) = mem[a].qty
    BY <1>2, <2>8
  <2> QED
    BY <1>4, <2>1, <2>9, SameBooks DEF GetOrderQty
<1> QED
  BY <1>3, <1>4

(* Every caller reads the book that is there: the snapshots, the best      *)
(* prices and the sizes of the orders, whatever the book has been through  *)
(* (OrderBook.hpp:166-167, 184-197, 214-222).                              *)
THEOREM SnapshotsAlwaysAgree == Spec => []SnapshotsAgree
<1>1. Init => VolumesExact
  BY DEF Init, VolumesExact, NoLevels
<1>2. BookInv /\ VolumesExact /\ [Next]_vars => VolumesExact'
  BY VolumesInv
<1>3. BookInv /\ VolumesExact => SnapshotsAgree
  <2> SUFFICES ASSUME BookInv, VolumesExact, Open, pc # "settle" PROVE SnapshotsAgree
    BY DEF SnapshotsAgree
  <2>1. StoreInv /\ NoZeros
    BY Nonzero DEF BookInv
  <2>2. 0 .. Cardinality(Price) \subseteq Nat
    OBVIOUS
  <2> QED
    BY <2>1, <2>2, SnapshotHolds, TouchHolds, OrderQtyHolds DEF SnapshotsAgree
<1> QED
  BY <1>1, <1>2, <1>3, BookSafety, PTL DEF Spec

(* One fill takes from the front of the best level, in the callers' sense. *)
Bites(p, x) ==
  LET opp == Opposite(taker.side) IN
  /\ Facts!BitesBest(Queue, taker.side, taker.limit, remaining, p, x)
  /\ Queue' = Facts!Bitten(Queue, opp, p, x)
  /\ remaining' = remaining - x
  /\ trades' = Append(trades, [taker_id |-> taker.id, maker_id |-> Queue[opp][p][1].id,
                               price |-> p, qty |-> x, taker_side |-> taker.side])

LEMMA FillBites ==
  ASSUME BookInv, Fill
  PROVE  \E p \in Price, x \in Qty : Bites(p, x)
<1>0. PICK opp : opp = Opposite(taker.side)
  OBVIOUS
<1>1. PICK p \in Price, a \in live, x \in Qty :
        Filled(opp, p, a, x) /\ FillShows(opp, p, a, x)
  BY <1>0, FillFifos
<1>2. /\ Open /\ StoreInv /\ NoZeros /\ opp \in Side /\ taker.side \in Side
      /\ remaining \in Nat /\ remaining > 0
  BY <1>0, Nonzero, SideFacts, BookAssumption
  DEF BookInv, Fill, Matching, CallTypeOK, InCall, Taker, Open, QtyField
<1>3. Queue[opp][p] = FifoAt(opp, p)
  BY <1>2 DEF Queue
<1>4. PICK f \in Seq(Entries(OrderIds)) : f = Queue[opp][p]
  BY <1>2, QueueEntries DEF Entries
<1>5. f # <<>> /\ f[1].id = mem[a].id /\ f[1].qty = mem[a].qty /\ f[1].qty \in Nat \ {0}
  <2>1. f # <<>> /\ Head(f) = [id |-> mem[a].id, qty |-> mem[a].qty]
    BY <1>1, <1>3, <1>4 DEF FillShows
  <2>2. f[1] = [id |-> mem[a].id, qty |-> mem[a].qty] /\ f[1] \in Entries(OrderIds)
    BY <1>4, <2>1
  <2> QED
    BY <2>1, <2>2 DEF Entries
<1>6. /\ x = IF remaining <= f[1].qty THEN remaining ELSE f[1].qty
      /\ remaining' = remaining - x
      /\ trades' = Append(trades, [taker_id |-> taker.id, maker_id |-> f[1].id,
                                   price |-> p, qty |-> x, taker_side |-> taker.side])
  BY <1>1, <1>5 DEF Filled
<1>7. /\ x \in Nat \ {0} /\ x <= remaining /\ x <= f[1].qty
      /\ x = remaining \/ x = f[1].qty
  BY <1>2, <1>5, <1>6
<1>8. TakeFront(f, x) = IF x = f[1].qty THEN Tail(f) ELSE [f EXCEPT ![1].qty = f[1].qty - x]
  <2>1. f \in Seq(Entries(OrderIds))
    BY <1>4
  <2>2. x \in Nat /\ x <= f[1].qty /\ f # <<>>
    BY <1>5, <1>7
  <2> QED
    BY ONLY <2>1, <2>2, NibbleIsTake
<1>9. FifoAt(opp, p)' = TakeFront(f, x)
  BY <1>1, <1>3, <1>4, <1>5, <1>8 DEF FillShows
<1>10. Queue' = [Queue EXCEPT ![opp][p] = TakeFront(f, x)]
  <2>1. \A t \in Side, r \in Price : t # opp \/ r # p => FifoAt(t, r)' = FifoAt(t, r)
    BY <1>1 DEF FillShows
  <2> QED
    BY <1>2, <1>9, <2>1, QueueChanges
<1>11. Queue' = Facts!Bitten(Queue, opp, p, x)
  BY <1>4, <1>10, SameFifos DEF Facts!Bitten
<1>12. Facts!BitesBest(Queue, taker.side, taker.limit, remaining, p, x)
  <2>1. Facts!Opposite(taker.side) = opp /\ p \in Facts!Price
    BY <1>0, SameTypes
  <2>2. Facts!IsBest(opp, Facts!Tracked(Queue, opp), p)
    <3>1. IsBest(opp, DOMAIN levels[opp], p)
      BY <1>1 DEF Filled
    <3>2. Facts!Tracked(Queue, opp) = DOMAIN levels[opp]
      BY <1>2, QueueOK
    <3> QED
      BY <3>1, <3>2, SameTypes
  <2>3. Facts!Crosses(taker.side, p, taker.limit)
    BY <1>1, SameTypes DEF Filled
  <2> QED
    BY <1>4, <1>7, <2>1, <2>2, <2>3 DEF Facts!BitesBest
<1>13. Bites(p, x)
  BY <1>0, <1>4, <1>6, <1>11, <1>12 DEF Bites
<1> QED
  BY <1>13

(* A LIMIT order in progress: its id does not rest, its limit is a price.  *)
LimitCall(id, s, p, n) ==
  /\ id = taker.id /\ s = taker.side /\ p = taker.limit /\ n = remaining
  /\ Outcome = Facts!InsertOrder(Queue, id, s, p, n)
  /\ Outstanding = Facts!Fills(Queue, id, s, p, n)

LEMMA LimitCalls ==
  ASSUME BookInv, Limit, pc = "match"
  PROVE  /\ \E id \in OrderIds, s \in Side, p \in Price, n \in Nat : LimitCall(id, s, p, n)
         /\ Facts!BookOK(Queue, OrderIds) /\ ~Facts!Holds(Queue, taker.id)
         /\ StoreInv /\ Open /\ NoZeros
<1>1. StoreInv /\ Open /\ NoZeros /\ InCall /\ order_map[taker.id] = NULL
  BY Nonzero DEF BookInv, Open, InCall, InFlight
<1>2. taker.id \in OrderIds /\ taker.side \in Side /\ taker.limit \in Price /\ remaining \in Nat
  BY BookAssumption DEF Limit, BookInv, CallTypeOK, InFlight, Taker, QtyField
<1>3. LimitCall(taker.id, taker.side, taker.limit, remaining)
  BY SameCalls DEF LimitCall, Outcome, Outstanding
<1>4. Facts!BookOK(Queue, OrderIds) /\ ~Facts!Holds(Queue, taker.id)
  BY <1>1, QueueOK
<1> QED
  BY <1>1, <1>2, <1>3, <1>4

(* The same of the state after a step.                                     *)
LEMMA OutcomeNext ==
  /\ Outcome' = Facts!InsertOrder(Queue', taker'.id, taker'.side, taker'.limit, remaining')
  /\ Outstanding' = Facts!Fills(Queue', taker'.id, taker'.side, taker'.limit, remaining')
BY SameCalls DEF Outcome, Outstanding

(* A fill changes neither what the call comes to nor what it reports in    *)
(* all: the loop has done one of the fills that were outstanding.          *)
Reported == {trades'[i] : i \in DOMAIN trades' \ DOMAIN trades}
AsFill(t) == [maker_id |-> t.maker_id, price |-> t.price, qty |-> t.qty]

LEMMA FillProgress ==
  ASSUME BookInv, Limit, Fill
  PROVE  /\ Outcome = Outcome'
         /\ Outstanding = {AsFill(t) : t \in Reported} \cup Outstanding'
<1>1. pc = "match" /\ taker' = taker
  BY DEF Fill
<1>2. PICK id \in OrderIds, s \in Side, p \in Price, n \in Nat : LimitCall(id, s, p, n)
  BY <1>1, LimitCalls
<1>3. PICK q \in Price, x \in Qty : Bites(q, x)
  BY FillBites
<1>4. PICK b : b = Queue
  OBVIOUS
<1>5. PICK c : c = Queue'
  OBVIOUS
<1>6. PICK t : t = Opposite(s)
  OBVIOUS
<1>7. /\ Facts!BookOK(b, OrderIds) /\ s \in Facts!Side /\ p \in Facts!Price /\ ~Facts!Holds(b, id)
  BY <1>1, <1>2, <1>4, LimitCalls, SameTypes DEF LimitCall
<1>8. /\ Facts!BitesBest(b, s, p, n, q, x) /\ c = Facts!Bitten(b, Facts!Opposite(s), q, x)
      /\ Facts!Opposite(s) = t
  BY <1>2, <1>3, <1>4, <1>5, <1>6, SameTypes DEF LimitCall, Bites
<1>9. Facts!BookAssumption
  BY BookAssumption DEF Facts!BookAssumption
<1>10. Facts!InsertOrder(b, id, s, p, n) = Facts!InsertOrder(c, id, s, p, n - x)
  BY ONLY <1>2, <1>7, <1>8, <1>9, Facts!BittenInsert
<1>11. Facts!Fills(b, id, s, p, n) =
          {[maker_id |-> b[t][q][1].id, price |-> q, qty |-> x]} \cup Facts!Fills(c, id, s, p, n - x)
  BY ONLY <1>2, <1>7, <1>8, <1>9, Facts!BittenFills
<1>12. /\ Outcome' = Facts!InsertOrder(c, id, s, p, n - x)
       /\ Outstanding' = Facts!Fills(c, id, s, p, n - x)
  <2>1. taker'.id = id /\ taker'.side = s /\ taker'.limit = p /\ remaining' = n - x
    BY <1>1, <1>2, <1>3 DEF LimitCall, Bites
  <2> QED
    BY <1>5, <2>1, OutcomeNext
<1>13. {AsFill(u) : u \in Reported} = {[maker_id |-> b[t][q][1].id, price |-> q, qty |-> x]}
  <2>1. PICK u : u = [taker_id |-> taker.id, maker_id |-> b[t][q][1].id,
                      price |-> q, qty |-> x, taker_side |-> taker.side]
    OBVIOUS
  <2>2. trades' = Append(trades, u)
    BY <1>2, <1>3, <1>4, <1>6, <2>1 DEF Bites, LimitCall
  <2>3. trades \in Seq(Trade)
    BY DEF BookInv, CallTypeOK
  <2>4. PICK k \in Nat : k = Len(trades)
    BY <2>3
  <2>5. DOMAIN trades = 1 .. k /\ DOMAIN trades' = 1 .. k + 1 /\ trades'[k + 1] = u
    BY <2>2, <2>3, <2>4
  <2>6. DOMAIN trades' \ DOMAIN trades = {k + 1}
    BY <2>5
  <2>7. Reported = {u}
    BY <2>5, <2>6 DEF Reported
  <2> QED
    BY <2>1, <2>7 DEF AsFill
<1> QED
  BY <1>2, <1>4, <1>10, <1>11, <1>12, <1>13 DEF LimitCall

LEMMA NoneReported ==
  ASSUME trades' = trades \/ trades' = <<>>
  PROVE  {AsFill(t) : t \in Reported} = {}
<1>1. DOMAIN trades' \ DOMAIN trades = {}
  <2>1. DOMAIN <<>> = {}
    OBVIOUS
  <2> QED
    BY <2>1
<1> QED
  BY <1>1 DEF Reported

(* The rest of the loop body: what the maker leaves behind is nothing that *)
(* a caller sees.                                                          *)
LEMMA LoopProgress ==
  ASSUME BookInv, RetireMaker \/ KeepMaker
  PROVE  /\ InCall' /\ Outcome = Outcome' /\ Outstanding = Outstanding'
         /\ {AsFill(t) : t \in Reported} = {}
<1>1. /\ pc = "settle" /\ pc' = "match"
      /\ taker' = taker /\ remaining' = remaining /\ trades' = trades
  BY DEF RetireMaker, KeepMaker
<1>2. Queue' = Queue
  <2>1. CASE RetireMaker
    BY <2>1, RetireStutters
  <2>2. CASE KeepMaker
    <3>1. UNCHANGED <<mem, levels, order_map>>
      BY <2>2 DEF KeepMaker
    <3>2. Open' = Open
      BY <1>1 DEF Open
    <3> QED
      BY <3>1, <3>2, StoredStays
  <2> QED
    BY <2>1, <2>2
<1>3. Outcome = Outcome' /\ Outstanding = Outstanding'
  BY <1>1, <1>2 DEF Outcome, Outstanding
<1> QED
  BY <1>1, <1>3, NoneReported DEF InCall

(* When nothing crosses any more, what the call comes to is what Rest and  *)
(* Discard do.                                                             *)
LEMMA ClearNow ==
  ASSUME BookInv, Limit, pc = "match", ~Matching, remaining > 0,
         NEW s, s = taker.side, NEW p, p = taker.limit
  PROVE  Facts!Clear(Queue, s, p)
<1>1. StoreInv /\ Open /\ NoZeros /\ taker.side \in Side /\ Opposite(taker.side) \in Side
  BY Nonzero, SideFacts DEF BookInv, Open, CallTypeOK, InCall, Taker
<1>2. Facts!Tracked(Queue, Opposite(s)) = DOMAIN levels[Opposite(s)]
  BY <1>1, QueueOK
<1>3. \A q \in DOMAIN levels[Opposite(s)] : ~Crosses(s, q, p)
  BY DEF Matching
<1> QED
  BY <1>2, <1>3, SameTypes DEF Facts!Clear

LEMMA RestProgress ==
  ASSUME BookInv, Limit, RestRemainder
  PROVE  /\ ~InCall' /\ Outcome = Queue' /\ Outstanding = {}
         /\ {AsFill(t) : t \in Reported} = {}
<1>1. pc = "match" /\ ~Matching /\ remaining > 0 /\ pc' = "idle" /\ trades' = <<>>
  BY DEF RestRemainder, Return
<1>2. PICK id \in OrderIds, s \in Side, p \in Price, n \in Nat : LimitCall(id, s, p, n)
  BY <1>1, LimitCalls
<1>3. Queue' = [Queue EXCEPT ![s][p] = Append(@, [id |-> id, qty |-> n])]
  <2>1. id = taker.id /\ s = taker.side /\ p = taker.limit /\ n = remaining
    BY <1>2 DEF LimitCall
  <2> QED
    BY <2>1, RestQueue
<1>4. PICK b : b = Queue
  OBVIOUS
<1>5. /\ Facts!BookOK(b, OrderIds) /\ s \in Facts!Side /\ p \in Facts!Price
      /\ ~Facts!Holds(b, id) /\ Facts!Clear(b, s, p) /\ n # 0
  BY <1>1, <1>2, <1>4, LimitCalls, ClearNow, SameTypes DEF LimitCall
<1>6. Facts!BookAssumption
  BY BookAssumption DEF Facts!BookAssumption
<1>7. Facts!Insertable(b, id, p, n)
  BY ONLY <1>2, <1>5, <1>6, Facts!CanInsert
<1>8. /\ Facts!InsertOrder(b, id, s, p, n) =
           IF Facts!Insertable(b, id, p, n) THEN Facts!Stacked(b, s, p, id, n) ELSE b
      /\ Facts!Fills(b, id, s, p, n) = {}
  BY ONLY <1>2, <1>5, <1>6, Facts!QuietInsert
<1>9. Outcome = Queue' /\ Outstanding = {}
  BY <1>2, <1>3, <1>4, <1>7, <1>8 DEF LimitCall, Facts!Stacked
<1> QED
  BY <1>1, <1>9, NoneReported DEF InCall

LEMMA DiscardProgress ==
  ASSUME BookInv, Limit, DiscardRemainder
  PROVE  /\ ~InCall' /\ Outcome = Queue' /\ Outstanding = {}
         /\ {AsFill(t) : t \in Reported} = {}
<1>1. /\ pc = "match" /\ ~(remaining > 0 /\ taker.type = "LIMIT") /\ pc' = "idle" /\ trades' = <<>>
      /\ UNCHANGED <<mem, levels, order_map>>
  BY DEF DiscardRemainder, Return
<1>2. PICK id \in OrderIds, s \in Side, p \in Price, n \in Nat : LimitCall(id, s, p, n)
  BY <1>1, LimitCalls
<1>3. n = 0
  BY <1>1, <1>2 DEF LimitCall, Limit
<1>4. Queue' = Queue
  <2>1. Open' = Open
    BY <1>1 DEF Open
  <2> QED
    BY <1>1, <2>1, StoredStays
<1>5. PICK b : b = Queue
  OBVIOUS
<1>6. Facts!BookOK(b, OrderIds)
  BY <1>1, <1>5, LimitCalls
<1>7. ~Facts!Insertable(b, id, p, n)
  BY <1>3 DEF Facts!Insertable
<1>8. Facts!BookAssumption
  BY BookAssumption DEF Facts!BookAssumption
<1>9. Facts!Fills(b, id, s, p, n) = {} /\ Facts!InsertOrder(b, id, s, p, n) = b
  BY ONLY <1>6, <1>7, <1>8, Facts!NoFills
<1> QED
  BY <1>1, <1>2, <1>4, <1>5, <1>9, NoneReported DEF LimitCall, InCall

(* An id that is indexed rests in one level only.                          *)
LEMMA ElsewhereLacks ==
  ASSUME StoreInv, Open, NoZeros, NEW id \in OrderIds, order_map[id] # NULL,
         NEW s, s = mem[order_map[id]].side, NEW p, p = mem[order_map[id]].price,
         NEW t \in Side, NEW r \in Price, t # s \/ r # p
  PROVE  Facts!Lacks(Queue[t][r], id)
<1>1. SUFFICES ASSUME NEW i \in 1 .. Len(Queue[t][r]), Queue[t][r][i].id = id
               PROVE  FALSE
  BY DEF Facts!Lacks
<1>2. PICK a \in live : /\ mem[a].side = t /\ mem[a].price = r
                        /\ Queue[t][r][i].id = mem[a].id /\ order_map[mem[a].id] = a
  BY QueueEntries
<1>3. a = order_map[id]
  BY <1>1, <1>2
<1> QED
  BY <1>2, <1>3

(* Taking an order out of the book is a cancel of its id.                  *)
LEMMA RemovalCancels ==
  ASSUME StoreInv, Open, Open', NoZeros, NEW id \in OrderIds, order_map[id] # NULL,
         RemoveOrder(order_map[id])
  PROVE  Queue' = Calls!CancelOrder(Queue, id)
<1>1. PICK s \in Side, p \in Price :
        /\ s = mem[order_map[id]].side /\ p = mem[order_map[id]].price
        /\ Queue' = [Queue EXCEPT ![s][p] = WithoutId(Queue[s][p], id)]
  BY RemovedQueue
<1>2. PICK b : b = Queue
  OBVIOUS
<1>3. PICK c : c = Facts!CancelOrder(b, id)
  OBVIOUS
<1>4. Facts!BookOK(b, OrderIds)
  BY <1>2, QueueOK
<1>5. Facts!BookAssumption
  BY BookAssumption DEF Facts!BookAssumption
<1>6. ASSUME NEW t \in Side, NEW r \in Price, t # s \/ r # p
      PROVE  c[t][r] = b[t][r]
  <2>1. Facts!Lacks(b[t][r], id)
    BY <1>1, <1>2, <1>6, ElsewhereLacks
  <2>2. t \in Facts!Side /\ r \in Facts!Price
    BY SameTypes
  <2>3. Facts!CancelOrder(b, id)[t][r] = b[t][r]
    BY ONLY <1>4, <1>5, <2>1, <2>2, Facts!ReducedElsewhere
  <2> QED
    BY <1>3, <2>3
<1>7. c = [t \in Side |-> [r \in Price |-> WithoutId(b[t][r], id)]]
  BY <1>3, SameTypes, SameFifos DEF Facts!CancelOrder
<1>8. c[s][p] = WithoutId(b[s][p], id)
  BY <1>7
<1>9. b = [t \in Side |-> [r \in Price |-> b[t][r]]]
  BY <1>2 DEF Queue
<1>10. PICK d : d = [b EXCEPT ![s][p] = WithoutId(b[s][p], id)]
  OBVIOUS
<1>11. /\ d[s][p] = WithoutId(b[s][p], id)
       /\ \A t \in Side, r \in Price : t # s \/ r # p => d[t][r] = b[t][r]
       /\ d = [t \in Side |-> [r \in Price |-> d[t][r]]]
  BY <1>9, <1>10
<1>12. \A t \in Side, r \in Price : d[t][r] = c[t][r]
  BY <1>6, <1>8, <1>11
<1>13. d = c
  BY <1>7, <1>11, <1>12
<1> QED
  BY <1>1, <1>2, <1>3, <1>10, <1>13, SameCalls

(* A change of size in place is a reduction by the difference.             *)
LEMMA ResizingReduces ==
  ASSUME BookInv, pc = "idle", pc' = "idle", NEW id \in OrderIds, order_map[id] # NULL,
         NEW a \in live, a = order_map[id], NEW s \in Side, s = mem[a].side,
         NEW p \in Price, p = mem[a].price, NEW v \in Qty, v <= mem[a].qty,
         NEW w \in Int, Resized(a, s, p, v, w)
  PROVE  \E n \in QtyField : Queue' = Calls!ReduceOrder(Queue, id, n)
<1>1. StoreInv /\ Open /\ NoZeros
  BY Nonzero DEF BookInv, Open
<1>2. PICK old \in QtyField : old = mem[a].qty
  BY <1>1 DEF StoreInv, StoreTypeOK, PoolTypeOK, Order
<1>3. PICK n \in QtyField : n = old - v /\ old - n = v /\ ~(n >= old) /\ n \in Nat
  <2>1. old \in Nat /\ old <= MaxQty /\ v \in Nat /\ v >= 1 /\ v <= old /\ MaxQty \in Nat
    BY <1>2, BookAssumption DEF QtyField, Qty
  <2> QED
    BY <2>1 DEF QtyField
<1>4. PICK f \in Seq(Shown) : \E k : EntryResized(f, k, s, p, id, mem[a].qty, v)
  BY ResizedQueue
<1>5. PICK k : EntryResized(f, k, s, p, id, mem[a].qty, v)
  BY <1>4
<1>6. PICK b : b = Queue
  OBVIOUS
<1>7. /\ f = b[s][p] /\ k \in 1 .. Len(f) /\ f[k].id = id /\ f[k].qty = old
      /\ DOMAIN f = 1 .. Len(f)
      /\ Queue' = [b EXCEPT ![s][p] = [f EXCEPT ![k].qty = v]]
  <2>1. DOMAIN f = 1 .. Len(f)
    BY <1>4
  <2> QED
    BY <1>2, <1>5, <1>6, <2>1 DEF EntryResized
<1>8. PICK c : c = Facts!ReduceOrder(b, id, n)
  OBVIOUS
<1>9. Facts!BookOK(b, OrderIds) /\ Facts!BookAssumption
  BY <1>1, <1>6, QueueOK, BookAssumption DEF Facts!BookAssumption
<1>10. s \in Facts!Side /\ p \in Facts!Price
  BY SameTypes
<1>11. Facts!GetOrderQty(b, id) = old
  <2>1. k \in 1 .. Len(b[s][p]) /\ b[s][p][k].id = id /\ b[s][p][k].qty = old
    BY <1>7
  <2>2. Facts!GetOrderQty(b, id) = b[s][p][k].qty
    BY ONLY <1>9, <1>10, <2>1, Facts!EntryQty
  <2> QED
    BY <2>1, <2>2
<1>12. c = [t \in Side |-> [r \in Price |->
              [i \in DOMAIN b[t][r] |->
                IF b[t][r][i].id = id THEN [b[t][r][i] EXCEPT !.qty = @ - n] ELSE b[t][r][i]]]]
  BY <1>3, <1>8, <1>11, SameTypes DEF Facts!ReduceOrder
<1>13. ASSUME NEW t \in Side, NEW r \in Price, t # s \/ r # p
       PROVE  c[t][r] = b[t][r]
  <2>1. Facts!Lacks(b[t][r], id)
    BY <1>1, <1>6, <1>13, ElsewhereLacks
  <2>2. t \in Facts!Side /\ r \in Facts!Price
    BY SameTypes
  <2>3. Facts!ReduceOrder(b, id, n)[t][r] = b[t][r]
    BY ONLY <1>9, <2>1, <2>2, Facts!ReducedElsewhere
  <2> QED
    BY <1>8, <2>3
<1>14. c[s][p] = [f EXCEPT ![k].qty = v]
  <2>1. \A i \in 1 .. Len(f) : f[i].id = id <=> i = k
    <3>1. f = RawFifo(s, p)
      <4>1. Queue[s][p] = RawFifo(s, p)
        BY <1>1, QueueEntries
      <4> QED
        BY <1>6, <1>7, <4>1
    <3> QED
      BY <1>1, <1>7, <3>1, IdOnce
  <2>2. c[s][p] = [i \in 1 .. Len(f) |-> IF f[i].id = id THEN [f[i] EXCEPT !.qty = @ - n] ELSE f[i]]
    BY <1>7, <1>12
  <2>3. PICK e : e = [f[k] EXCEPT !.qty = v]
    OBVIOUS
  <2>4. [f[k] EXCEPT !.qty = @ - n] = e
    BY <1>3, <1>7, <2>3
  <2>5. c[s][p] = [i \in 1 .. Len(f) |-> IF i = k THEN e ELSE f[i]]
    BY <2>1, <2>2, <2>4
  <2>6. [f EXCEPT ![k].qty = v] = [i \in 1 .. Len(f) |-> IF i = k THEN e ELSE f[i]]
    <3>1. f = [i \in 1 .. Len(f) |-> f[i]]
      BY <1>4
    <3> QED
      BY <1>7, <2>3, <3>1
  <2> QED
    BY <2>5, <2>6
<1>15. b = [t \in Side |-> [r \in Price |-> b[t][r]]]
  BY <1>6 DEF Queue
<1>16. PICK g : g = [f EXCEPT ![k].qty = v]
  OBVIOUS
<1>17. PICK d : d = [b EXCEPT ![s][p] = g]
  OBVIOUS
<1>18. /\ d[s][p] = g
       /\ \A t \in Side, r \in Price : t # s \/ r # p => d[t][r] = b[t][r]
       /\ d = [t \in Side |-> [r \in Price |-> d[t][r]]]
  BY <1>15, <1>17
<1>19. \A t \in Side, r \in Price : d[t][r] = c[t][r]
  BY <1>13, <1>14, <1>16, <1>18
<1>20. c = [t \in Side |-> [r \in Price |-> c[t][r]]]
  BY <1>12
<1>21. d = c
  BY <1>18, <1>19, <1>20
<1>22. Queue' = Calls!ReduceOrder(Queue, id, n)
  BY <1>6, <1>7, <1>8, <1>16, <1>17, <1>21, SameCalls
<1> QED
  BY <1>22

(* Every other call that changes the open book is a cancel or a reduction. *)
LEMMA IdleProgress ==
  ASSUME BookInv, Next, pc = "idle", pc' = "idle", ~UNCHANGED vars
  PROVE  \E id \in OrderIds :
           \/ Queue' = Calls!CancelOrder(Queue, id)
           \/ \E n \in QtyField : Queue' = Calls!ReduceOrder(Queue, id, n)
<1>1. StoreInv /\ Open /\ Open' /\ NoZeros
  BY Nonzero DEF BookInv, Open
<1>2. ASSUME NEW id \in OrderIds, CancelOrder(id)
      PROVE  Queue' = Calls!CancelOrder(Queue, id)
  <2>1. order_map[id] # NULL /\ RemoveOrder(order_map[id])
    BY <1>2 DEF CancelOrder
  <2> QED
    BY <1>1, <2>1, RemovalCancels
<1>3. ASSUME NEW id \in OrderIds, order_map[id] # NULL, NEW v \in Qty, v <= mem[order_map[id]].qty,
             NEW q, q = mem[order_map[id]].price, Shrink(order_map[id], q, v),
             UNCHANGED <<order_map, poolVars>>
      PROVE  \E n \in QtyField : Queue' = Calls!ReduceOrder(Queue, id, n)
  <2>1. PICK a \in live, s \in Side, p \in Price, w \in Int :
          /\ a = order_map[id] /\ s = mem[a].side /\ p = mem[a].price /\ p = q
          /\ Resized(a, s, p, v, w)
    BY <1>3, ShrinkResizes
  <2> QED
    BY <1>3, <2>1, ResizingReduces
<1>4. ASSUME NEW id \in OrderIds, NEW price \in PriceField, NEW qty \in QtyField,
             AmendInPlace(id, price, qty)
      PROVE  \E n \in QtyField : Queue' = Calls!ReduceOrder(Queue, id, n)
  <2>1. qty \in Qty
    BY <1>4, BookAssumption DEF AmendInPlace, Amendable, Qty, QtyField
  <2>2. /\ order_map[id] # NULL /\ qty <= mem[order_map[id]].qty
        /\ price = mem[order_map[id]].price /\ Shrink(order_map[id], price, qty)
        /\ UNCHANGED <<order_map, poolVars>>
    BY <1>4 DEF AmendInPlace, Amendable, KeepsPriority
  <2> QED
    BY <1>3, <2>1, <2>2
<1>5. ASSUME NEW id \in OrderIds, NEW qty_delta \in QtyField, ReducePartial(id, qty_delta)
      PROVE  \E n \in QtyField : Queue' = Calls!ReduceOrder(Queue, id, n)
  <2>1. PICK a \in live : a = order_map[id] /\ mem[a] \in Order
    BY <1>1, <1>5, IndexedOrder DEF ReducePartial
  <2>2. /\ order_map[id] # NULL /\ qty_delta # 0 /\ qty_delta < mem[a].qty
        /\ Shrink(a, mem[a].price, mem[a].qty - qty_delta) /\ UNCHANGED <<order_map, poolVars>>
    BY <1>5, <2>1 DEF ReducePartial
  <2>3. PICK v \in Qty : v = mem[a].qty - qty_delta /\ v <= mem[a].qty
    BY <2>1, <2>2, BookAssumption DEF Order, Qty, QtyField
  <2> QED
    BY <1>3, <2>1, <2>2, <2>3
<1>6. ASSUME EngineStep \/ Destroy \/ Destroyed PROVE FALSE
  BY <1>6 DEF EngineStep, Destroy, Destroyed, Fill, RetireMaker, KeepMaker, RestRemainder,
              DiscardRemainder, DestroyOrder, DestroyLevels
<1>7. ASSUME NEW id, NEW price, NEW qty, NEW side, NEW type,
             InsertOrder(id, price, qty, side, type) \/ RejectOrder(id, price, qty, side, type)
      PROVE  FALSE
  BY <1>7 DEF InsertOrder, StartMatching, RejectOrder
<1>8. ASSUME NEW id, NEW price, NEW qty,
             AmendRequeue(id, price, qty) \/ IgnoreRequest(id, price, qty)
      PROVE  FALSE
  BY <1>8 DEF AmendRequeue, StartMatching, IgnoreRequest
<1> QED
  BY <1>2, <1>4, <1>5, <1>6, <1>7, <1>8 DEF Next, CallerStep, ReduceAll

(* A call that has just started could be inserted into what the callers    *)
(* see.                                                                    *)
Startable ==
  BookInv /\ Limit /\ pc = "match" /\ remaining # 0 =>
    Calls!Insertable(Queue, taker.id, taker.limit, remaining)

LEMMA AlwaysStartable == Startable
<1>1. SUFFICES ASSUME BookInv, Limit, pc = "match", remaining # 0
               PROVE  Facts!Insertable(Queue, taker.id, taker.limit, remaining)
  BY SameBooks DEF Startable
<1>2. PICK id \in OrderIds, s \in Side, p \in Price, n \in Nat : LimitCall(id, s, p, n)
  BY <1>1, LimitCalls
<1>3. PICK b : b = Queue
  OBVIOUS
<1>4. /\ Facts!BookOK(b, OrderIds) /\ ~Facts!Holds(b, id) /\ p \in Facts!Price /\ n # 0
      /\ Facts!BookAssumption
  BY <1>1, <1>2, <1>3, LimitCalls, SameTypes, BookAssumption DEF LimitCall, Facts!BookAssumption
<1>5. Facts!Insertable(b, id, p, n)
  BY ONLY <1>2, <1>4, Facts!CanInsert
<1> QED
  BY <1>2, <1>3, <1>5 DEF LimitCall

LEMMA StartableNext == Startable'
BY AlwaysStartable, PTL

LEMMA StartProgress ==
  ASSUME BookInv, Next, ~InCall, Limit'
  PROVE  Calls!Insertable(Queue', taker'.id, taker'.limit, remaining')
<1>1. BookInv'
  BY NextInv
<1>2. pc' = "match" /\ remaining' # 0
  <2>1. ASSUME NEW id \in OrderIds, NEW price \in PriceField, NEW qty \in QtyField,
               NEW side \in Side, NEW type \in OrderType, InsertOrder(id, price, qty, side, type)
        PROVE  pc' = "match" /\ remaining' # 0
    BY <2>1 DEF InsertOrder, Accepted, StartMatching
  <2>2. ASSUME NEW id \in OrderIds, NEW price \in PriceField, NEW qty \in QtyField,
               AmendRequeue(id, price, qty)
        PROVE  pc' = "match" /\ remaining' # 0
    BY <2>2 DEF AmendRequeue, Amendable, StartMatching
  <2>3. pc' \in {"match", "settle"}
    BY DEF Limit, InCall
  <2>4. ASSUME EngineStep \/ Destroy \/ Destroyed PROVE FALSE
    BY <2>3, <2>4 DEF EngineStep, Destroy, Destroyed, Fill, RetireMaker, KeepMaker, RestRemainder,
                DiscardRemainder, DestroyOrder, DestroyLevels, InCall, vars
  <2>5. ASSUME NEW id, NEW price, NEW qty, NEW side, NEW type,
               \/ RejectOrder(id, price, qty, side, type) \/ IgnoreRequest(id, price, qty)
               \/ CancelOrder(id) \/ AmendInPlace(id, price, qty)
               \/ ReducePartial(id, qty) \/ ReduceAll(id, qty)
        PROVE  FALSE
    BY <2>3, <2>5 DEF RejectOrder, IgnoreRequest, CancelOrder, AmendInPlace, ReducePartial,
                      ReduceAll, vars
  <2> QED
    BY <2>1, <2>2, <2>4, <2>5 DEF Next, CallerStep
<1>3. Startable'
  BY StartableNext
<1> QED
  BY <1>1, <1>2, <1>3 DEF Startable

(* A step of a LIMIT order in progress.                                    *)
LEMMA CallProgress ==
  ASSUME BookInv, Next, Limit
  PROVE  /\ Outcome = IF InCall' THEN Outcome' ELSE Queue'
         /\ Outstanding = {AsFill(t) : t \in Reported} \cup IF InCall' THEN Outstanding' ELSE {}
<1>1. CASE Fill
  <2>1. InCall'
    BY <1>1 DEF Fill, InCall
  <2> QED
    BY <1>1, <2>1, FillProgress
<1>2. CASE RetireMaker \/ KeepMaker
  BY <1>2, LoopProgress
<1>3. CASE RestRemainder
  BY <1>3, RestProgress
<1>4. CASE DiscardRemainder
  BY <1>4, DiscardProgress
<1>5. pc \in {"match", "settle"}
  BY DEF Limit, InCall
<1>6. ASSUME NEW id, NEW price, NEW qty, NEW side, NEW type,
             \/ InsertOrder(id, price, qty, side, type) \/ RejectOrder(id, price, qty, side, type)
             \/ CancelOrder(id) \/ AmendInPlace(id, price, qty) \/ AmendRequeue(id, price, qty)
             \/ IgnoreRequest(id, price, qty) \/ ReducePartial(id, qty) \/ ReduceAll(id, qty)
             \/ Destroy \/ Destroyed \/ DestroyOrder(id) \/ DestroyLevels
      PROVE  FALSE
  BY <1>5, <1>6 DEF InsertOrder, RejectOrder, CancelOrder, AmendInPlace, AmendRequeue, IgnoreRequest,
                    ReducePartial, ReduceAll, Destroy, Destroyed, DestroyOrder, DestroyLevels
<1>7. \/ Fill \/ RetireMaker \/ KeepMaker \/ RestRemainder \/ DiscardRemainder
  BY <1>6 DEF Next, EngineStep, CallerStep
<1> QED
  BY <1>1, <1>2, <1>3, <1>4, <1>7

(* The callers' view of every call is right: what BookCalls says at once   *)
(* is what the engine does fill by fill, in any book it can get into.      *)
THEOREM CallsAlwaysAgree == Spec => ResultsAgree
<1>1. ASSUME BookInv, [Next]_vars
      PROVE  [/\ Limit => Outcome = IF InCall' THEN Outcome' ELSE Queue'
              /\ ~InCall /\ Limit' =>
                   Calls!Insertable(Queue', taker'.id, taker'.limit, remaining')
              /\ pc = "idle" /\ pc' = "idle" =>
                   \E id \in OrderIds :
                     \/ Queue' = Calls!CancelOrder(Queue, id)
                     \/ \E n \in QtyField : Queue' = Calls!ReduceOrder(Queue, id, n)]_vars
  <2>1. CASE UNCHANGED vars
    BY <2>1
  <2>2. CASE Next /\ ~UNCHANGED vars
    <3>1. Limit => Outcome = IF InCall' THEN Outcome' ELSE Queue'
      BY <1>1, <2>2, CallProgress
    <3>2. ~InCall /\ Limit' => Calls!Insertable(Queue', taker'.id, taker'.limit, remaining')
      BY <1>1, <2>2, StartProgress
    <3>3. pc = "idle" /\ pc' = "idle" =>
            \E id \in OrderIds :
              \/ Queue' = Calls!CancelOrder(Queue, id)
              \/ \E n \in QtyField : Queue' = Calls!ReduceOrder(Queue, id, n)
      BY <1>1, <2>2, IdleProgress
    <3> QED
      BY <3>1, <3>2, <3>3
  <2> QED
    BY <1>1, <2>1, <2>2
<1> QED
  BY <1>1, BookSafety, PTL DEF Spec, ResultsAgree

(* Each reported trade is a fill that was outstanding, and none is left    *)
(* when the call returns.                                                  *)
THEOREM FillsAlwaysAgree == Spec => FillsAgree
<1>1. ASSUME BookInv, [Next]_vars
      PROVE  [Limit =>
                LET reported == {trades'[i] : i \in DOMAIN trades' \ DOMAIN trades}
                IN Outstanding = {[maker_id |-> t.maker_id, price |-> t.price, qty |-> t.qty] :
                                    t \in reported}
                                 \cup IF InCall' THEN Outstanding' ELSE {}]_vars
  <2>1. CASE UNCHANGED vars
    BY <2>1
  <2>2. CASE Next
    <3>1. Limit => Outstanding = {AsFill(t) : t \in Reported}
                                   \cup IF InCall' THEN Outstanding' ELSE {}
      BY <1>1, <2>2, CallProgress
    <3> QED
      BY <3>1 DEF AsFill, Reported
  <2> QED
    BY <1>1, <2>1, <2>2
<1> QED
  BY <1>1, BookSafety, PTL DEF Spec, FillsAgree
=============================================================================
