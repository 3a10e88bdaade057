-------------------------- MODULE OrderBookProofs ---------------------------
(***************************************************************************)
(* The safety of the order book for every set of ids, every range of       *)
(* prices and quantities and every pool size.                              *)
(*                                                                         *)
(* First the pool, for every number of slots and every heap: PoolInv is    *)
(* PoolTypeOK /\ SlotConservation /\ HeapRouting and is inductive as it    *)
(* stands; its two step lemmas are about Allocate and Deallocate, not      *)
(* about PoolNext, so that the steps of the book can cite them.            *)
(*                                                                         *)
(* Then what happens to the stored book (objects, lists, side maps, index, *)
(* pool) when an order is removed, appended or resized: StoreInv is        *)
(* preserved by the three (RemoveOrderInv, AppendInv and ResizeInv). In    *)
(* each the new queue of the level is given explicitly and shown to be     *)
(* what next and prev follow. Then BookInv is shown inductive: each action *)
(* is one of those changes, or none, plus what it does to the locals of    *)
(* the call in progress.                                                   *)
(*                                                                         *)
(* Last comes what the matching engine promises on top of that.            *)
(***************************************************************************)
EXTENDS OrderBook, BookLemmas, FiniteSetTheorems, TLAPS

(* The constructed pool satisfies the invariant: MemoryPool.hpp:18-23.     *)
LEMMA PoolInitInv ==
  ASSUME PoolInit
  PROVE  PoolInv
<1>1. Cardinality(Slots) \in Nat
  BY PoolAssumption, FS_CardinalityType
<1>2. /\ free_list \in [1 .. Cardinality(Slots) -> Slots]
      /\ IsInjective(free_list)
      /\ \A s \in Slots : \E i \in 1 .. Cardinality(Slots) : free_list[i] = s
  BY DEF PoolInit, Bijection, Injection, Surjection
<1>3. free_list \in Seq(Slots)
  BY <1>1, <1>2
<1>4. PoolTypeOK
  <2>1. overflow_total \in 0 .. MaxOverflow
    BY PoolAssumption DEF PoolInit
  <2>2. has_overflowed \in BOOLEAN
    BY DEF PoolInit
  <2>3. heap_allocated \in SUBSET HeapAddrs /\ live \in SUBSET Addr
    BY DEF PoolInit
  <2> QED
    BY <1>3, <2>1, <2>2, <2>3 DEF PoolTypeOK
<1>5. SlotConservation
  BY <1>2 DEF PoolInit, SlotConservation, Range
<1> QED
  BY <1>4, <1>5 DEF PoolInit, PoolInv, HeapRouting

(* allocate() returns an address that was not in use and keeps the         *)
(* invariant: MemoryPool.hpp:35-54.                                        *)
LEMMA AllocateInv ==
  ASSUME PoolInv, NEW ptr \in Addr, Allocate(ptr)
  PROVE  /\ PoolInv'
         /\ ptr \notin live
         /\ live' = live \cup {ptr}
         /\ ptr \in HeapAddrs => Slots \subseteq live
         /\ has_overflowed' = (has_overflowed \/ ptr \in HeapAddrs)
<1> USE DEF PoolInv
<1>1. CASE AllocateOverflow(ptr)
  <2>1. PoolTypeOK'
    BY <1>1, PoolAssumption DEF AllocateOverflow, PoolTypeOK, Addr
  <2>2. SlotConservation' /\ Slots \subseteq live
    BY <1>1, PoolAssumption DEF AllocateOverflow, SlotConservation, Range
  <2>3. HeapRouting'
    BY <1>1 DEF AllocateOverflow, HeapRouting
  <2> QED
    BY <1>1, <2>1, <2>2, <2>3 DEF AllocateOverflow
<1>2. CASE AllocateSlot(ptr)
  <2> DEFINE n == Len(free_list)
  <2>1. /\ n \in Nat \ {0} /\ DOMAIN free_list = 1 .. n
        /\ free_list' \in Seq(Slots)
        /\ DOMAIN free_list' = 1 .. n - 1
        /\ \A i \in 1 .. n - 1 : free_list'[i] = free_list[i]
        /\ ptr = free_list[n] /\ ptr \in Slots
    BY <1>2 DEF AllocateSlot, PoolTypeOK
  <2>2. ptr \notin live
    BY <2>1 DEF SlotConservation, Range
  <2>3. PoolTypeOK'
    BY <1>2, <2>1 DEF AllocateSlot, PoolTypeOK, Addr
  <2>4. SlotConservation'
    <3>1. IsInjective(free_list')
      BY <2>1 DEF SlotConservation, IsInjective
    <3>2. Range(free_list') = Range(free_list) \ {ptr}
      BY <2>1 DEF SlotConservation, IsInjective, Range
    <3>3. live' = live \cup {ptr}
      BY <1>2 DEF AllocateSlot
    <3> QED
      BY <3>1, <3>2, <3>3 DEF SlotConservation
  <2>5. HeapRouting'
    BY <1>2, <2>1, PoolAssumption DEF AllocateSlot, HeapRouting
  <2> QED
    BY <1>2, <2>1, <2>2, <2>3, <2>4, <2>5, PoolAssumption DEF AllocateSlot, PoolTypeOK
<1> QED
  BY <1>1, <1>2 DEF Allocate

(* deallocate() of an object in use takes the right route and keeps the    *)
(* invariant: MemoryPool.hpp:56-75.                                        *)
LEMMA DeallocateInv ==
  ASSUME PoolInv, NEW ptr \in live, Deallocate(ptr)
  PROVE  /\ PoolInv'
         /\ live' = live \ {ptr}
         /\ has_overflowed' = has_overflowed
<1> USE DEF PoolInv
<1>1. ptr \in Addr /\ ptr # NULL
  BY PoolAssumption DEF PoolTypeOK, Addr
<1>2. CASE DeallocateHeap(ptr)
  <2>1. ptr \in HeapAddrs
    BY <1>2 DEF DeallocateHeap, FromHeap, HeapRouting
  <2>2. PoolTypeOK' /\ SlotConservation' /\ HeapRouting'
    BY <1>2, <2>1, PoolAssumption
    DEF DeallocateHeap, PoolTypeOK, SlotConservation, HeapRouting
  <2> QED
    BY <1>2, <2>2 DEF DeallocateHeap
<1>3. CASE DeallocateSlot(ptr)
  <2>1. ptr \in Slots
    BY <1>1, <1>3 DEF DeallocateSlot, FromHeap, HeapRouting, Addr
  <2> DEFINE n == Len(free_list)
  <2>2. /\ n \in Nat /\ DOMAIN free_list = 1 .. n
        /\ free_list' \in Seq(Slots)
        /\ DOMAIN free_list' = 1 .. n + 1
        /\ \A i \in 1 .. n : free_list'[i] = free_list[i]
        /\ free_list'[n + 1] = ptr
    BY <1>3, <2>1 DEF DeallocateSlot, PoolTypeOK
  <2>3. ptr \notin Range(free_list)
    BY <2>1 DEF SlotConservation
  <2>4. PoolTypeOK'
    BY <1>3, <2>2 DEF DeallocateSlot, PoolTypeOK
  <2>5. SlotConservation'
    <3>1. IsInjective(free_list')
      BY <2>2, <2>3 DEF SlotConservation, IsInjective, Range
    <3>2. Range(free_list') = Range(free_list) \cup {ptr}
      BY <2>2 DEF Range
    <3>3. live' = live \ {ptr}
      BY <1>3 DEF DeallocateSlot
    <3> QED
      BY <3>1, <3>2, <3>3 DEF SlotConservation
  <2>6. HeapRouting'
    BY <1>3, <2>1, PoolAssumption DEF DeallocateSlot, HeapRouting
  <2> QED
    BY <1>3, <2>4, <2>5, <2>6 DEF DeallocateSlot
<1> QED
  BY <1>1, <1>2, <1>3 DEF Deallocate, DeallocateNull

(* Every step of a pool and its owner keeps the invariant                  *)
(* (MemoryPool.hpp:35-75).                                                 *)
LEMMA PoolNextInv ==
  ASSUME PoolInv, [PoolNext]_poolVars
  PROVE  PoolInv'
<1>1. ASSUME NEW ptr \in Addr, Allocate(ptr)
      PROVE  PoolInv'
  BY <1>1, AllocateInv
<1>2. ASSUME NEW ptr \in live, Deallocate(ptr)
      PROVE  PoolInv'
  BY <1>2, DeallocateInv
<1>3. CASE UNCHANGED poolVars
  BY <1>3 DEF poolVars, PoolInv, PoolTypeOK, SlotConservation, HeapRouting
<1>4. CASE Deallocate(NULL)
  <2>1. UNCHANGED poolVars
    BY <1>4 DEF Deallocate, DeallocateNull
  <2> QED
    BY <1>3, <2>1
<1> QED
  BY <1>1, <1>2, <1>3, <1>4 DEF PoolNext

(* The pool never loses a slot, never holds one twice and always knows a   *)
(* heap object from a pooled one, whatever its size.                       *)
THEOREM PoolSafety == PoolSpec => []PoolInv
<1>1. PoolInit => PoolInv
  BY PoolInitInv
<1>2. PoolInv /\ [PoolNext]_poolVars => PoolInv'
  BY PoolNextInv
<1> QED
  BY <1>1, <1>2, PTL DEF PoolSpec

(* Type correctness of the pool's fields (MemoryPool.hpp:92-99).           *)
THEOREM PoolTypeCorrect == PoolSpec => []PoolTypeOK
<1>1. PoolInv => PoolTypeOK
  BY DEF PoolInv
<1> QED
  BY <1>1, PoolSafety, PTL

(* No slot is lost or free twice (MemoryPool.hpp:51-53, 73-74).            *)
THEOREM SlotsConserved == PoolSpec => []SlotConservation
<1>1. PoolInv => SlotConservation
  BY DEF PoolInv
<1> QED
  BY <1>1, PoolSafety, PTL

(* The overflow bookkeeping routes every pointer home (MemoryPool.hpp:65). *)
THEOREM HeapRouted == PoolSpec => []HeapRouting
<1>1. PoolInv => HeapRouting
  BY DEF PoolInv
<1> QED
  BY <1>1, PoolSafety, PTL

(* overflow_total tells a pool that spilled and recovered from one that     *)
(* never did, and never counts fewer overflow objects than are live, for   *)
(* any heap (MemoryPool.hpp:46-48, 79-82).                                 *)
THEOREM OverflowAccounted == PoolSpec => []OverflowAccounting
<1>1. PoolInit => OverflowAccounting
  BY FS_EmptySet DEF PoolInit, OverflowAccounting
<1>2. ASSUME PoolInv, OverflowAccounting, [PoolNext]_poolVars
      PROVE  OverflowAccounting'
  <2>1. /\ heap_allocated \subseteq HeapAddrs /\ IsFiniteSet(heap_allocated)
        /\ Cardinality(heap_allocated) \in Nat
        /\ overflow_total \in Nat /\ MaxOverflow \in Nat \ {0}
    BY <1>2, PoolAssumption, FS_Subset, FS_CardinalityType DEF PoolInv, PoolTypeOK
  <2>2. ASSUME NEW ptr \in Addr, AllocateOverflow(ptr)
        PROVE  OverflowAccounting'
    <3>1. ptr \notin heap_allocated
      BY <1>2, <2>2 DEF AllocateOverflow, PoolInv, HeapRouting
    <3>2. Cardinality(heap_allocated') = Cardinality(heap_allocated) + 1
      BY <2>1, <2>2, <3>1, FS_AddElement DEF AllocateOverflow
    <3>3. /\ has_overflowed' = TRUE
          /\ overflow_total' = IF overflow_total < MaxOverflow THEN overflow_total + 1
                                                               ELSE overflow_total
      BY <2>2 DEF AllocateOverflow
    <3> QED
      BY <1>2, <2>1, <3>2, <3>3 DEF OverflowAccounting
  <2>3. ASSUME NEW ptr \in live, DeallocateHeap(ptr)
        PROVE  OverflowAccounting'
    <3>1. ptr \in heap_allocated /\ heap_allocated' = heap_allocated \ {ptr}
      BY <2>3 DEF DeallocateHeap, FromHeap
    <3>2. Cardinality(heap_allocated') = Cardinality(heap_allocated) - 1
      BY <2>1, <3>1, FS_RemoveElement
    <3> QED
      BY <1>2, <2>1, <2>3, <3>2 DEF DeallocateHeap, OverflowAccounting
  <2>4. CASE UNCHANGED <<heap_allocated, has_overflowed, overflow_total>>
    BY <1>2, <2>4 DEF OverflowAccounting
  <2>5. \/ \E ptr \in Addr : AllocateOverflow(ptr)
        \/ \E ptr \in live : DeallocateHeap(ptr)
        \/ UNCHANGED <<heap_allocated, has_overflowed, overflow_total>>
    BY <1>2, PoolAssumption
       DEF PoolNext, Allocate, AllocateSlot, Deallocate, DeallocateNull, DeallocateHeap,
           DeallocateSlot, poolVars
  <2> QED
    BY <2>2, <2>3, <2>4, <2>5
<1> QED
  BY <1>1, <1>2, PoolSafety, PTL DEF PoolSpec

(* The pool implements the abstract allocator: an address is handed out    *)
(* only while it is not in use, and the heap is used only when every slot  *)
(* is (MemoryPool.hpp:35-75).                                              *)
THEOREM PoolImplementsAllocator == PoolSpec => ImplementsAllocator
<1>1. PoolInit => Abstract!Init
  BY DEF PoolInit, Abstract!Init
<1>2. ASSUME PoolInv, [PoolNext]_poolVars
      PROVE  [Abstract!Next]_<<live, has_overflowed>>
  <2>1. ASSUME NEW ptr \in Addr, Allocate(ptr)
        PROVE  Abstract!Acquire(ptr)
    BY <1>2, <2>1, AllocateInv DEF Abstract!Acquire, Addr
  <2>2. ASSUME NEW ptr \in live, Deallocate(ptr)
        PROVE  Abstract!Release(ptr)
    BY <1>2, <2>2, DeallocateInv DEF Abstract!Release
  <2>3. CASE UNCHANGED poolVars
    BY <2>3 DEF poolVars
  <2>4. CASE Deallocate(NULL)
    BY <2>4 DEF Deallocate, DeallocateNull, poolVars
  <2>5. live \subseteq Addr
    BY <1>2 DEF PoolInv, PoolTypeOK
  <2> QED
    BY <1>2, <2>1, <2>2, <2>3, <2>4, <2>5 DEF PoolNext, Abstract!Next, Addr
<1> QED
  BY <1>1, <1>2, PoolSafety, PTL DEF PoolSpec, ImplementsAllocator, Abstract!Spec

-----------------------------------------------------------------------------

(* The two sides are each other's opposite, and the sentinels are not      *)
(* prices an order can rest at (OrderBook.hpp:106-109).                    *)
LEMMA SideFacts ==
  /\ \A s \in Side : Opposite(s) \in Side /\ Opposite(s) # s /\ Opposite(Opposite(s)) = s
  /\ Price \subseteq Int /\ Price \subseteq PriceField
  /\ 0 \notin Price /\ NO_ASK \notin Price
BY BookAssumption DEF Side, Opposite, Price, PriceField, NO_BID

(* Nothing that is not a live order is read through a level or the index:  *)
(* what the code may assume of an order it has found (OrderBook.cpp:140).  *)
LEMMA LiveOrder ==
  ASSUME StoreInv, Open, NEW a \in live
  PROVE  /\ a \in Addr /\ a # NULL
         /\ mem[a] \in Order
         /\ mem[a].side \in Side /\ mem[a].price \in Price
         /\ mem[a].price \in DOMAIN levels[mem[a].side]
         /\ levels[mem[a].side][mem[a].price] \in PriceLevel
         /\ a \in OrdersAt(mem[a].side, mem[a].price)
<1>1. a \in Addr /\ a # NULL /\ mem[a] \in Order
  BY PoolAssumption DEF StoreInv, StoreTypeOK, PoolTypeOK, Addr
<1>2. mem[a].side \in Side /\ mem[a].price \in Price
  BY <1>1 DEF Order
<1>3. mem[a].price \in DOMAIN levels[mem[a].side]
  BY DEF StoreInv, QueuesWellFormed
<1>4. levels[mem[a].side][mem[a].price] \in PriceLevel
  BY <1>2, <1>3 DEF StoreInv, StoreTypeOK
<1> QED
  BY <1>1, <1>2, <1>3, <1>4 DEF OrdersAt

(* Every well-formed level has a queue: some q lists its n orders in the   *)
(* order in which next and prev link them (OrderBook.hpp:36-60).           *)
LEMMA LevelQueue ==
  ASSUME StoreInv, Open, NEW s \in Side, NEW p \in DOMAIN levels[s],
         NEW n, n = levels[s][p].order_count
  PROVE  \E q \in [1 .. n -> OrdersAt(s, p)] :
           /\ \A b \in OrdersAt(s, p) : \E i \in 1 .. n : q[i] = b
           /\ \A i, j \in 1 .. n : q[i] = q[j] => i = j
           /\ levels[s][p].head = q[1] /\ levels[s][p].tail = q[n]
           /\ \A i \in 1 .. n :
                /\ mem[q[i]].next = IF i = n THEN NULL ELSE q[i + 1]
                /\ mem[q[i]].prev = IF i = 1 THEN NULL ELSE q[i - 1]
<1>1. PICK q \in [1 .. n -> OrdersAt(s, p)] : Threads(q, s, p)
  BY DEF StoreInv, QueuesWellFormed
<1>2. /\ \A b \in OrdersAt(s, p) : \E i \in 1 .. n : q[i] = b
      /\ \A i, j \in 1 .. n : q[i] = q[j] => i = j
      /\ levels[s][p].head = q[1] /\ levels[s][p].tail = q[n]
      /\ \A i \in 1 .. n :
           /\ mem[q[i]].next = IF i = n THEN NULL ELSE q[i + 1]
           /\ mem[q[i]].prev = IF i = 1 THEN NULL ELSE q[i - 1]
  BY <1>1 DEF Threads
<1> QED
  BY <1>2

(* A queue whose level keeps its ends and count, and whose orders keep      *)
(* their links, is still a queue (OrderBook.hpp:27-33).                    *)
LEMMA ThreadsStable ==
  ASSUME NEW q, NEW s, NEW p,
         Threads(q, s, p),
         OrdersAt(s, p)' = OrdersAt(s, p),
         levels'[s][p].order_count = levels[s][p].order_count,
         levels'[s][p].head = levels[s][p].head,
         levels'[s][p].tail = levels[s][p].tail,
         \A i \in 1 .. levels[s][p].order_count :
           mem'[q[i]].next = mem[q[i]].next /\ mem'[q[i]].prev = mem[q[i]].prev
  PROVE  Threads(q, s, p)'
<1>1. PICK n : n = levels[s][p].order_count
  OBVIOUS
<1>2. n = levels'[s][p].order_count
  BY <1>1
<1>3. /\ \A a \in OrdersAt(s, p) : \E i \in 1 .. n : q[i] = a
      /\ \A i, j \in 1 .. n : q[i] = q[j] => i = j
      /\ levels[s][p].head = q[1] /\ levels[s][p].tail = q[n]
      /\ \A i \in 1 .. n :
           /\ mem[q[i]].next = IF i = n THEN NULL ELSE q[i + 1]
           /\ mem[q[i]].prev = IF i = 1 THEN NULL ELSE q[i - 1]
  BY <1>1 DEF Threads
<1>4. \A i \in 1 .. n :
        /\ mem'[q[i]].next = IF i = n THEN NULL ELSE q[i + 1]
        /\ mem'[q[i]].prev = IF i = 1 THEN NULL ELSE q[i - 1]
  BY <1>1, <1>3
<1> QED
  BY <1>2, <1>3, <1>4 DEF Threads

\* q is the queue of the level at s and p.
Listed(q, s, p) ==
  q \in [1 .. levels[s][p].order_count -> OrdersAt(s, p)] /\ Threads(q, s, p)

\* A queue of n orders without its k-th, and with another at its back.
Cut(q, n, k)    == [i \in 1 .. n - 1 |-> IF i < k THEN q[i] ELSE q[i + 1]]
Pushed(q, n, a) == [i \in 1 .. n + 1 |-> IF i = n + 1 THEN a ELSE q[i]]

Edited(q, f, n) ==
  f = q \/ (\E k \in 1 .. n : f = Cut(q, n, k)) \/ (\E a : f = Pushed(q, n, a))

\* In a step, at most one order leaves or joins the level at s and p, and none is
\* overtaken.
QueueKept(s, p) ==
  \E q, f : /\ Listed(q, s, p) /\ Listed(f, s, p)'
            /\ KeepsOrder(q, f) /\ Edited(q, f, levels[s][p].order_count)

(* A queue that does not change keeps its order: nothing is in it twice.   *)
LEMMA SameQueueKept ==
  ASSUME NEW s, NEW p, NEW q, NEW n \in Int, n = levels[s][p].order_count,
         Listed(q, s, p), Listed(q, s, p)'
  PROVE  QueueKept(s, p)
<1>1. DOMAIN q = 1 .. n /\ \A i, j \in 1 .. n : q[i] = q[j] => i = j
  BY DEF Listed, Threads
<1>2. KeepsOrder(q, q)
  <2> SUFFICES ASSUME NEW i \in 1 .. n, NEW j \in 1 .. n, NEW k \in 1 .. n,
                      i < j, q[j] = q[k]
               PROVE  \E m \in 1 .. k - 1 : q[i] = q[m]
    BY <1>1 DEF KeepsOrder
  <2>1. j = k /\ i \in 1 .. k - 1
    BY <1>1
  <2> QED
    BY <2>1
<1> QED
  BY <1>2 DEF QueueKept, Edited

(* Removing an order anywhere in a queue: cancel_order, the full reduction *)
(* and the retirement of a filled maker all do this.                       *)
LEMMA RemoveOrderInv ==
  ASSUME StoreInv, Open, NEW a \in live, RemoveOrder(a), Open'
  PROVE  /\ StoreInv'
         /\ live' = live \ {a}
         /\ order_map' = [order_map EXCEPT ![mem[a].id] = NULL]
         /\ \A x \in live' : mem'[x].qty = mem[x].qty /\ mem'[x].id = mem[x].id
         /\ \A t \in Side, r \in Price :
              OrdersAt(t, r)' = IF t = mem[a].side /\ r = mem[a].price
                                THEN OrdersAt(t, r) \ {a} ELSE OrdersAt(t, r)
         /\ \A t \in Side : \A r \in DOMAIN levels'[t] :
              /\ r \in DOMAIN levels[t]
              /\ levels'[t][r].total_volume =
                   IF t = mem[a].side /\ r = mem[a].price
                   THEN levels[t][r].total_volume - mem[a].qty
                   ELSE levels[t][r].total_volume
              /\ QueueKept(t, r)
<1>0. PICK s \in Side, p \in Price : s = mem[a].side /\ p = mem[a].price
  BY LiveOrder
<1>1. /\ a \in Addr /\ a # NULL /\ mem[a] \in Order
      /\ s \in Side /\ p \in Price /\ p \in DOMAIN levels[s]
      /\ levels[s][p] \in PriceLevel /\ a \in OrdersAt(s, p)
  BY <1>0, LiveOrder
<1>1a. PICK n \in Int : n = levels[s][p].order_count
  BY <1>1 DEF PriceLevel
<1>2. PoolInv /\ Deallocate(a)
  BY DEF StoreInv, StoreTypeOK, PoolInv, RemoveOrder
<1>3. PoolInv' /\ live' = live \ {a}
  BY <1>2, DeallocateInv
<1>4. \A x \in Addr :
        IF x = a THEN mem'[x] = RawOrder
        ELSE mem'[x] = [mem[x] EXCEPT
               !.next = IF x = mem[a].prev THEN mem[a].next ELSE @,
               !.prev = IF x = mem[a].next THEN mem[a].prev ELSE @]
  BY DEF RemoveOrder, UnlinkedFrom
<1>4a. PICK q \in [1 .. n -> OrdersAt(s, p)] : Threads(q, s, p)
  BY <1>1, <1>1a DEF StoreInv, QueuesWellFormed
<1>5. /\ \A b \in OrdersAt(s, p) : \E i \in 1 .. n : q[i] = b
      /\ \A i, j \in 1 .. n : q[i] = q[j] => i = j
      /\ levels[s][p].head = q[1] /\ levels[s][p].tail = q[n]
      /\ \A i \in 1 .. n :
           /\ mem[q[i]].next = IF i = n THEN NULL ELSE q[i + 1]
           /\ mem[q[i]].prev = IF i = 1 THEN NULL ELSE q[i - 1]
  BY <1>1a, <1>4a DEF Threads
<1>6. n \in Nat /\ n > 0
  BY <1>1, <1>1a DEF StoreInv, QueuesWellFormed
<1>7. PICK k \in 1 .. n : q[k] = a
  BY <1>1, <1>5
<1>8. /\ mem[a].next = IF k = n THEN NULL ELSE q[k + 1]
      /\ mem[a].prev = IF k = 1 THEN NULL ELSE q[k - 1]
  BY <1>6, <1>7, <1>5
<1>9. /\ mem[a].next \in OrdersAt(s, p) \cup {NULL}
      /\ mem[a].prev \in OrdersAt(s, p) \cup {NULL}
  BY <1>5, <1>6, <1>7, <1>8
<1>10. \A x \in live' :
         /\ x \in live /\ x \in Addr /\ x # a /\ mem[x] \in Order /\ mem'[x] \in Order
         /\ mem'[x].id = mem[x].id /\ mem'[x].qty = mem[x].qty
         /\ mem'[x].side = mem[x].side /\ mem'[x].price = mem[x].price
         /\ mem'[x].next = IF x = mem[a].prev THEN mem[a].next ELSE mem[x].next
         /\ mem'[x].prev = IF x = mem[a].next THEN mem[a].prev ELSE mem[x].prev
  <2> SUFFICES ASSUME NEW x \in live' 
               PROVE  /\ x \in live /\ x \in Addr /\ x # a /\ mem[x] \in Order /\ mem'[x] \in Order
                      /\ mem'[x].id = mem[x].id /\ mem'[x].qty = mem[x].qty
                      /\ mem'[x].side = mem[x].side /\ mem'[x].price = mem[x].price
                      /\ mem'[x].next = IF x = mem[a].prev THEN mem[a].next ELSE mem[x].next
                      /\ mem'[x].prev = IF x = mem[a].next THEN mem[a].prev ELSE mem[x].prev
    OBVIOUS
  <2> DEFINE nx == IF x = mem[a].prev THEN mem[a].next ELSE mem[x].next
             pv == IF x = mem[a].next THEN mem[a].prev ELSE mem[x].prev
  <2>1. x \in live /\ x # a /\ x \in Addr /\ mem[x] \in Order
    BY <1>3, LiveOrder
  <2>2. nx \in Pointer /\ pv \in Pointer
    BY <1>1, <2>1 DEF Order
  <2>3. mem'[x] = [mem[x] EXCEPT !.next = nx, !.prev = pv]
    BY <1>4, <2>1
  <2> HIDE DEF nx, pv
  <2>4. /\ mem'[x] \in Order /\ mem'[x].next = nx /\ mem'[x].prev = pv
        /\ mem'[x].id = mem[x].id /\ mem'[x].price = mem[x].price
        /\ mem'[x].qty = mem[x].qty /\ mem'[x].side = mem[x].side
    BY <2>1, <2>2, <2>3 DEF Order
  <2> QED
    BY <2>1, <2>4 DEF nx, pv
<1>11. \A x \in Addr \ live' : mem'[x] = RawOrder
  <2> SUFFICES ASSUME NEW x \in Addr \ live', x # a
               PROVE  mem'[x] = RawOrder
    BY <1>4
  <2>1. mem[x] = RawOrder /\ x \notin live
    BY <1>3 DEF StoreInv, StoreTypeOK
  <2>2. x # mem[a].prev /\ x # mem[a].next
    BY <1>9, <2>1, PoolAssumption DEF OrdersAt, Addr
  <2>3. mem'[x] = [mem[x] EXCEPT !.next = mem[x].next, !.prev = mem[x].prev]
    BY <1>4, <2>2
  <2> QED
    BY <2>1, <2>3 DEF RawOrder
<1>12. /\ OrdersAt(s, p)' = OrdersAt(s, p) \ {a}
       /\ \A t \in Side, r \in Price : <<t, r>> # <<s, p>> => OrdersAt(t, r)' = OrdersAt(t, r)
  BY <1>0, <1>3, <1>10 DEF OrdersAt
<1>13. /\ DOMAIN levels' = Side
       /\ \A t \in Side \ {s} : levels'[t] = levels[t]
       /\ levels'[s] = PutOrErase(levels[s], p, Removed(levels[s][p], a))
  BY <1>0, <1>1 DEF RemoveOrder, StoreInv, StoreTypeOK
<1>14. /\ Removed(levels[s][p], a) \in PriceLevel
       /\ Removed(levels[s][p], a).order_count = n - 1
       /\ Removed(levels[s][p], a).head = IF a = levels[s][p].head THEN mem[a].next ELSE levels[s][p].head
       /\ Removed(levels[s][p], a).tail = IF a = levels[s][p].tail THEN mem[a].prev ELSE levels[s][p].tail
  BY <1>1, <1>1a DEF Removed, PriceLevel, Order, QtyField
<1>15. /\ \A r \in DOMAIN levels'[s] \ {p} : r \in DOMAIN levels[s] /\ levels'[s][r] = levels[s][r]
       /\ \A r \in DOMAIN levels[s] \ {p} : r \in DOMAIN levels'[s]
       /\ p \in DOMAIN levels'[s] <=> n # 1
       /\ n # 1 => levels'[s][p] = Removed(levels[s][p], a)
       /\ levels'[s] \in [DOMAIN levels'[s] -> PriceLevel]
  BY <1>1, <1>6, <1>13, <1>14 DEF PutOrErase, PutLevel, StoreInv, StoreTypeOK
<1>16. order_map' = [order_map EXCEPT ![mem[a].id] = NULL]
  BY DEF RemoveOrder
<1>17. StoreTypeOK'
  <2>1. PoolTypeOK'
    BY <1>3 DEF PoolInv
  <2>2. \A x \in Addr : IF x \in live' THEN mem'[x] \in Order ELSE mem'[x] = RawOrder
    BY <1>10, <1>11
  <2>3. mem' \in [Addr -> Order \cup {RawOrder}]
    BY <2>2 DEF RemoveOrder, UnlinkedFrom
  <2>4. \A t \in Side : /\ DOMAIN levels'[t] \subseteq Price
                        /\ levels'[t] \in [DOMAIN levels'[t] -> PriceLevel]
    BY <1>1, <1>13, <1>15 DEF StoreInv, StoreTypeOK
  <2>5. order_map' \in [OrderIds -> Pointer]
    BY <1>16 DEF StoreInv, StoreTypeOK, Pointer
  <2> QED
    BY <1>13, <2>1, <2>2, <2>3, <2>4, <2>5 DEF StoreTypeOK
<1>18. IndexAgrees'
  <2>1. /\ mem[a].id \in OrderIds /\ order_map[mem[a].id] = a
        /\ order_map \in [OrderIds -> Pointer]
    BY <1>1 DEF Order, StoreInv, StoreTypeOK, IndexAgrees
  <2>2. \A x \in live' : order_map[mem[x].id] = x /\ mem[x].id \in OrderIds
    BY <1>10 DEF Order, StoreInv, IndexAgrees
  <2> QED
    BY <1>3, <1>10, <1>16, <2>1, <2>2 DEF StoreInv, IndexAgrees
<1>19. Uncrossed'
  BY <1>1, <1>13, <1>15 DEF StoreInv, Uncrossed, Side
<1>20. QueuesWellFormed' /\ \A t \in Side : \A r \in DOMAIN levels'[t] : QueueKept(t, r)
  <2>1. ASSUME NEW t \in Side, NEW r \in DOMAIN levels'[t], <<t, r>> # <<s, p>>
        PROVE  /\ levels'[t][r].order_count > 0
               /\ \E f \in [1 .. levels'[t][r].order_count -> OrdersAt(t, r)'] : Threads(f, t, r)'
               /\ QueueKept(t, r)
    <3>1. r \in Price /\ r \in DOMAIN levels[t] /\ levels'[t][r] = levels[t][r]
      BY <1>13, <1>15, <1>17, <2>1 DEF StoreTypeOK
    <3>2. OrdersAt(t, r)' = OrdersAt(t, r) /\ OrdersAt(t, r) \cap OrdersAt(s, p) = {}
      BY <1>12, <2>1, <3>1 DEF OrdersAt
    <3>3. levels[t][r].order_count > 0
      BY <3>1 DEF StoreInv, QueuesWellFormed
    <3>4. PICK f \in [1 .. levels[t][r].order_count -> OrdersAt(t, r)] : Threads(f, t, r)
      BY <3>1 DEF StoreInv, QueuesWellFormed
    <3>5. \A i \in 1 .. levels[t][r].order_count :
            mem'[f[i]].next = mem[f[i]].next /\ mem'[f[i]].prev = mem[f[i]].prev
      <4> SUFFICES ASSUME NEW i \in 1 .. levels[t][r].order_count
                   PROVE  mem'[f[i]].next = mem[f[i]].next /\ mem'[f[i]].prev = mem[f[i]].prev
        OBVIOUS
      <4>1. f[i] \in OrdersAt(t, r)
        BY <3>4
      <4>2. f[i] \in live' /\ f[i] \in live
        BY <3>2, <4>1 DEF OrdersAt
      <4>3. f[i] # mem[a].prev /\ f[i] # mem[a].next
        BY <1>9, <3>2, <4>1, <4>2, LiveOrder
      <4> QED
        BY <1>10, <4>2, <4>3
    <3>6. Threads(f, t, r)'
      BY <3>1, <3>2, <3>4, <3>5, ThreadsStable
    <3>7. f \in [1 .. levels'[t][r].order_count -> OrdersAt(t, r)']
      BY <3>1, <3>2, <3>4
    <3>8. levels'[t][r].order_count > 0
      BY <3>1, <3>3
    <3>9. QueueKept(t, r)
      <4>1. levels[t][r].order_count \in Int
        BY <3>1 DEF StoreInv, StoreTypeOK, PriceLevel
      <4>2. Listed(f, t, r) /\ Listed(f, t, r)'
        BY <3>4, <3>6, <3>7 DEF Listed
      <4> QED
        BY <4>1, <4>2, SameQueueKept
    <3> QED
      BY <3>6, <3>7, <3>8, <3>9
  <2>2. ASSUME p \in DOMAIN levels'[s]
        PROVE  /\ levels'[s][p].order_count > 0
               /\ \E f \in [1 .. levels'[s][p].order_count -> OrdersAt(s, p)'] : Threads(f, s, p)'
               /\ QueueKept(s, p)
    <3> DEFINE f == [i \in 1 .. n - 1 |-> IF i < k THEN q[i] ELSE q[i + 1]]
    <3>1. n # 1 /\ levels'[s][p] = Removed(levels[s][p], a) /\ levels'[s][p].order_count = n - 1
      BY <1>14, <1>15, <2>2
    <3>2. f \in [1 .. n - 1 -> OrdersAt(s, p)']
      <4> SUFFICES ASSUME NEW i \in 1 .. n - 1
                   PROVE  f[i] \in OrdersAt(s, p) \ {a}
        BY <1>12
      <4>1. CASE i < k
        BY <1>5, <1>6, <1>7, <4>1
      <4>2. CASE ~(i < k)
        BY <1>5, <1>6, <1>7, <4>2
      <4> QED
        BY <4>1, <4>2
    <3>3. \A b \in OrdersAt(s, p)' : \E i \in 1 .. n - 1 : f[i] = b
      <4> SUFFICES ASSUME NEW b \in OrdersAt(s, p)'
                   PROVE  \E i \in 1 .. n - 1 : f[i] = b
        OBVIOUS
      <4>1. PICK j \in 1 .. n : q[j] = b
        BY <1>5, <1>12
      <4>2. j # k
        BY <1>7, <1>12, <4>1
      <4>3. CASE j < k
        BY <1>6, <4>1, <4>3
      <4>4. CASE j > k
        <5>1. j - 1 \in 1 .. n - 1 /\ ~(j - 1 < k) /\ (j - 1) + 1 = j
          BY <1>6, <4>4
        <5>2. f[j - 1] = b
          BY <4>1, <5>1
        <5> QED
          BY <5>1, <5>2
      <4> QED
        BY <4>2, <4>3, <4>4
    <3>4. \A i, j \in 1 .. n - 1 : f[i] = f[j] => i = j
      <4> SUFFICES ASSUME NEW i \in 1 .. n - 1, NEW j \in 1 .. n - 1, f[i] = f[j]
                   PROVE  i = j
        OBVIOUS
      <4> DEFINE up(m) == IF m < k THEN m ELSE m + 1
      <4>1. /\ up(i) \in 1 .. n /\ up(j) \in 1 .. n
            /\ q[up(i)] = f[i] /\ q[up(j)] = f[j]
        BY <1>6
      <4>2. up(i) = up(j)
        BY <1>5, <4>1
      <4> QED
        BY <1>6, <4>2
    <3>5. levels'[s][p].head = f[1] /\ levels'[s][p].tail = f[n - 1]
      <4>1. 1 \in 1 .. n - 1 /\ n - 1 \in 1 .. n - 1
        BY <1>6, <3>1
      <4>2. a = levels[s][p].head <=> k = 1
        BY <1>5, <1>6, <1>7
      <4>3. a = levels[s][p].tail <=> k = n
        BY <1>5, <1>6, <1>7
      <4>4. f[1] = IF k = 1 THEN q[2] ELSE q[1]
        BY <4>1
      <4>5. f[n - 1] = IF k = n THEN q[n - 1] ELSE q[n]
        BY <1>6, <4>1
      <4> QED
        BY <1>5, <1>6, <1>8, <1>14, <3>1, <4>2, <4>3, <4>4, <4>5
    <3>6. \A i \in 1 .. n - 1 :
            /\ mem'[f[i]].next = IF i = n - 1 THEN NULL ELSE f[i + 1]
            /\ mem'[f[i]].prev = IF i = 1 THEN NULL ELSE f[i - 1]
      <4> SUFFICES ASSUME NEW i \in 1 .. n - 1
                   PROVE  /\ mem'[f[i]].next = IF i = n - 1 THEN NULL ELSE f[i + 1]
                          /\ mem'[f[i]].prev = IF i = 1 THEN NULL ELSE f[i - 1]
        OBVIOUS
      <4> DEFINE m == IF i < k THEN i ELSE i + 1
      <4>1. m \in 1 .. n /\ m # k /\ f[i] = q[m]
        BY <1>6
      <4>2. f[i] \in live'
        BY <1>12, <3>2 DEF OrdersAt
      <4>3. /\ f[i] = mem[a].prev <=> k # 1 /\ m = k - 1
            /\ f[i] = mem[a].next <=> k # n /\ m = k + 1
        <5>1. \A j \in 1 .. n : q[j] # NULL
          BY <1>5, LiveOrder DEF OrdersAt
        <5>2. f[i] = mem[a].prev <=> k # 1 /\ m = k - 1
          <6>1. CASE k = 1
            BY <1>8, <4>1, <5>1, <6>1
          <6>2. CASE k # 1
            <7>1. k - 1 \in 1 .. n /\ mem[a].prev = q[k - 1]
              BY <1>6, <1>8, <6>2
            <7> QED
              BY <1>5, <4>1, <6>2, <7>1
          <6> QED
            BY <6>1, <6>2
        <5>3. f[i] = mem[a].next <=> k # n /\ m = k + 1
          <6>1. CASE k = n
            BY <1>8, <4>1, <5>1, <6>1
          <6>2. CASE k # n
            <7>1. k + 1 \in 1 .. n /\ mem[a].next = q[k + 1]
              BY <1>6, <1>8, <6>2
            <7> QED
              BY <1>5, <4>1, <6>2, <7>1
          <6> QED
            BY <6>1, <6>2
        <5> QED
          BY <5>2, <5>3
      <4>4. /\ mem'[f[i]].next = IF f[i] = mem[a].prev THEN mem[a].next ELSE mem[q[m]].next
            /\ mem'[f[i]].prev = IF f[i] = mem[a].next THEN mem[a].prev ELSE mem[q[m]].prev
        BY <1>10, <4>1, <4>2
      <4>5. mem'[f[i]].next = IF i = n - 1 THEN NULL ELSE f[i + 1]
        <5>1. CASE i < k - 1
          <6>1. m = i /\ m # k - 1 /\ i # n - 1 /\ i + 1 \in 1 .. n - 1 /\ f[i + 1] = q[i + 1]
            BY <1>6, <5>1
          <6> QED
            BY <1>5, <1>6, <4>1, <4>3, <4>4, <6>1
        <5>2. CASE i = k - 1
          <6>1. m = i /\ k # 1 /\ mem'[f[i]].next = mem[a].next /\ (i = n - 1 <=> k = n)
            BY <1>6, <4>3, <4>4, <5>2
          <6>2. i # n - 1 => f[i + 1] = q[k + 1]
            BY <1>6, <5>2
          <6> QED
            BY <1>8, <6>1, <6>2
        <5>3. CASE i >= k
          <6>1. m = i + 1 /\ m # k - 1 /\ (i = n - 1 <=> m = n)
            BY <1>6, <5>3
          <6>2. i # n - 1 => f[i + 1] = q[m + 1]
            BY <1>6, <5>3
          <6> QED
            BY <1>5, <4>1, <4>3, <4>4, <6>1, <6>2
        <5> QED
          BY <1>6, <5>1, <5>2, <5>3
      <4>6. mem'[f[i]].prev = IF i = 1 THEN NULL ELSE f[i - 1]
        <5>1. CASE i < k
          <6>1. m = i /\ m # k + 1 /\ (i # 1 => f[i - 1] = q[i - 1])
            BY <1>6, <5>1
          <6> QED
            BY <1>5, <4>1, <4>3, <4>4, <6>1
        <5>2. CASE i = k
          <6>1. m = k + 1 /\ k # n /\ mem'[f[i]].prev = mem[a].prev
            BY <1>6, <4>3, <4>4, <5>2
          <6>2. i # 1 => f[i - 1] = q[k - 1]
            BY <1>6, <5>2
          <6> QED
            BY <1>8, <5>2, <6>1, <6>2
        <5>3. CASE i > k
          <6>1. m = i + 1 /\ m # k + 1 /\ m # 1 /\ m - 1 = i /\ i # 1 /\ f[i - 1] = q[i]
            BY <1>6, <5>3
          <6>2. mem[q[m]].prev = q[m - 1]
            BY <1>5, <4>1, <6>1
          <6> QED
            BY <4>3, <4>4, <6>1, <6>2
        <5> QED
          BY <1>6, <5>1, <5>2, <5>3
      <4> QED
        BY <4>5, <4>6
    <3>7. KeepsOrder(q, f)
      <4> SUFFICES ASSUME NEW i \in 1 .. n - 1, NEW j \in 1 .. n - 1, NEW m \in 1 .. n,
                          i < j, f[j] = q[m]
                   PROVE  \E l \in 1 .. m - 1 : f[i] = q[l]
        BY <1>5 DEF KeepsOrder
      <4> DEFINE up(l) == IF l < k THEN l ELSE l + 1
      <4>1. /\ up(i) \in 1 .. n /\ up(j) \in 1 .. n /\ up(i) < up(j)
            /\ q[up(i)] = f[i] /\ q[up(j)] = f[j]
        BY <1>6
      <4>2. up(j) = m
        BY <1>5, <4>1
      <4> HIDE DEF up, f
      <4>3. up(i) \in 1 .. m - 1
        BY <4>1, <4>2
      <4> QED
        BY <4>1, <4>3
    <3> HIDE DEF f
    <3>8. Threads(f, s, p)'
      BY <3>1, <3>3, <3>4, <3>5, <3>6 DEF Threads
    <3>9. QueueKept(s, p)
      <4>1. Listed(q, s, p)
        BY <1>1a, <1>5 DEF Listed, Threads
      <4>2. Listed(f, s, p)'
        BY <3>1, <3>2, <3>8 DEF Listed
      <4>3. Edited(q, f, levels[s][p].order_count)
        <5>1. f = Cut(q, n, k)
          BY DEF f, Cut
        <5> QED
          BY <1>1a, <5>1 DEF Edited
      <4> QED
        BY <3>7, <4>1, <4>2, <4>3 DEF QueueKept
    <3> QED
      BY <1>6, <3>1, <3>2, <3>8, <3>9
  <2>3. ASSUME NEW x \in live'
        PROVE  mem'[x].price \in DOMAIN levels'[mem'[x].side]
    <3>1. /\ x \in live /\ mem'[x].price = mem[x].price /\ mem'[x].side = mem[x].side
          /\ mem[x].side \in Side /\ mem[x].price \in DOMAIN levels[mem[x].side]
      BY <1>10, LiveOrder
    <3>2. CASE <<mem[x].side, mem[x].price>> # <<s, p>>
      BY <1>13, <1>15, <3>1, <3>2
    <3>3. CASE <<mem[x].side, mem[x].price>> = <<s, p>>
      <4>1. x \in OrdersAt(s, p) /\ x # a
        BY <1>10, <3>1, <3>3 DEF OrdersAt
      <4>2. n # 1
        BY <1>5, <1>7, <4>1
      <4> QED
        BY <1>15, <3>1, <3>3, <4>2
    <3> QED
      BY <3>2, <3>3
  <2>4. \A t \in Side : \A r \in DOMAIN levels'[t] : <<t, r>> # <<s, p>> \/ (t = s /\ r = p)
    OBVIOUS
  <2>5. QueuesWellFormed'
    BY <2>1, <2>2, <2>3 DEF QueuesWellFormed
  <2>6. \A t \in Side : \A r \in DOMAIN levels'[t] : QueueKept(t, r)
    BY <2>1, <2>2, <2>4
  <2> QED
    BY <2>5, <2>6
<1>21. \A t \in Side, r \in Price :
         OrdersAt(t, r)' = IF t = mem[a].side /\ r = mem[a].price
                           THEN OrdersAt(t, r) \ {a} ELSE OrdersAt(t, r)
  BY <1>0, <1>12
<1>22. \A t \in Side : \A r \in DOMAIN levels'[t] :
         /\ r \in DOMAIN levels[t]
         /\ levels'[t][r].total_volume =
              IF t = mem[a].side /\ r = mem[a].price
              THEN levels[t][r].total_volume - mem[a].qty ELSE levels[t][r].total_volume
  <2>1. Removed(levels[s][p], a).total_volume = levels[s][p].total_volume - mem[a].qty
    BY DEF Removed
  <2> SUFFICES ASSUME NEW t \in Side, NEW r \in DOMAIN levels'[t]
               PROVE  /\ r \in DOMAIN levels[t]
                      /\ levels'[t][r].total_volume =
                           IF t = s /\ r = p
                           THEN levels[t][r].total_volume - mem[a].qty
                           ELSE levels[t][r].total_volume
    BY <1>0
  <2>2. CASE t = s /\ r = p
    BY <1>1, <1>15, <2>1, <2>2
  <2>3. CASE ~(t = s /\ r = p)
    BY <1>13, <1>15, <2>3
  <2> QED
    BY <2>2, <2>3
<1> QED
  BY <1>3, <1>10, <1>16, <1>17, <1>18, <1>19, <1>20, <1>21, <1>22 DEF PoolInv, StoreInv

(* Appending an order behind those already at its price: what is left of a *)
(* LIMIT order does this, when nothing on the other side crosses it.       *)
LEMMA AppendInv ==
  ASSUME StoreInv, Open,
         NEW id \in OrderIds, NEW s \in Side, NEW p \in Price, NEW qty \in Qty,
         order_map[id] = NULL,
         \A r \in DOMAIN levels[Opposite(s)] : ~Crosses(s, r, p),
         AppendOrder(id, s, p, qty), Open'
  PROVE  /\ StoreInv'
         /\ \A x \in live' : mem'[x].qty = 0 => x \in live /\ mem[x].qty = 0
         /\ \A x \in live : mem'[x].qty = mem[x].qty /\ mem'[x].id = mem[x].id
         /\ \E a \in live' \ live :
              /\ live' = live \cup {a} /\ mem'[a].qty = qty /\ mem'[a].id = id
              /\ \A t \in Side, r \in Price :
                   OrdersAt(t, r)' = IF t = s /\ r = p THEN OrdersAt(t, r) \cup {a}
                                                      ELSE OrdersAt(t, r)
         /\ \A t \in Side : \A r \in DOMAIN levels'[t] :
              IF t = s /\ r = p
              THEN levels'[t][r].total_volume =
                     qty + (IF r \in DOMAIN levels[t] THEN levels[t][r].total_volume ELSE 0)
              ELSE r \in DOMAIN levels[t] /\ levels'[t][r] = levels[t][r]
         /\ \A t \in Side : \A r \in DOMAIN levels'[t] : r \in DOMAIN levels[t] => QueueKept(t, r)
<1>0. PICK level, order :
        /\ level = IF p \in DOMAIN levels[s] THEN levels[s][p] ELSE NewLevel
        /\ order = [id |-> id, price |-> p, qty |-> qty, side |-> s,
                    next |-> NULL, prev |-> level.tail]
  OBVIOUS
<1>1. PICK a \in Addr :
        /\ Allocate(a)
        /\ order_map' = [order_map EXCEPT ![id] = a]
        /\ levels' = [levels EXCEPT ![s] = PutLevel(@, p, Appended(level, a, qty))]
        /\ mem' = LinkedAt(a, order)
  BY <1>0 DEF AppendOrder
<1>2. PoolInv /\ PoolInv' /\ a \notin live /\ live' = live \cup {a} /\ a # NULL
  BY <1>1, AllocateInv, PoolAssumption DEF StoreInv, StoreTypeOK, PoolInv, Addr
<1>3. level \in PriceLevel /\ (p \notin DOMAIN levels[s] => OrdersAt(s, p) = {})
  <2>1. CASE p \in DOMAIN levels[s]
    BY <1>0, <2>1 DEF StoreInv, StoreTypeOK
  <2>2. CASE p \notin DOMAIN levels[s]
    BY <1>0, <2>2 DEF NewLevel, PriceLevel, Pointer, StoreInv, QueuesWellFormed, OrdersAt
  <2> QED
    BY <2>1, <2>2
<1>4. PICK n \in Nat : n = level.order_count
  BY <1>0, <1>3 DEF NewLevel, PriceLevel, StoreInv, QueuesWellFormed
<1>5. PICK q \in [1 .. n -> OrdersAt(s, p)] :
        /\ \A b \in OrdersAt(s, p) : \E i \in 1 .. n : q[i] = b
        /\ \A i, j \in 1 .. n : q[i] = q[j] => i = j
        /\ level.tail = IF n = 0 THEN NULL ELSE q[n]
        /\ n # 0 => level.head = q[1]
        /\ \A i \in 1 .. n :
             /\ mem[q[i]].next = IF i = n THEN NULL ELSE q[i + 1]
             /\ mem[q[i]].prev = IF i = 1 THEN NULL ELSE q[i - 1]
  <2>1. CASE p \in DOMAIN levels[s]
    <3>1. level = levels[s][p] /\ n > 0
      BY <1>0, <1>4, <2>1 DEF StoreInv, QueuesWellFormed
    <3>2. n = levels[s][p].order_count
      BY <1>4, <3>1
    <3>3. PICK f \in [1 .. n -> OrdersAt(s, p)] : Threads(f, s, p)
      BY <2>1, <3>2 DEF StoreInv, QueuesWellFormed
    <3>4. /\ \A b \in OrdersAt(s, p) : \E i \in 1 .. n : f[i] = b
          /\ \A i, j \in 1 .. n : f[i] = f[j] => i = j
          /\ levels[s][p].head = f[1] /\ levels[s][p].tail = f[n]
          /\ \A i \in 1 .. n :
               /\ mem[f[i]].next = IF i = n THEN NULL ELSE f[i + 1]
               /\ mem[f[i]].prev = IF i = 1 THEN NULL ELSE f[i - 1]
      BY <3>2, <3>3 DEF Threads
    <3>5. level.tail = (IF n = 0 THEN NULL ELSE f[n]) /\ level.head = f[1]
      BY <3>1, <3>4
    <3> QED
      BY <3>4, <3>5
  <2>2. CASE p \notin DOMAIN levels[s]
    <3>1. n = 0 /\ level.tail = NULL /\ OrdersAt(s, p) = {}
      BY <1>0, <1>3, <1>4, <2>2 DEF NewLevel
    <3>2. [i \in 1 .. 0 |-> NULL] \in [1 .. n -> OrdersAt(s, p)]
      BY <3>1
    <3> QED
      BY <3>1, <3>2
  <2> QED
    BY <2>1, <2>2
<1>6. \A i \in 1 .. n : q[i] \in live /\ q[i] \in OrdersAt(s, p) /\ q[i] # NULL /\ q[i] # a
  BY <1>2, <1>5, LiveOrder DEF OrdersAt
<1>7. level.tail = NULL \/ (n # 0 /\ level.tail \in live)
  BY <1>5, <1>6
<1>8. order \in Order /\ order.prev = level.tail /\ order.next = NULL
  BY <1>0, <1>3, BookAssumption DEF PriceLevel, Order, Qty, QtyField, Pointer
<1>9. mem'[a] = order
  BY <1>1 DEF LinkedAt
<1>10. \A x \in live :
         /\ x \in live' /\ x # a /\ mem[x] \in Order /\ mem'[x] \in Order
         /\ mem'[x].id = mem[x].id /\ mem'[x].qty = mem[x].qty
         /\ mem'[x].side = mem[x].side /\ mem'[x].price = mem[x].price
         /\ mem'[x].next = IF x = level.tail THEN a ELSE mem[x].next
         /\ mem'[x].prev = mem[x].prev
  <2> SUFFICES ASSUME NEW x \in live
               PROVE  /\ x \in live' /\ x # a /\ mem[x] \in Order /\ mem'[x] \in Order
                      /\ mem'[x].id = mem[x].id /\ mem'[x].qty = mem[x].qty
                      /\ mem'[x].side = mem[x].side /\ mem'[x].price = mem[x].price
                      /\ mem'[x].next = IF x = level.tail THEN a ELSE mem[x].next
                      /\ mem'[x].prev = mem[x].prev
    OBVIOUS
  <2>1. x \in Addr /\ x \in live' /\ x # a /\ mem[x] \in Order
    BY <1>2, LiveOrder
  <2>2. mem'[x] = IF x = level.tail THEN [mem[x] EXCEPT !.next = a] ELSE mem[x]
    BY <1>1, <1>8, <2>1 DEF LinkedAt
  <2> QED
    BY <2>1, <2>2 DEF Order, Pointer
<1>11. \A x \in Addr \ live' : mem'[x] = RawOrder
  BY <1>1, <1>2, <1>7, <1>8, PoolAssumption DEF LinkedAt, StoreInv, StoreTypeOK, Addr
<1>12. /\ OrdersAt(s, p)' = OrdersAt(s, p) \cup {a}
       /\ \A t \in Side, r \in Price : <<t, r>> # <<s, p>> => OrdersAt(t, r)' = OrdersAt(t, r)
  <2>1. mem'[a].side = s /\ mem'[a].price = p
    BY <1>0, <1>9
  <2> QED
    BY <1>2, <1>10, <2>1 DEF OrdersAt
<1>13. /\ DOMAIN levels' = Side
       /\ \A t \in Side \ {s} : levels'[t] = levels[t]
       /\ DOMAIN levels'[s] = DOMAIN levels[s] \cup {p}
       /\ \A r \in DOMAIN levels[s] \ {p} : levels'[s][r] = levels[s][r]
       /\ levels'[s][p] = Appended(level, a, qty)
  BY <1>1 DEF PutLevel, StoreInv, StoreTypeOK
<1>14. /\ Appended(level, a, qty) \in PriceLevel
       /\ Appended(level, a, qty).order_count = n + 1
       /\ Appended(level, a, qty).head = IF n = 0 THEN a ELSE q[1]
       /\ Appended(level, a, qty).tail = a
  <2>1. qty \in Int /\ a \in Pointer /\ level \in PriceLevel /\ n = level.order_count
    BY <1>3, <1>4, BookAssumption DEF Qty, Pointer
  <2>2. level.tail = NULL <=> n = 0
    BY <1>5, <1>6
  <2> QED
    BY <1>5, <2>1, <2>2 DEF Appended, PriceLevel
<1>15. StoreTypeOK'
  <2>1. PoolTypeOK'
    BY <1>2 DEF PoolInv
  <2>2. \A x \in Addr : IF x \in live' THEN mem'[x] \in Order ELSE mem'[x] = RawOrder
    BY <1>2, <1>8, <1>9, <1>10, <1>11
  <2>3. mem' \in [Addr -> Order \cup {RawOrder}]
    BY <1>1, <2>2 DEF LinkedAt
  <2>4. \A t \in Side \ {s} : /\ DOMAIN levels'[t] \subseteq Price
                              /\ levels'[t] \in [DOMAIN levels'[t] -> PriceLevel]
    BY <1>13 DEF StoreInv, StoreTypeOK
  <2>5. /\ DOMAIN levels'[s] \subseteq Price
        /\ levels'[s] \in [DOMAIN levels'[s] -> PriceLevel]
    <3>1. levels'[s] = PutLevel(levels[s], p, Appended(level, a, qty))
      BY <1>1 DEF StoreInv, StoreTypeOK
    <3> QED
      BY <1>13, <1>14, <3>1 DEF PutLevel, StoreInv, StoreTypeOK
  <2>6. order_map' \in [OrderIds -> Pointer]
    BY <1>1 DEF StoreInv, StoreTypeOK, Pointer
  <2> QED
    BY <1>13, <2>1, <2>2, <2>3, <2>4, <2>5, <2>6 DEF StoreTypeOK
<1>16. IndexAgrees'
  <2>1. mem'[a].id = id /\ order_map \in [OrderIds -> Pointer]
    BY <1>0, <1>9 DEF StoreInv, StoreTypeOK
  <2>2. \A x \in live : mem'[x].id \in OrderIds /\ mem'[x].id # id /\ order_map[mem'[x].id] = x
    <3> SUFFICES ASSUME NEW x \in live
                 PROVE  mem'[x].id \in OrderIds /\ mem'[x].id # id /\ order_map[mem'[x].id] = x
      OBVIOUS
    <3>1. order_map[mem[x].id] = x /\ x # NULL
      BY LiveOrder DEF StoreInv, IndexAgrees
    <3>2. mem[x].id \in OrderIds /\ mem'[x].id = mem[x].id
      BY <1>10 DEF Order
    <3> QED
      BY <3>1, <3>2
  <2>3. \A i \in OrderIds \ {id} : order_map'[i] = order_map[i]
    BY <1>1, <2>1
  <2>4. order_map'[id] = a
    BY <1>1, <2>1
  <2>5. ASSUME NEW i \in OrderIds, order_map'[i] # NULL
        PROVE  order_map'[i] \in live' /\ mem'[order_map'[i]].id = i
    <3>1. CASE i = id
      BY <1>2, <2>1, <2>4, <3>1
    <3>2. CASE i # id
      BY <1>2, <1>10, <2>3, <2>5, <3>2 DEF StoreInv, IndexAgrees
    <3> QED
      BY <3>1, <3>2
  <2>6. \A x \in live' : order_map'[mem'[x].id] = x
    BY <1>2, <2>1, <2>2, <2>3, <2>4
  <2> QED
    BY <2>5, <2>6 DEF IndexAgrees
<1>17. Uncrossed'
  <2>1. \A b \in DOMAIN levels["buy"], c \in DOMAIN levels["sell"] : b < c /\ b \in Int /\ c \in Int
    BY SideFacts DEF StoreInv, StoreTypeOK, Uncrossed, Side
  <2>2. CASE s = "buy"
    <3>1. \A c \in DOMAIN levels["sell"] : p < c
      BY <2>1, <2>2, SideFacts DEF Opposite, Crosses, StoreInv, StoreTypeOK, Side
    <3> QED
      BY <1>13, <2>1, <2>2, <3>1 DEF Uncrossed, Side
  <2>3. CASE s = "sell"
    <3>1. \A b \in DOMAIN levels["buy"] : b < p
      BY <2>1, <2>3, SideFacts DEF Opposite, Crosses, StoreInv, StoreTypeOK, Side
    <3> QED
      BY <1>13, <2>1, <2>3, <3>1 DEF Uncrossed, Side
  <2> QED
    BY <2>2, <2>3 DEF Side
<1>18. /\ QueuesWellFormed'
       /\ \A t \in Side : \A r \in DOMAIN levels'[t] : r \in DOMAIN levels[t] => QueueKept(t, r)
  <2>1. ASSUME NEW t \in Side, NEW r \in DOMAIN levels'[t], <<t, r>> # <<s, p>>
        PROVE  /\ levels'[t][r].order_count > 0
               /\ \E f \in [1 .. levels'[t][r].order_count -> OrdersAt(t, r)'] : Threads(f, t, r)'
               /\ QueueKept(t, r)
    <3>1. r \in Price /\ r \in DOMAIN levels[t] /\ levels'[t][r] = levels[t][r]
      BY <1>13, <1>15, <2>1 DEF StoreTypeOK
    <3>2. OrdersAt(t, r)' = OrdersAt(t, r) /\ OrdersAt(t, r) \cap OrdersAt(s, p) = {}
      BY <1>12, <2>1, <3>1 DEF OrdersAt
    <3>3. levels[t][r].order_count > 0
      BY <3>1 DEF StoreInv, QueuesWellFormed
    <3>4. PICK f \in [1 .. levels[t][r].order_count -> OrdersAt(t, r)] : Threads(f, t, r)
      BY <3>1 DEF StoreInv, QueuesWellFormed
    <3>5. \A i \in 1 .. levels[t][r].order_count :
            mem'[f[i]].next = mem[f[i]].next /\ mem'[f[i]].prev = mem[f[i]].prev
      <4> SUFFICES ASSUME NEW i \in 1 .. levels[t][r].order_count
                   PROVE  mem'[f[i]].next = mem[f[i]].next /\ mem'[f[i]].prev = mem[f[i]].prev
        OBVIOUS
      <4>1. f[i] \in OrdersAt(t, r) /\ f[i] \in live
        BY <3>4 DEF OrdersAt
      <4>2. f[i] # level.tail
        BY <1>5, <1>6, <3>2, <4>1, LiveOrder
      <4> QED
        BY <1>10, <4>1, <4>2
    <3>6. Threads(f, t, r)'
      BY <3>1, <3>2, <3>4, <3>5, ThreadsStable
    <3>7. f \in [1 .. levels'[t][r].order_count -> OrdersAt(t, r)']
      BY <3>1, <3>2, <3>4
    <3>8. levels'[t][r].order_count > 0
      BY <3>1, <3>3
    <3>9. QueueKept(t, r)
      <4>1. levels[t][r].order_count \in Int
        BY <3>1 DEF StoreInv, StoreTypeOK, PriceLevel
      <4>2. Listed(f, t, r) /\ Listed(f, t, r)'
        BY <3>4, <3>6, <3>7 DEF Listed
      <4> QED
        BY <4>1, <4>2, SameQueueKept
    <3> QED
      BY <3>6, <3>7, <3>8, <3>9
  <2>2. /\ levels'[s][p].order_count = n + 1
        /\ \E f \in [1 .. n + 1 -> OrdersAt(s, p)'] : Threads(f, s, p)'
        /\ p \in DOMAIN levels[s] => QueueKept(s, p)
    <3> DEFINE f == [i \in 1 .. n + 1 |-> IF i = n + 1 THEN a ELSE q[i]]
    <3>1. /\ levels'[s][p].order_count = n + 1 /\ levels'[s][p].tail = a
          /\ levels'[s][p].head = IF n = 0 THEN a ELSE q[1]
      BY <1>13, <1>14
    <3>2. f \in [1 .. n + 1 -> OrdersAt(s, p)']
      BY <1>5, <1>12
    <3>3. f[n + 1] = a /\ \A i \in 1 .. n : f[i] = q[i] /\ i \in 1 .. n + 1 /\ i # n + 1
      OBVIOUS
    <3>4. \A i \in 1 .. n + 1 : i = n + 1 \/ i \in 1 .. n
      OBVIOUS
    <3> HIDE DEF f
    <3>5. \A b \in OrdersAt(s, p)' : \E i \in 1 .. n + 1 : f[i] = b
      <4> SUFFICES ASSUME NEW b \in OrdersAt(s, p)'
                   PROVE  \E i \in 1 .. n + 1 : f[i] = b
        OBVIOUS
      <4>1. CASE b = a
        BY <3>3, <4>1
      <4>2. CASE b # a
        <5>1. PICK i \in 1 .. n : q[i] = b
          BY <1>5, <1>12, <4>2
        <5> QED
          BY <3>3, <5>1
      <4> QED
        BY <4>1, <4>2
    <3>6. \A i, j \in 1 .. n + 1 : f[i] = f[j] => i = j
      <4> SUFFICES ASSUME NEW i \in 1 .. n + 1, NEW j \in 1 .. n + 1, f[i] = f[j]
                   PROVE  i = j
        OBVIOUS
      <4>1. CASE i \in 1 .. n /\ j \in 1 .. n
        BY <1>5, <3>3, <4>1
      <4>2. CASE i \in 1 .. n /\ j = n + 1
        BY <1>6, <3>3, <4>2
      <4>3. CASE i = n + 1 /\ j \in 1 .. n
        BY <1>6, <3>3, <4>3
      <4> QED
        BY <3>4, <4>1, <4>2, <4>3
    <3>7. levels'[s][p].head = f[1] /\ levels'[s][p].tail = f[n + 1]
      BY <3>1, <3>3
    <3>8. ASSUME NEW i \in 1 .. n + 1
          PROVE  /\ mem'[f[i]].next = IF i = n + 1 THEN NULL ELSE f[i + 1]
                 /\ mem'[f[i]].prev = IF i = 1 THEN NULL ELSE f[i - 1]
      <4>1. CASE i = n + 1
        <5>1. mem'[a].next = NULL /\ mem'[a].prev = IF n = 0 THEN NULL ELSE q[n]
          BY <1>5, <1>8, <1>9
        <5>2. i = 1 <=> n = 0
          BY <4>1
        <5>3. n # 0 => f[i - 1] = q[n]
          BY <3>3, <4>1
        <5> QED
          BY <3>3, <4>1, <5>1, <5>2, <5>3
      <4>2. CASE i \in 1 .. n
        <5>1. /\ f[i] = q[i] /\ q[i] \in live
              /\ mem[q[i]].next = IF i = n THEN NULL ELSE q[i + 1]
              /\ mem[q[i]].prev = IF i = 1 THEN NULL ELSE q[i - 1]
          BY <1>5, <1>6, <3>3, <4>2
        <5>2. i = n <=> q[i] = level.tail
          BY <1>5, <4>2
        <5>3. f[i + 1] = (IF i = n THEN a ELSE q[i + 1]) /\ (i # 1 => f[i - 1] = q[i - 1])
          BY <3>3, <4>2
        <5> QED
          BY <1>10, <4>2, <5>1, <5>2, <5>3
      <4> QED
        BY <3>4, <4>1, <4>2
    <3>9. Threads(f, s, p)'
      BY <3>1, <3>5, <3>6, <3>7, <3>8 DEF Threads
    <3>10. KeepsOrder(q, f)
      <4> SUFFICES ASSUME NEW i \in 1 .. n + 1, NEW j \in 1 .. n + 1, NEW m \in 1 .. n,
                          i < j, f[j] = q[m]
                   PROVE  \E l \in 1 .. m - 1 : f[i] = q[l]
        BY <1>5, <3>2 DEF KeepsOrder
      <4>1. j # n + 1
        BY <1>6, <3>3
      <4>2. j \in 1 .. n /\ i \in 1 .. n /\ f[i] = q[i] /\ f[j] = q[j]
        BY <3>3, <4>1
      <4>3. q[j] = q[m]
        BY <4>2
      <4>4. j = m
        BY <1>5, <4>2, <4>3
      <4>5. i \in 1 .. m - 1
        BY <4>2, <4>4
      <4> QED
        BY <4>2, <4>5
    <3>11. ASSUME p \in DOMAIN levels[s]
           PROVE  QueueKept(s, p)
      <4>1. n = levels[s][p].order_count /\ level = levels[s][p] /\ n > 0
        BY <1>0, <1>4, <3>11 DEF StoreInv, QueuesWellFormed
      <4>2. Listed(q, s, p)
        BY <1>5, <4>1 DEF Listed, Threads
      <4>3. Listed(f, s, p)'
        BY <3>1, <3>2, <3>9 DEF Listed
      <4>4. Edited(q, f, levels[s][p].order_count)
        <5>1. f = Pushed(q, n, a)
          BY DEF f, Pushed
        <5> QED
          BY <4>1, <5>1 DEF Edited
      <4> QED
        BY <3>10, <4>2, <4>3, <4>4 DEF QueueKept
    <3> QED
      BY <3>1, <3>2, <3>9, <3>11
  <2>3. ASSUME NEW x \in live'
        PROVE  mem'[x].price \in DOMAIN levels'[mem'[x].side]
    <3>1. CASE x = a
      BY <1>0, <1>9, <1>13, <3>1
    <3>2. CASE x # a
      BY <1>2, <1>10, <1>13, <3>2, LiveOrder
    <3> QED
      BY <3>1, <3>2
  <2>4. \A t \in Side : \A r \in DOMAIN levels'[t] : <<t, r>> # <<s, p>> \/ (t = s /\ r = p)
    OBVIOUS
  <2>5. QueuesWellFormed'
    BY <2>1, <2>2, <2>3 DEF QueuesWellFormed
  <2>6. \A t \in Side : \A r \in DOMAIN levels'[t] : r \in DOMAIN levels[t] => QueueKept(t, r)
    BY <2>1, <2>2, <2>4
  <2> QED
    BY <2>5, <2>6
<1>19. \A x \in live' : mem'[x].qty = 0 => x \in live /\ mem[x].qty = 0
  <2>1. mem'[a].qty # 0
    BY <1>0, <1>9 DEF Qty
  <2> QED
    BY <1>2, <1>10, <2>1
<1>20. \A x \in live : mem'[x].qty = mem[x].qty /\ mem'[x].id = mem[x].id
  BY <1>10
<1>21. /\ a \in live' \ live /\ live' = live \cup {a} /\ mem'[a].qty = qty /\ mem'[a].id = id
       /\ \A t \in Side, r \in Price :
            OrdersAt(t, r)' = IF t = s /\ r = p THEN OrdersAt(t, r) \cup {a} ELSE OrdersAt(t, r)
  <2>1. mem'[a].qty = qty /\ mem'[a].id = id
    BY <1>0, <1>9
  <2> QED
    BY <1>2, <1>12, <2>1
<1>22. \A t \in Side : \A r \in DOMAIN levels'[t] :
         IF t = s /\ r = p
         THEN levels'[t][r].total_volume =
                qty + (IF r \in DOMAIN levels[t] THEN levels[t][r].total_volume ELSE 0)
         ELSE r \in DOMAIN levels[t] /\ levels'[t][r] = levels[t][r]
  <2>1. level.total_volume = IF p \in DOMAIN levels[s] THEN levels[s][p].total_volume ELSE 0
    BY <1>0 DEF NewLevel
  <2>2. level.total_volume \in Int /\ qty \in Int
    BY <1>3, BookAssumption DEF PriceLevel, Qty
  <2>3. Appended(level, a, qty).total_volume = qty + level.total_volume
    BY <2>2 DEF Appended
  <2> SUFFICES ASSUME NEW t \in Side, NEW r \in DOMAIN levels'[t]
               PROVE  IF t = s /\ r = p
                      THEN levels'[t][r].total_volume =
                             qty + (IF r \in DOMAIN levels[t] THEN levels[t][r].total_volume ELSE 0)
                      ELSE r \in DOMAIN levels[t] /\ levels'[t][r] = levels[t][r]
    OBVIOUS
  <2>4. CASE t = s /\ r = p
    BY <1>13, <2>1, <2>3, <2>4
  <2>5. CASE ~(t = s /\ r = p)
    BY <1>13, <2>5
  <2> QED
    BY <2>4, <2>5
<1> QED
  BY <1>2, <1>15, <1>16, <1>17, <1>18, <1>19, <1>20, <1>21, <1>22 DEF PoolInv, StoreInv

\* The order at a, in the level at s and p, gets size v and the level volume w.
Resized(a, s, p, v, w) ==
  /\ mem' = [mem EXCEPT ![a].qty = v]
  /\ levels' = [levels EXCEPT ![s][p].total_volume = w]
  /\ UNCHANGED <<order_map, poolVars>>

(* Changing the size of an order where it is: a fill, an amend in place    *)
(* and a partial reduction do this, with the level's cached volume.        *)
LEMMA ResizeInv ==
  ASSUME StoreInv, Open, NEW a \in live,
         NEW s, NEW p, s = mem[a].side, p = mem[a].price,
         NEW v \in QtyField, NEW w \in Int, Resized(a, s, p, v, w), Open'
  PROVE  /\ StoreInv'
         /\ mem'[a].qty = v
         /\ \A x \in live \ {a} : mem'[x] = mem[x]
         /\ \A t \in Side : DOMAIN levels'[t] = DOMAIN levels[t]
         /\ \A t \in Side : \A r \in DOMAIN levels[t] : levels'[t][r].head = levels[t][r].head
         /\ \A x \in live : mem'[x].id = mem[x].id
         /\ \A t \in Side, r \in Price : OrdersAt(t, r)' = OrdersAt(t, r)
         /\ \A t \in Side : \A r \in DOMAIN levels[t] :
              /\ levels'[t][r].total_volume = IF t = s /\ r = p THEN w
                                              ELSE levels[t][r].total_volume
              /\ QueueKept(t, r)
<1>1. /\ a \in Addr /\ mem[a] \in Order /\ s \in Side /\ p \in Price
      /\ p \in DOMAIN levels[s] /\ levels[s][p] \in PriceLevel
  BY LiveOrder
<1>2. /\ live' = live /\ order_map' = order_map
      /\ PoolTypeOK' /\ SlotConservation' /\ HeapRouting'
  BY DEF Resized, poolVars, StoreInv, StoreTypeOK, PoolTypeOK, SlotConservation, HeapRouting
<1>3. /\ mem'[a] = [mem[a] EXCEPT !.qty = v]
      /\ \A x \in Addr \ {a} : mem'[x] = mem[x]
      /\ mem' \in [Addr -> Order \cup {RawOrder}]
  BY <1>1 DEF Resized, StoreInv, StoreTypeOK, Order
<1>4. \A x \in live :
        /\ mem'[x].id = mem[x].id /\ mem'[x].side = mem[x].side /\ mem'[x].price = mem[x].price
        /\ mem'[x].next = mem[x].next /\ mem'[x].prev = mem[x].prev /\ mem'[x] \in Order
  <2>1. ASSUME NEW x \in live, x # a
        PROVE  mem'[x] = mem[x] /\ mem[x] \in Order
    BY <1>3, <2>1, LiveOrder
  <2>2. /\ mem'[a].id = mem[a].id /\ mem'[a].side = mem[a].side /\ mem'[a].price = mem[a].price
        /\ mem'[a].next = mem[a].next /\ mem'[a].prev = mem[a].prev /\ mem'[a] \in Order
    BY <1>1, <1>3 DEF Order
  <2> QED
    BY <2>1, <2>2
<1>5. \A t \in Side, r \in Price : OrdersAt(t, r)' = OrdersAt(t, r)
  BY <1>2, <1>4 DEF OrdersAt
<1>6. /\ DOMAIN levels' = Side
      /\ \A t \in Side :
           /\ DOMAIN levels'[t] = DOMAIN levels[t]
           /\ levels'[t] \in [DOMAIN levels'[t] -> PriceLevel]
           /\ \A r \in DOMAIN levels[t] :
                /\ levels'[t][r].order_count = levels[t][r].order_count
                /\ levels'[t][r].head = levels[t][r].head
                /\ levels'[t][r].tail = levels[t][r].tail
                /\ levels'[t][r].total_volume = IF t = s /\ r = p THEN w
                                                ELSE levels[t][r].total_volume
  <2>1. /\ DOMAIN levels' = Side
        /\ levels'[s] = [levels[s] EXCEPT ![p].total_volume = w]
        /\ \A t \in Side \ {s} : levels'[t] = levels[t]
    BY <1>1 DEF Resized, StoreInv, StoreTypeOK
  <2>2. [levels[s][p] EXCEPT !.total_volume = w] \in PriceLevel
    BY <1>1 DEF PriceLevel
  <2>3. /\ DOMAIN levels'[s] = DOMAIN levels[s]
        /\ levels'[s][p] = [levels[s][p] EXCEPT !.total_volume = w]
        /\ \A r \in DOMAIN levels[s] \ {p} : levels'[s][r] = levels[s][r]
        /\ levels'[s] \in [DOMAIN levels[s] -> PriceLevel]
    BY <1>1, <2>1, <2>2 DEF StoreInv, StoreTypeOK
  <2>4. /\ levels'[s][p].order_count = levels[s][p].order_count
        /\ levels'[s][p].head = levels[s][p].head
        /\ levels'[s][p].tail = levels[s][p].tail
        /\ levels'[s][p].total_volume = w
    BY <1>1, <2>3 DEF PriceLevel
  <2> SUFFICES ASSUME NEW t \in Side
               PROVE  /\ DOMAIN levels'[t] = DOMAIN levels[t]
                      /\ levels'[t] \in [DOMAIN levels'[t] -> PriceLevel]
                      /\ \A r \in DOMAIN levels[t] :
                           /\ levels'[t][r].order_count = levels[t][r].order_count
                           /\ levels'[t][r].head = levels[t][r].head
                           /\ levels'[t][r].tail = levels[t][r].tail
                           /\ levels'[t][r].total_volume = IF t = s /\ r = p THEN w
                                                           ELSE levels[t][r].total_volume
    BY <2>1
  <2>5. CASE t = s
    BY <2>3, <2>4, <2>5
  <2>6. CASE t # s
    BY <2>1, <2>6 DEF StoreInv, StoreTypeOK
  <2> QED
    BY <2>5, <2>6
<1>7. StoreTypeOK'
  BY <1>2, <1>3, <1>4, <1>6 DEF StoreInv, StoreTypeOK
<1>8. IndexAgrees' /\ Uncrossed'
  <2>1. IndexAgrees'
    BY <1>2, <1>4 DEF StoreInv, IndexAgrees
  <2>2. DOMAIN levels'["buy"] = DOMAIN levels["buy"] /\ DOMAIN levels'["sell"] = DOMAIN levels["sell"]
    BY <1>6 DEF Side
  <2> QED
    BY <2>1, <2>2 DEF StoreInv, Uncrossed
<1>9. QueuesWellFormed' /\ \A t \in Side : \A r \in DOMAIN levels[t] : QueueKept(t, r)
  <2>1. ASSUME NEW t \in Side, NEW r \in DOMAIN levels[t]
        PROVE  /\ levels'[t][r].order_count > 0
               /\ \E f \in [1 .. levels'[t][r].order_count -> OrdersAt(t, r)'] : Threads(f, t, r)'
               /\ QueueKept(t, r)
    <3>1. r \in Price /\ OrdersAt(t, r)' = OrdersAt(t, r)
      BY <1>5 DEF StoreInv, StoreTypeOK
    <3>2. PICK f \in [1 .. levels[t][r].order_count -> OrdersAt(t, r)] : Threads(f, t, r)
      BY DEF StoreInv, QueuesWellFormed
    <3>3. \A i \in 1 .. levels[t][r].order_count : f[i] \in live
      BY <3>2 DEF OrdersAt
    <3>4. \A i \in 1 .. levels[t][r].order_count :
            mem'[f[i]].next = mem[f[i]].next /\ mem'[f[i]].prev = mem[f[i]].prev
      BY <1>4, <3>3
    <3>5. /\ levels'[t][r].order_count = levels[t][r].order_count
          /\ levels'[t][r].head = levels[t][r].head
          /\ levels'[t][r].tail = levels[t][r].tail
      BY <1>6
    <3>6. Threads(f, t, r)'
      BY <3>1, <3>2, <3>4, <3>5, ThreadsStable
    <3>7. levels[t][r].order_count > 0
      BY DEF StoreInv, QueuesWellFormed
    <3>8. f \in [1 .. levels'[t][r].order_count -> OrdersAt(t, r)']
      BY <3>1, <3>2, <3>5
    <3>9. levels'[t][r].order_count > 0
      BY <3>5, <3>7
    <3>10. QueueKept(t, r)
      <4>1. levels[t][r].order_count \in Int
        BY DEF StoreInv, StoreTypeOK, PriceLevel
      <4>2. Listed(f, t, r) /\ Listed(f, t, r)'
        BY <3>2, <3>6, <3>8 DEF Listed
      <4> QED
        BY <4>1, <4>2, SameQueueKept
    <3> QED
      BY <3>6, <3>8, <3>9, <3>10
  <2>2. \A x \in live' : mem'[x].price \in DOMAIN levels'[mem'[x].side]
    BY <1>2, <1>4, <1>6, LiveOrder
  <2> QED
    BY <1>6, <2>1, <2>2 DEF QueuesWellFormed
<1>10. mem'[a].qty = v
  BY <1>1, <1>3 DEF Order
<1>11. \A x \in live \ {a} : mem'[x] = mem[x]
  BY <1>3, LiveOrder
<1>12. \A t \in Side : \A r \in DOMAIN levels[t] :
         levels'[t][r].total_volume = IF t = s /\ r = p THEN w ELSE levels[t][r].total_volume
  BY <1>6
<1> QED
  BY <1>2, <1>4, <1>5, <1>6, <1>7, <1>8, <1>9, <1>10, <1>11, <1>12 DEF StoreInv

-----------------------------------------------------------------------------

(* The first order of a level is live and belongs there: what the matching *)
(* loop dereferences (OrderBook.cpp:21, 48).                               *)
LEMMA HeadOrder ==
  ASSUME StoreInv, Open, NEW s \in Side, NEW p \in DOMAIN levels[s]
  PROVE  /\ p \in Price /\ levels[s][p] \in PriceLevel
         /\ levels[s][p].head \in live
         /\ mem[levels[s][p].head].side = s /\ mem[levels[s][p].head].price = p
<1>1. p \in Price /\ levels[s][p] \in PriceLevel
  BY DEF StoreInv, StoreTypeOK
<1>2. PICK n \in Int : n = levels[s][p].order_count
  BY <1>1 DEF PriceLevel
<1>3. PICK q \in [1 .. n -> OrdersAt(s, p)] : levels[s][p].head = q[1] /\ n > 0
  BY <1>2 DEF StoreInv, QueuesWellFormed, Threads
<1>4. q[1] \in OrdersAt(s, p)
  BY <1>3
<1> QED
  BY <1>1, <1>3, <1>4 DEF OrdersAt

(* A step that leaves the stored book alone leaves it sound.               *)
LEMMA StoreStable ==
  ASSUME StoreInv, Open, UNCHANGED <<mem, levels, order_map, poolVars>>
  PROVE  StoreInv'
<1>1. \A s, p : OrdersAt(s, p)' = OrdersAt(s, p)
  BY DEF OrdersAt, poolVars
<1>2. \A q, s, p : Threads(q, s, p)' <=> Threads(q, s, p)
  BY <1>1 DEF Threads
<1>3. QueuesWellFormed'
  BY <1>1, <1>2 DEF StoreInv, QueuesWellFormed, poolVars
<1>4. StoreTypeOK' /\ SlotConservation' /\ HeapRouting'
  BY DEF StoreInv, StoreTypeOK, PoolTypeOK, SlotConservation, HeapRouting, poolVars
<1>5. IndexAgrees' /\ Uncrossed'
  BY DEF StoreInv, IndexAgrees, Uncrossed, poolVars
<1> QED
  BY <1>3, <1>4, <1>5 DEF StoreInv

(* Nothing moves: a rejected call, or a destroyed book.                    *)
LEMMA StutterInv ==
  ASSUME BookInv, UNCHANGED vars
  PROVE  BookInv'
<1>1. UNCHANGED <<mem, levels, order_map, poolVars>> /\ UNCHANGED <<pc, taker, remaining, hit, trades>>
  BY DEF vars
<1>2. CASE Open
  BY <1>1, <1>2, StoreStable
  DEF BookInv, CallTypeOK, InFlight, HitIsFront, NoLeak, InCall, poolVars
<1>3. CASE ~Open
  BY <1>1, <1>3 DEF BookInv, StoreInv, StoreTypeOK, PoolTypeOK, SlotConservation, HeapRouting,
    IndexAgrees, QueuesWellFormed, Uncrossed, CallTypeOK, InFlight, HitIsFront, NoLeak,
    InCall, Open, poolVars
<1> QED
  BY <1>2, <1>3

(* A constructed book satisfies the invariant (OrderBook.hpp:100-112).     *)
LEMMA InitInv ==
  ASSUME Init
  PROVE  BookInv
<1>1. PoolInv /\ live = {}
  BY PoolInitInv DEF Init, PoolInit
<1>2. \A s \in Side : levels[s] = NoLevels /\ DOMAIN levels[s] = {}
  BY DEF Init, NoLevels
<1>3. StoreTypeOK
  BY <1>1, <1>2 DEF Init, StoreTypeOK, PoolInv, NoLevels, Pointer
<1>4. IndexAgrees /\ QueuesWellFormed /\ Uncrossed
  BY <1>1, <1>2 DEF Init, IndexAgrees, QueuesWellFormed, Uncrossed, Side
<1>5. CallTypeOK
  BY BookAssumption DEF Init, CallTypeOK, InCall, QtyField
<1>6. InFlight /\ NoLeak
  BY <1>1 DEF Init, InFlight, InCall, NoLeak
<1> QED
  BY <1>1, <1>3, <1>4, <1>5, <1>6 DEF BookInv, StoreInv, PoolInv

(* The limit the matching loop runs with is a uint32_t, and is a price an  *)
(* order may rest at when the order is a LIMIT (OrderBook.cpp:96-108).     *)
LEMMA LimitFacts ==
  ASSUME NEW type \in OrderType, NEW side \in Side, NEW price \in PriceField
  PROVE  /\ LimitOf(type, side, price) \in PriceField
         /\ type = "LIMIT" /\ price \notin {NO_BID, NO_ASK} => LimitOf(type, side, price) \in Price
BY BookAssumption DEF LimitOf, PriceField, Price, NO_BID

(* What the locals of a call that has just begun satisfy.                  *)
LEMMA StartInv ==
  ASSUME BookInv, pc = "idle", StoreInv', UNCHANGED <<hit, trades>>,
         NEW id \in OrderIds, NEW price \in PriceField, NEW qty \in QtyField,
         NEW side \in Side, NEW type \in OrderType,
         qty # 0, type # "MARKET" => price \notin {NO_BID, NO_ASK},
         order_map'[id] = NULL,
         StartMatching(id, price, qty, side, type),
         \A a \in live' : mem'[a].qty # 0
  PROVE  BookInv'
<1>1. qty \in Qty /\ qty <= qty
  BY BookAssumption DEF Qty, QtyField
<1>2. CallTypeOK'
  <2>1. taker' \in Taker
    BY <1>1, LimitFacts DEF StartMatching, Taker
  <2> QED
    BY <2>1 DEF BookInv, CallTypeOK, StartMatching, InCall
<1>3. InFlight'
  BY <1>1, LimitFacts DEF StartMatching, InFlight, InCall
<1>4. NoLeak'
  BY DEF StartMatching, NoLeak
<1> QED
  BY <1>2, <1>3, <1>4 DEF BookInv

(* An accepted insert_order starts matching (OrderBook.cpp:93-115).        *)
LEMMA InsertOrderInv ==
  ASSUME BookInv, NEW id \in OrderIds, NEW price \in PriceField, NEW qty \in QtyField,
         NEW side \in Side, NEW type \in OrderType,
         InsertOrder(id, price, qty, side, type)
  PROVE  BookInv'
<1>1. pc = "idle" /\ Open
  BY DEF InsertOrder, Open
<1>2. StoreInv'
  BY <1>1, StoreStable DEF BookInv, InsertOrder
<1>3. \A a \in live' : mem'[a].qty # 0
  BY <1>1 DEF InsertOrder, poolVars, BookInv, InFlight
<1>4. order_map'[id] = NULL /\ qty # 0 /\ (type # "MARKET" => price \notin {NO_BID, NO_ASK})
  BY DEF InsertOrder, Accepted
<1> QED
  BY <1>1, <1>2, <1>3, <1>4, StartInv DEF InsertOrder

\* What one fill of the order at a, of the level at p, does (OrderBook.cpp:19-31).
Filled(opp, p, a, fill) ==
  /\ IsBest(opp, DOMAIN levels[opp], p) /\ Crosses(taker.side, p, taker.limit)
  /\ a = levels[opp][p].head /\ mem[a].side = opp /\ mem[a].price = p
  /\ fill = IF remaining <= mem[a].qty THEN remaining ELSE mem[a].qty
  /\ remaining' = remaining - fill
  /\ mem' = [mem EXCEPT ![a].qty = mem[a].qty - fill]
  /\ levels' = [levels EXCEPT ![opp][p].total_volume = levels[opp][p].total_volume - fill]
  /\ trades' = Append(trades, [taker_id |-> taker.id, maker_id |-> mem[a].id, price |-> p,
                               qty |-> fill, taker_side |-> taker.side])
  /\ hit' = [order |-> a, price |-> p]

(* One fill: the maker is the first of the best level, which crosses, and  *)
(* only its size, its level's volume and the locals change.                *)
LEMMA FillFacts ==
  ASSUME BookInv, Fill
  PROVE  \E p \in Price, a \in live, fill \in Qty : Filled(Opposite(taker.side), p, a, fill)
<1> DEFINE opp == Opposite(taker.side)
<1>1. /\ StoreInv /\ Open /\ taker \in Taker /\ taker.side \in Side /\ opp \in Side
      /\ remaining \in 1 .. MaxQty
  BY SideFacts, BookAssumption DEF BookInv, CallTypeOK, Fill, Matching, Open, InCall, Taker,
     QtyField
<1>2. PICK p \in Price : IsBest(opp, DOMAIN levels[opp], p) /\ FillAt(p)
  BY DEF Fill
<1>3. p \in DOMAIN levels[opp]
  BY <1>2 DEF IsBest
<1>4. PICK a \in live : /\ a = levels[opp][p].head
                        /\ mem[a].side = opp /\ mem[a].price = p
  BY <1>1, <1>3, HeadOrder
<1>5. mem[a] \in Order /\ mem[a].qty \in 1 .. MaxQty
  <2>1. mem[a] \in Order
    BY <1>1, <1>4, LiveOrder
  <2>2. mem[a].qty # 0
    BY <1>1, <1>4 DEF BookInv, InFlight, Fill
  <2> QED
    BY <2>1, <2>2, BookAssumption DEF Order, QtyField
<1>6. PICK fill \in Qty : fill = IF remaining <= mem[a].qty THEN remaining ELSE mem[a].qty
  BY <1>1, <1>5, BookAssumption DEF Qty
<1>7. /\ remaining' = remaining - fill
      /\ mem' = [mem EXCEPT ![a].qty = mem[a].qty - fill]
      /\ levels' = [levels EXCEPT ![opp][p].total_volume = levels[opp][p].total_volume - fill]
      /\ trades' = Append(trades, [taker_id |-> taker.id, maker_id |-> mem[a].id,
                                   price |-> p, qty |-> fill, taker_side |-> taker.side])
      /\ hit' = [order |-> a, price |-> p]
  BY <1>1, <1>2, <1>3, <1>4, <1>5, <1>6 DEF FillAt, StoreInv, StoreTypeOK
<1>8. Crosses(taker.side, p, taker.limit)
  <2>1. PICK r \in DOMAIN levels[opp] : Crosses(taker.side, r, taker.limit)
    BY DEF Fill, Matching
  <2>2. r \in Int /\ p \in Int /\ taker.limit \in Int
    <3>1. r \in Price
      BY <1>1, <2>1 DEF StoreInv, StoreTypeOK
    <3>2. taker.limit \in PriceField
      BY <1>1 DEF Taker
    <3> QED
      BY <3>1, <3>2, BookAssumption DEF Price, PriceField, NO_BID
  <2>3. r = p \/ Better(opp, p, r)
    BY <1>2, <2>1 DEF IsBest
  <2> QED
    BY <1>1, <2>1, <2>2, <2>3 DEF Crosses, Better, Opposite, Side
<1>9. Filled(opp, p, a, fill)
  BY <1>2, <1>4, <1>6, <1>7, <1>8 DEF Filled
<1> QED
  BY <1>9

(* One fill keeps the invariant.                                           *)
LEMMA FillInv ==
  ASSUME BookInv, Fill
  PROVE  BookInv'
<1> DEFINE opp == Opposite(taker.side)
<1>1. /\ StoreInv /\ Open /\ Open' /\ pc = "match" /\ pc' = "settle" /\ InCall
      /\ taker \in Taker /\ taker.side \in Side /\ opp \in Side
      /\ remaining \in 1 .. MaxQty /\ remaining <= taker.qty
      /\ UNCHANGED <<order_map, taker, poolVars>>
  BY SideFacts, BookAssumption DEF BookInv, CallTypeOK, InFlight, Fill, Matching, Open, InCall, Taker, QtyField
<1>2. PICK p \in Price, a \in live, fill \in Qty : Filled(opp, p, a, fill)
  BY FillFacts
<1>3. p \in DOMAIN levels[opp]
  BY <1>2 DEF Filled, IsBest
<1>4. /\ a = levels[opp][p].head /\ mem[a].side = opp /\ mem[a].price = p
  BY <1>2 DEF Filled
<1>5. /\ a \in Addr /\ mem[a] \in Order /\ mem[a].qty \in QtyField /\ mem[a].id \in OrderIds
      /\ levels[opp][p].total_volume \in Int
  <2>1. a \in Addr /\ mem[a] \in Order
    BY <1>1, LiveOrder
  <2>2. levels[opp][p] \in PriceLevel
    BY <1>1, <1>3, HeadOrder
  <2> QED
    BY <2>1, <2>2 DEF PriceLevel, Order
<1>6. fill = IF remaining <= mem[a].qty THEN remaining ELSE mem[a].qty
  BY <1>2 DEF Filled
<1>7. /\ fill \in Int /\ mem[a].qty - fill \in QtyField
      /\ remaining - fill \in QtyField /\ remaining - fill <= taker.qty
  BY <1>1, <1>5, <1>6, BookAssumption DEF Qty, QtyField, Taker
<1>8. /\ remaining' = remaining - fill
      /\ mem' = [mem EXCEPT ![a].qty = mem[a].qty - fill]
      /\ levels' = [levels EXCEPT ![opp][p].total_volume = levels[opp][p].total_volume - fill]
      /\ trades' = Append(trades, [taker_id |-> taker.id, maker_id |-> mem[a].id,
                                   price |-> p, qty |-> fill, taker_side |-> taker.side])
      /\ hit' = [order |-> a, price |-> p]
  BY <1>2 DEF Filled
<1>9. Resized(a, opp, p, mem[a].qty - fill, levels[opp][p].total_volume - fill)
  BY <1>1, <1>8 DEF Resized
<1>10. /\ StoreInv'
       /\ \A x \in live \ {a} : mem'[x] = mem[x]
       /\ DOMAIN levels'[opp] = DOMAIN levels[opp]
       /\ levels'[opp][p].head = a
  <2>1. opp = mem[a].side /\ p = mem[a].price
    BY <1>4
  <2>2. mem[a].qty - fill \in QtyField /\ levels[opp][p].total_volume - fill \in Int
    BY <1>5, <1>7
  <2>3. /\ StoreInv'
        /\ \A x \in live \ {a} : mem'[x] = mem[x]
        /\ \A t \in Side : DOMAIN levels'[t] = DOMAIN levels[t]
        /\ \A t \in Side : \A r \in DOMAIN levels[t] : levels'[t][r].head = levels[t][r].head
    BY <1>1, <1>4, <1>9, <2>1, <2>2, ResizeInv
  <2> QED
    BY <1>1, <1>3, <1>4, <2>3
<1>11. CallTypeOK'
  <2>1. trades \in Seq(Trade)
    BY DEF BookInv, CallTypeOK
  <2>2. [taker_id |-> taker.id, maker_id |-> mem[a].id, price |-> p, qty |-> fill,
         taker_side |-> taker.side] \in Trade
    BY <1>1, <1>5, <1>7 DEF Trade, Taker
  <2>3. trades' \in Seq(Trade)
    BY <1>8, <2>1, <2>2
  <2> QED
    BY <1>1, <1>5, <1>7, <1>8, <2>3 DEF CallTypeOK, InCall
<1>12. Crosses(taker.side, p, taker.limit) /\ IsBest(opp, DOMAIN levels[opp], p)
  BY <1>2 DEF Filled
<1>13. HitIsFront'
  BY <1>1, <1>8, <1>10, <1>12 DEF HitIsFront
<1>14. \A x \in live' : mem'[x].qty = 0 => x = hit'.order
  BY <1>1, <1>8, <1>10 DEF BookInv, InFlight, poolVars
<1>15. InFlight'
  BY <1>1, <1>7, <1>8, <1>13, <1>14 DEF BookInv, InFlight, InCall
<1> QED
  BY <1>1, <1>10, <1>11, <1>15 DEF BookInv, NoLeak

(* Retiring a used-up maker is removing the order the handler was shown.   *)
LEMMA RetireMakerInv ==
  ASSUME BookInv, RetireMaker
  PROVE  BookInv'
<1> DEFINE opp == Opposite(taker.side)
           a == hit.order
           p == hit.price
<1>1. /\ StoreInv /\ Open /\ Open' /\ pc = "settle" /\ pc' = "match" /\ InCall
      /\ taker \in Taker /\ taker.side \in Side /\ opp \in Side
      /\ UNCHANGED <<taker, remaining, trades>> /\ hit' = NULL
  BY SideFacts DEF BookInv, CallTypeOK, RetireMaker, Open, InCall, Taker
<1>2. p \in DOMAIN levels[opp] /\ a = levels[opp][p].head
  BY <1>1 DEF BookInv, InFlight, HitIsFront, IsBest
<1>3. a \in live /\ mem[a].side = opp /\ mem[a].price = p
  BY <1>1, <1>2, HeadOrder
<1>4. RemoveOrder(a)
  BY <1>3 DEF RetireMaker, RemoveOrder
<1>5. /\ StoreInv' /\ live' = live \ {a}
      /\ order_map' = [order_map EXCEPT ![mem[a].id] = NULL]
      /\ \A x \in live' : mem'[x].qty = mem[x].qty
  BY <1>1, <1>3, <1>4, RemoveOrderInv
<1>6. order_map'[taker.id] = NULL
  BY <1>1, <1>5 DEF BookInv, InFlight, Taker, StoreInv, StoreTypeOK
<1>7. \A x \in live' : mem'[x].qty # 0
  BY <1>5 DEF BookInv, InFlight
<1>8. CallTypeOK'
  BY <1>1 DEF BookInv, CallTypeOK, InCall
<1>9. InFlight'
  BY <1>1, <1>6, <1>7 DEF BookInv, InFlight, InCall
<1> QED
  BY <1>1, <1>5, <1>8, <1>9 DEF BookInv, NoLeak

(* The handler returns and the maker is not used up                        *)
(* (OrderBook.cpp:33, 38).                                                 *)
LEMMA KeepMakerInv ==
  ASSUME BookInv, KeepMaker
  PROVE  BookInv'
<1>1. /\ Open /\ pc = "settle" /\ pc' = "match" /\ hit' = NULL /\ mem[hit.order].qty # 0
      /\ UNCHANGED <<mem, levels, order_map, poolVars>> /\ UNCHANGED <<taker, remaining, trades>>
  BY DEF KeepMaker, Open
<1>2. StoreInv'
  BY <1>1, StoreStable DEF BookInv
<1>3. CallTypeOK'
  BY <1>1 DEF BookInv, CallTypeOK, InCall
<1>4. InFlight'
  BY <1>1 DEF BookInv, InFlight, InCall, poolVars
<1> QED
  BY <1>1, <1>2, <1>3, <1>4 DEF BookInv, NoLeak

(* What the return of insert_order leaves of its locals.                   *)
LEMMA ReturnInv ==
  ASSUME BookInv, pc = "match", Return, StoreInv', \A x \in live' : mem'[x].qty # 0
  PROVE  BookInv'
<1>1. CallTypeOK'
  BY BookAssumption DEF BookInv, CallTypeOK, Return, InCall, QtyField
<1>2. InFlight' /\ NoLeak'
  BY DEF InFlight, NoLeak, Return, InCall
<1> QED
  BY <1>1, <1>2 DEF BookInv

(* The remainder rests only when matching is over, so nothing crosses it.  *)
LEMMA RestRemainderInv ==
  ASSUME BookInv, RestRemainder
  PROVE  BookInv'
<1>1. /\ StoreInv /\ Open /\ Open' /\ pc = "match" /\ InCall /\ ~Matching /\ Return
      /\ taker \in Taker /\ taker.type = "LIMIT" /\ taker.limit \in Price
      /\ remaining > 0 /\ remaining \in QtyField /\ order_map[taker.id] = NULL
      /\ AppendOrder(taker.id, taker.side, taker.limit, remaining)
  BY DEF BookInv, CallTypeOK, InFlight, RestRemainder, Return, Open, InCall
<1>2. /\ taker.id \in OrderIds /\ taker.side \in Side /\ remaining \in Qty
  BY <1>1, BookAssumption DEF Taker, Qty, QtyField
<1>3. \A r \in DOMAIN levels[Opposite(taker.side)] : ~Crosses(taker.side, r, taker.limit)
  BY <1>1 DEF Matching
<1>4. StoreInv' /\ \A x \in live' : mem'[x].qty = 0 => x \in live /\ mem[x].qty = 0
  BY <1>1, <1>2, <1>3, AppendInv
<1>5. \A x \in live' : mem'[x].qty # 0
  BY <1>1, <1>4 DEF BookInv, InFlight
<1> QED
  BY <1>1, <1>4, <1>5, ReturnInv

(* The call returns and nothing rests (OrderBook.cpp:118).                 *)
LEMMA DiscardRemainderInv ==
  ASSUME BookInv, DiscardRemainder
  PROVE  BookInv'
<1>1. pc = "match" /\ Open /\ Return /\ UNCHANGED <<mem, levels, order_map, poolVars>>
  BY DEF DiscardRemainder, Open
<1>2. StoreInv'
  BY <1>1, StoreStable DEF BookInv
<1>3. \A x \in live' : mem'[x].qty # 0
  BY <1>1 DEF BookInv, InFlight, poolVars
<1> QED
  BY <1>1, <1>2, <1>3, ReturnInv

(* cancel_order of a resting id (OrderBook.cpp:136-167).                   *)
LEMMA CancelOrderInv ==
  ASSUME BookInv, NEW id \in OrderIds, CancelOrder(id)
  PROVE  BookInv'
<1> DEFINE a == order_map[id]
<1>1. /\ pc = "idle" /\ pc' = "idle" /\ Open /\ Open' /\ RemoveOrder(a)
      /\ UNCHANGED <<taker, remaining, hit, trades>>
  BY DEF CancelOrder, Open
<1>2. a \in live
  BY DEF CancelOrder, BookInv, StoreInv, IndexAgrees
<1>3. /\ StoreInv' /\ live' = live \ {a}
      /\ \A x \in live' : mem'[x].qty = mem[x].qty
  BY <1>1, <1>2, RemoveOrderInv DEF BookInv
<1>4. CallTypeOK'
  BY <1>1 DEF BookInv, CallTypeOK, InCall
<1>5. InFlight'
  BY <1>1, <1>3 DEF BookInv, InFlight, InCall
<1> QED
  BY <1>1, <1>3, <1>4, <1>5 DEF BookInv, NoLeak

(* Amending in place and reducing in part shrink an order where it is.     *)
LEMMA ShrinkInv ==
  ASSUME BookInv, pc = "idle", pc' = "idle", NEW a \in live, NEW p, p = mem[a].price,
         NEW v \in Qty, Shrink(a, p, v),
         UNCHANGED <<order_map, taker, remaining, hit, trades, poolVars>>
  PROVE  BookInv'
<1>1. StoreInv /\ Open /\ Open'
  BY DEF BookInv, Open
<1>2. PICK s \in Side : s = mem[a].side
  BY <1>1, LiveOrder
<1>3. /\ mem[a].qty \in Int /\ v \in Int /\ v \in QtyField /\ v # 0
      /\ p \in DOMAIN levels[s] /\ levels[s][p].total_volume \in Int
  BY <1>1, <1>2, LiveOrder, BookAssumption DEF Order, Qty, QtyField, PriceLevel
<1>4. PICK w \in Int : w = levels[s][p].total_volume - (mem[a].qty - v)
  BY <1>3
<1>5. Resized(a, s, p, v, w)
  BY <1>1, <1>2, <1>3, <1>4 DEF Shrink, Resized, StoreInv, StoreTypeOK
<1>6. /\ StoreInv' /\ live' = live /\ mem'[a].qty = v
      /\ \A x \in live \ {a} : mem'[x] = mem[x]
  BY <1>1, <1>2, <1>3, <1>5, ResizeInv DEF poolVars
<1>7. CallTypeOK'
  BY DEF BookInv, CallTypeOK, InCall
<1>8. InFlight'
  BY <1>3, <1>6 DEF BookInv, InFlight, InCall
<1> QED
  BY <1>6, <1>7, <1>8 DEF BookInv, NoLeak

(* amend_order that keeps its place (OrderBook.cpp:179-192).               *)
LEMMA AmendInPlaceInv ==
  ASSUME BookInv, NEW id \in OrderIds, NEW price \in PriceField, NEW qty \in QtyField,
         AmendInPlace(id, price, qty)
  PROVE  BookInv'
<1>1. order_map[id] \in live /\ price = mem[order_map[id]].price /\ qty \in Qty
  BY BookAssumption DEF AmendInPlace, Amendable, KeepsPriority, BookInv, StoreInv, IndexAgrees,
    Qty, QtyField
<1> QED
  BY <1>1, ShrinkInv DEF AmendInPlace

(* reduce_order that leaves something (OrderBook.cpp:214-224).             *)
LEMMA ReducePartialInv ==
  ASSUME BookInv, NEW id \in OrderIds, NEW qty_delta \in QtyField,
         ReducePartial(id, qty_delta)
  PROVE  BookInv'
<1>1. order_map[id] \in live /\ Open
  BY DEF ReducePartial, BookInv, StoreInv, IndexAgrees, Open
<1>2. mem[order_map[id]].qty - qty_delta \in Qty
  BY <1>1, LiveOrder, BookAssumption DEF ReducePartial, BookInv, Order, Qty, QtyField
<1> QED
  BY <1>1, <1>2, ShrinkInv DEF ReducePartial

(* Amending with loss of priority: the cancelled order's id is free again  *)
(* when the new order starts to match (OrderBook.cpp:197-198).             *)
LEMMA AmendRequeueInv ==
  ASSUME BookInv, NEW id \in OrderIds, NEW price \in PriceField, NEW qty \in QtyField,
         AmendRequeue(id, price, qty)
  PROVE  BookInv'
<1> DEFINE a == order_map[id]
<1>1. /\ pc = "idle" /\ Open /\ RemoveOrder(a) /\ UNCHANGED <<hit, trades>>
      /\ qty # 0 /\ price \notin {NO_BID, NO_ASK}
      /\ StartMatching(id, price, qty, mem[a].side, "LIMIT")
  BY DEF AmendRequeue, Amendable, Open
<1>2. a \in live /\ mem[a].id = id
  BY DEF AmendRequeue, Amendable, BookInv, StoreInv, IndexAgrees
<1>3. Open'
  BY <1>1 DEF StartMatching, Open
<1>4. /\ StoreInv' /\ live' = live \ {a}
      /\ order_map' = [order_map EXCEPT ![id] = NULL]
      /\ \A x \in live' : mem'[x].qty = mem[x].qty
  BY <1>1, <1>2, <1>3, RemoveOrderInv DEF BookInv
<1>5. order_map'[id] = NULL
  BY <1>4 DEF BookInv, StoreInv, StoreTypeOK
<1>6. \A x \in live' : mem'[x].qty # 0
  BY <1>1, <1>4 DEF BookInv, InFlight
<1>7. mem[a].side \in Side /\ "LIMIT" \in OrderType
  BY <1>1, <1>2, LiveOrder DEF BookInv, OrderType
<1> QED
  BY <1>1, <1>4, <1>5, <1>6, <1>7, StartInv

(* The destructor is entered (OrderBook.cpp:4).                            *)
LEMMA DestroyInv ==
  ASSUME BookInv, Destroy
  PROVE  BookInv'
<1>1. /\ pc = "idle" /\ pc' = "teardown" /\ Open
      /\ UNCHANGED <<mem, levels, order_map, poolVars>> /\ UNCHANGED <<taker, remaining, hit, trades>>
  BY DEF Destroy, Open
<1>2. StoreInv'
  BY <1>1, StoreStable DEF BookInv
<1> QED
  BY <1>1, <1>2 DEF BookInv, CallTypeOK, InFlight, NoLeak, InCall, poolVars

(* One order given back by the destructor: the index and the live objects  *)
(* shrink together; the levels still point at what is gone.                *)
LEMMA DestroyOrderInv ==
  ASSUME BookInv, NEW id \in OrderIds, DestroyOrder(id)
  PROVE  BookInv'
<1> DEFINE a == order_map[id]
<1>1. /\ pc = "teardown" /\ a # NULL /\ ~Open' /\ Deallocate(a)
      /\ mem' = [mem EXCEPT ![a] = RawOrder]
      /\ order_map' = [order_map EXCEPT ![id] = NULL]
      /\ UNCHANGED <<levels, pc, taker, remaining, hit, trades>>
  BY DEF DestroyOrder, Open
<1>2. a \in live /\ mem[a].id = id /\ a \in Addr
  BY <1>1 DEF BookInv, StoreInv, IndexAgrees, StoreTypeOK, PoolTypeOK
<1>3. PoolInv' /\ live' = live \ {a}
  BY <1>1, <1>2, DeallocateInv DEF BookInv, StoreInv, StoreTypeOK, PoolInv
<1>4. mem'[a] = RawOrder /\ \A x \in Addr \ {a} : mem'[x] = mem[x]
  BY <1>1, <1>2 DEF BookInv, StoreInv, StoreTypeOK
<1>5. StoreTypeOK'
  <2>1. \A x \in Addr : IF x \in live' THEN mem'[x] \in Order ELSE mem'[x] = RawOrder
    BY <1>3, <1>4 DEF BookInv, StoreInv, StoreTypeOK
  <2>2. mem' \in [Addr -> Order \cup {RawOrder}]
    BY <1>1 DEF BookInv, StoreInv, StoreTypeOK
  <2>3. order_map' \in [OrderIds -> Pointer]
    BY <1>1 DEF BookInv, StoreInv, StoreTypeOK, Pointer
  <2> QED
    BY <1>1, <1>3, <2>1, <2>2, <2>3 DEF BookInv, StoreInv, StoreTypeOK, PoolInv
<1>6. IndexAgrees'
  <2>1. /\ order_map \in [OrderIds -> Pointer]
        /\ \A x \in live : x \in Addr /\ mem[x].id \in OrderIds /\ order_map[mem[x].id] = x
    BY DEF BookInv, StoreInv, StoreTypeOK, PoolTypeOK, IndexAgrees, Order
  <2>2. \A x \in live' : mem'[x] = mem[x] /\ x \in live /\ x # a
    BY <1>3, <1>4, <2>1
  <2>3. \A x \in live' : order_map'[mem'[x].id] = x
    BY <1>1, <1>2, <2>1, <2>2
  <2>4. ASSUME NEW i \in OrderIds, order_map'[i] # NULL
        PROVE  order_map'[i] \in live' /\ mem'[order_map'[i]].id = i
    <3>1. i # id /\ order_map'[i] = order_map[i]
      BY <1>1, <2>1, <2>4
    <3>2. order_map[i] \in live /\ mem[order_map[i]].id = i
      BY <2>4, <3>1 DEF BookInv, StoreInv, IndexAgrees
    <3> QED
      BY <1>2, <1>3, <2>2, <3>1, <3>2
  <2> QED
    BY <2>3, <2>4 DEF IndexAgrees
<1>7. StoreInv'
  BY <1>1, <1>3, <1>5, <1>6 DEF StoreInv, PoolInv, QueuesWellFormed, Uncrossed
<1>8. CallTypeOK' /\ NoLeak'
  BY <1>1 DEF BookInv, CallTypeOK, InCall, NoLeak
<1>9. InFlight'
  <2>1. \A x \in live' : mem'[x] = mem[x] /\ x \in live
    BY <1>3, <1>4 DEF BookInv, StoreInv, StoreTypeOK, PoolTypeOK
  <2> QED
    BY <1>1, <2>1 DEF BookInv, InFlight, InCall
<1> QED
  BY <1>7, <1>8, <1>9 DEF BookInv

(* When the index is empty nothing is live: no order was out of its reach. *)
LEMMA DestroyLevelsInv ==
  ASSUME BookInv, DestroyLevels
  PROVE  BookInv'
<1>1. /\ pc = "teardown" /\ pc' = "destroyed" /\ \A id \in OrderIds : order_map[id] = NULL
      /\ levels' = [s \in Side |-> NoLevels]
      /\ UNCHANGED <<mem, order_map, poolVars>> /\ UNCHANGED <<taker, remaining, hit, trades>>
  BY DEF DestroyLevels
<1>2. live = {} /\ live' = {}
  <2>1. \A x \in live : x # NULL /\ mem[x].id \in OrderIds /\ order_map[mem[x].id] = x
    BY PoolAssumption DEF BookInv, StoreInv, StoreTypeOK, PoolTypeOK, IndexAgrees, Order, Addr
  <2> QED
    BY <1>1, <2>1 DEF poolVars
<1>3. \A s \in Side : levels'[s] = NoLevels /\ DOMAIN levels'[s] = {}
  BY <1>1 DEF NoLevels
<1>4. StoreTypeOK'
  BY <1>1, <1>3 DEF BookInv, StoreInv, StoreTypeOK, PoolTypeOK, NoLevels, poolVars
<1>5. SlotConservation' /\ HeapRouting'
  BY <1>1 DEF BookInv, StoreInv, SlotConservation, HeapRouting, poolVars
<1>6. IndexAgrees' /\ QueuesWellFormed' /\ Uncrossed'
  BY <1>1, <1>2, <1>3 DEF IndexAgrees, QueuesWellFormed, Uncrossed, Side
<1>7. CallTypeOK'
  BY <1>1 DEF BookInv, CallTypeOK, InCall
<1>8. InFlight' /\ NoLeak'
  BY <1>1, <1>2 DEF InFlight, InCall, NoLeak
<1> QED
  BY <1>4, <1>5, <1>6, <1>7, <1>8 DEF BookInv, StoreInv

(* Every step of the engine, of its caller and of the destructor.          *)
LEMMA NextInv ==
  ASSUME BookInv, [Next]_vars
  PROVE  BookInv'
<1>1. CASE EngineStep
  BY <1>1, FillInv, RetireMakerInv, KeepMakerInv, RestRemainderInv, DiscardRemainderInv,
    DestroyOrderInv, DestroyLevelsInv DEF EngineStep
<1>2. CASE CallerStep
  <2>1. ASSUME NEW id \in OrderIds, NEW price \in PriceField, NEW qty \in QtyField,
               NEW side \in Side, NEW type \in OrderType,
               InsertOrder(id, price, qty, side, type) \/ RejectOrder(id, price, qty, side, type)
        PROVE  BookInv'
    BY <2>1, InsertOrderInv, StutterInv DEF RejectOrder
  <2>2. ASSUME NEW id \in OrderIds, NEW price \in PriceField, NEW qty \in QtyField,
               \/ AmendInPlace(id, price, qty) \/ AmendRequeue(id, price, qty)
               \/ IgnoreRequest(id, price, qty)
        PROVE  BookInv'
    BY <2>2, AmendInPlaceInv, AmendRequeueInv, StutterInv DEF IgnoreRequest
  <2>3. ASSUME NEW id \in OrderIds, NEW qty_delta \in QtyField,
               ReducePartial(id, qty_delta) \/ ReduceAll(id, qty_delta)
        PROVE  BookInv'
    BY <2>3, ReducePartialInv, CancelOrderInv DEF ReduceAll
  <2> QED
    BY <1>2, <2>1, <2>2, <2>3, CancelOrderInv, DestroyInv DEF CallerStep
<1>3. CASE Destroyed \/ UNCHANGED vars
  BY <1>3, StutterInv DEF Destroyed
<1> QED
  BY <1>1, <1>2, <1>3 DEF Next

(* The inductive invariant holds in every reachable state.                 *)
THEOREM BookSafety == Spec => []BookInv
<1>1. Init => BookInv
  BY InitInv
<1>2. BookInv /\ [Next]_vars => BookInv'
  BY NextInv
<1> QED
  BY <1>1, <1>2, PTL DEF Spec

(* Type correctness: an Order lives exactly at the live addresses, so the  *)
(* engine never reads a freed or unconstructed one as an order.            *)
THEOREM TypeCorrect == Spec => []TypeOK
<1>1. BookInv => TypeOK
  BY DEF BookInv, StoreInv, TypeOK
<1> QED
  BY <1>1, BookSafety, PTL

(* The book is never crossed (OrderBook.cpp:18, 45, 117).                  *)
THEOREM NeverCrossed == Spec => []Uncrossed
<1>1. BookInv => Uncrossed
  BY DEF BookInv, StoreInv
<1> QED
  BY <1>1, BookSafety, PTL

(* No live order is ever unreachable from the index, and the index never   *)
(* dangles (OrderBook.cpp:98-102, 120, 165).                               *)
THEOREM IndexAlwaysAgrees == Spec => []IndexAgrees
<1>1. BookInv => IndexAgrees
  BY DEF BookInv, StoreInv
<1> QED
  BY <1>1, BookSafety, PTL

(* Every present level is a non-empty, properly linked queue of exactly    *)
(* its orders (OrderBook.hpp:36-60, 97-98).                                *)
THEOREM QueuesAlwaysWellFormed == Spec => []QueuesWellFormed
<1>1. BookInv => QueuesWellFormed
  BY DEF BookInv, StoreInv
<1> QED
  BY <1>1, BookSafety, PTL

(* The handler is always shown the front of the best crossing level, the   *)
(* taker's id is never also resting, and nothing of size zero rests        *)
(* (OrderBook.cpp:19-36, 102).                                             *)
THEOREM CallsStayInFlight == Spec => []InFlight
<1>1. BookInv => InFlight
  BY DEF BookInv
<1> QED
  BY <1>1, BookSafety, PTL

(* As the book uses it, the pool never loses or doubles a slot: the book   *)
(* frees no order twice (OrderBook.cpp:36, 166).                           *)
THEOREM BookConservesSlots == Spec => []SlotConservation
<1>1. BookInv => SlotConservation
  BY DEF BookInv, StoreInv
<1> QED
  BY <1>1, BookSafety, PTL

(* A destroyed book has given back every order (OrderBook.cpp:4-9).        *)
THEOREM NothingLeaks == Spec => []NoLeak
<1>1. BookInv => NoLeak
  BY DEF BookInv
<1> QED
  BY <1>1, BookSafety, PTL

-----------------------------------------------------------------------------
(***************************************************************************)
(* What the matching engine promises: exact caches, price and time         *)
(* priority, fills that add up, and the time in force of every order.      *)
(*                                                                         *)
(* Each is a further inductive invariant beside BookInv:                   *)
(*   VolumesExact      each level's cached volume is the sum of its orders *)
(*   FillsInv          what is known of the makers of the fills so far     *)
(*   FillsAddUp        inductive as it stands, given FillsInv              *)
(*   CallKeepsPromise  what a FOK order wants is there to be had           *)
(* Time priority is about single steps: BookInv and the queues before and  *)
(* after the step, which come from what each change does to them, are      *)
(* enough.                                                                 *)
(***************************************************************************)

(* The steps, by what they do to the store.                                *)

\* The three ways in which a step changes the stored book.
Removes == \E a \in live : RemoveOrder(a)

Appends ==
  \E id \in OrderIds, s \in Side, p \in Price, qty \in Qty :
    /\ order_map[id] = NULL
    /\ \A r \in DOMAIN levels[Opposite(s)] : ~Crosses(s, r, p)
    /\ AppendOrder(id, s, p, qty)

Resizes ==
  \E a \in live, v \in QtyField, w \in Int :
    /\ w = levels[mem[a].side][mem[a].price].total_volume - (mem[a].qty - v)
    /\ Resized(a, mem[a].side, mem[a].price, v, w)

(* A fill and the retirement of a maker change the store in no other way   *)
(* than an amend in place and a cancel do (OrderBook.cpp:26-41).           *)
LEMMA LoopSteps ==
  ASSUME BookInv
  PROVE  /\ Fill => Resizes
         /\ RetireMaker => Removes
         /\ RestRemainder => Appends
<1>1. ASSUME Fill PROVE Resizes
  <2>1. PICK p \in Price, a \in live, fill \in Qty : Filled(Opposite(taker.side), p, a, fill)
    BY <1>1, FillFacts
  <2>2. StoreInv /\ Open /\ remaining \in QtyField /\ UNCHANGED <<order_map, poolVars>>
    BY <1>1 DEF Fill, BookInv, CallTypeOK, Open
  <2>3. /\ mem[a].qty \in QtyField /\ mem[a].side = Opposite(taker.side) /\ mem[a].price = p
        /\ levels[mem[a].side][p] \in PriceLevel /\ fill \in Int /\ mem[a].qty \in Int
    <3>1. mem[a].side = Opposite(taker.side) /\ mem[a].price = p
      BY <2>1 DEF Filled
    <3>2. mem[a] \in Order /\ levels[mem[a].side][p] \in PriceLevel
      BY <2>2, <3>1, LiveOrder
    <3> QED
      BY <3>1, <3>2, BookAssumption DEF Order, Qty, QtyField
  <2>4. PICK total \in Int : total = levels[mem[a].side][p].total_volume
    BY <2>3 DEF PriceLevel
  <2>5. PICK v \in QtyField : v = mem[a].qty - fill
    <3>1. fill <= mem[a].qty
      <4>1. fill = IF remaining <= mem[a].qty THEN remaining ELSE mem[a].qty
        BY <2>1 DEF Filled
      <4> QED
        BY <2>2, <2>3, <4>1, BookAssumption DEF QtyField
    <3>2. fill \in 1 .. MaxQty /\ mem[a].qty \in 0 .. MaxQty
      BY <2>3 DEF QtyField, Qty
    <3> QED
      BY <3>1, <3>2, BookAssumption DEF QtyField
  <2>6. total - fill = total - (mem[a].qty - v) /\ total - fill \in Int
    BY <2>3, <2>4, <2>5
  <2>7. Resized(a, mem[a].side, mem[a].price, v, total - fill)
    <3>1. /\ mem' = [mem EXCEPT ![a].qty = v]
          /\ levels' = [levels EXCEPT ![mem[a].side][p].total_volume = total - fill]
      BY <2>1, <2>3, <2>4, <2>5 DEF Filled
    <3> QED
      BY <2>2, <2>3, <3>1 DEF Resized
  <2> QED
    BY <2>3, <2>4, <2>6, <2>7 DEF Resizes
<1>2. ASSUME RetireMaker PROVE Removes
  <2>1. StoreInv /\ Open /\ Opposite(taker.side) \in Side /\ HitIsFront /\ pc = "settle"
    BY <1>2, SideFacts DEF RetireMaker, BookInv, CallTypeOK, InFlight, Open, InCall, Taker
  <2>2. hit.price \in DOMAIN levels[Opposite(taker.side)]
    BY <2>1 DEF HitIsFront, IsBest
  <2>3. /\ hit.order \in live /\ mem[hit.order].side = Opposite(taker.side)
        /\ mem[hit.order].price = hit.price
    BY <2>1, <2>2, HeadOrder DEF HitIsFront
  <2> QED
    BY <1>2, <2>3 DEF RetireMaker, RemoveOrder, Removes
<1>3. ASSUME RestRemainder PROVE Appends
  <2>1. /\ order_map[taker.id] = NULL /\ taker.id \in OrderIds /\ taker.side \in Side
        /\ taker.limit \in Price /\ remaining \in Qty
        /\ AppendOrder(taker.id, taker.side, taker.limit, remaining)
    BY <1>3, BookAssumption
    DEF RestRemainder, BookInv, CallTypeOK, InFlight, InCall, Taker, Qty, QtyField
  <2>2. \A r \in DOMAIN levels[Opposite(taker.side)] : ~Crosses(taker.side, r, taker.limit)
    BY <1>3 DEF RestRemainder, Matching
  <2> QED
    BY <2>1, <2>2 DEF Appends
<1> QED
  BY <1>1, <1>2, <1>3

(* The calls on a resting order remove it or resize it where it is         *)
(* (OrderBook.cpp:136-225).                                                *)
LEMMA CallSteps ==
  ASSUME BookInv, NEW id \in OrderIds
  PROVE  /\ CancelOrder(id) => Removes
         /\ \A price \in PriceField, qty \in QtyField :
              /\ AmendRequeue(id, price, qty) => Removes
              /\ AmendInPlace(id, price, qty) => Resizes
         /\ \A delta \in QtyField : ReducePartial(id, delta) => Resizes
<1> DEFINE a == order_map[id]
<1>1. a # NULL => a \in live
  BY DEF BookInv, StoreInv, IndexAgrees
<1>2. ASSUME a # NULL, Open, UNCHANGED <<order_map, poolVars>>,
             NEW v \in QtyField, Shrink(a, mem[a].price, v)
      PROVE  Resizes
  <2>1. /\ a \in live /\ mem[a].qty \in Int /\ v \in Int
        /\ levels[mem[a].side][mem[a].price] \in PriceLevel
    BY <1>1, <1>2, LiveOrder, BookAssumption DEF BookInv, Order, QtyField
  <2>2. PICK w \in Int :
          w = levels[mem[a].side][mem[a].price].total_volume - (mem[a].qty - v)
    BY <2>1 DEF PriceLevel
  <2>3. /\ mem[a].side \in DOMAIN levels
        /\ mem[a].price \in DOMAIN levels[mem[a].side]
    BY <1>2, <2>1, LiveOrder DEF BookInv, StoreInv, StoreTypeOK
  <2>4. Resized(a, mem[a].side, mem[a].price, v, w)
    BY <1>2, <2>2, <2>3 DEF Shrink, Resized
  <2> QED
    BY <2>1, <2>2, <2>4 DEF Resizes
<1>3. CancelOrder(id) => Removes
  BY <1>1 DEF CancelOrder, Removes
<1>4. ASSUME NEW price \in PriceField, NEW qty \in QtyField
      PROVE  /\ AmendRequeue(id, price, qty) => Removes
             /\ AmendInPlace(id, price, qty) => Resizes
  <2>1. AmendRequeue(id, price, qty) => Removes
    BY <1>1 DEF AmendRequeue, Amendable, Removes
  <2>2. AmendInPlace(id, price, qty) => Resizes
    BY <1>2 DEF AmendInPlace, Amendable, KeepsPriority, Open
  <2> QED
    BY <2>1, <2>2
<1>5. ASSUME NEW delta \in QtyField, ReducePartial(id, delta)
      PROVE  Resizes
  <2>1. a # NULL /\ Open /\ delta < mem[a].qty /\ delta # 0
    BY <1>5 DEF ReducePartial, Open
  <2>2. mem[a].qty - delta \in QtyField
    BY <1>1, <2>1, LiveOrder, BookAssumption DEF BookInv, Order, QtyField
  <2> QED
    BY <1>2, <1>5, <2>1, <2>2 DEF ReducePartial
<1> QED
  BY <1>3, <1>4, <1>5

(* Every step removes one order, appends one, resizes one, or leaves the   *)
(* store alone; only the destructor does otherwise.                        *)
LEMMA StoreSteps ==
  ASSUME BookInv, [Next]_vars
  PROVE  \/ Open /\ Open' /\ (Removes \/ Appends \/ Resizes)
         \/ Open /\ UNCHANGED <<mem, levels, order_map, poolVars>>
         \/ ~Open /\ (~Open' \/ \A s \in Side : DOMAIN levels'[s] = {})
<1> USE DEF Open
<1>1. CASE EngineStep
  <2>1. CASE Fill \/ RetireMaker \/ RestRemainder
    <3>1. Removes \/ Appends \/ Resizes
      BY <2>1, LoopSteps
    <3> QED
      BY <2>1, <3>1 DEF Fill, RetireMaker, RestRemainder, Return
  <2>2. CASE KeepMaker \/ DiscardRemainder
    BY <2>2 DEF KeepMaker, DiscardRemainder
  <2>3. CASE \E id \in OrderIds : DestroyOrder(id)
    BY <2>3 DEF DestroyOrder
  <2>4. CASE DestroyLevels
    BY <2>4 DEF DestroyLevels, NoLevels
  <2> QED
    BY <1>1, <2>1, <2>2, <2>3, <2>4 DEF EngineStep
<1>2. CASE CallerStep
  <2>1. ASSUME NEW id \in OrderIds, NEW price \in PriceField, NEW qty \in QtyField,
               NEW side \in Side, NEW type \in OrderType,
               InsertOrder(id, price, qty, side, type) \/ RejectOrder(id, price, qty, side, type)
        PROVE  Open /\ UNCHANGED <<mem, levels, order_map, poolVars>>
    BY <2>1 DEF InsertOrder, RejectOrder, vars
  <2>2. ASSUME NEW id \in OrderIds, CancelOrder(id)
        PROVE  Open /\ Open' /\ Removes
    BY <2>2, CallSteps DEF CancelOrder
  <2>3. ASSUME NEW id \in OrderIds, NEW price \in PriceField, NEW qty \in QtyField,
               AmendInPlace(id, price, qty) \/ AmendRequeue(id, price, qty)
        PROVE  Open /\ Open' /\ (Removes \/ Resizes)
    <3>1. Removes \/ Resizes
      BY <2>3, CallSteps
    <3> QED
      BY <2>3, <3>1 DEF AmendInPlace, AmendRequeue, StartMatching
  <2>4. ASSUME NEW id \in OrderIds, NEW price \in PriceField, NEW qty \in QtyField,
               IgnoreRequest(id, price, qty)
        PROVE  Open /\ UNCHANGED <<mem, levels, order_map, poolVars>>
    BY <2>4 DEF IgnoreRequest, vars
  <2>5. ASSUME NEW id \in OrderIds, NEW delta \in QtyField, ReducePartial(id, delta)
        PROVE  Open /\ Open' /\ Resizes
    <3>1. Resizes
      BY <2>5, CallSteps
    <3> QED
      BY <2>5, <3>1 DEF ReducePartial
  <2>6. CASE Destroy
    BY <2>6 DEF Destroy
  <2> QED
    BY <1>2, <2>1, <2>2, <2>3, <2>4, <2>5, <2>6 DEF CallerStep, ReduceAll
<1>3. CASE Destroyed \/ UNCHANGED vars
  BY <1>3 DEF Destroyed, vars
<1> QED
  BY <1>1, <1>2, <1>3 DEF Next

-----------------------------------------------------------------------------
(* The caches.                                                             *)

Sizes == [a \in Addr |-> mem[a].qty]

\* Each level's cached volume is the total size of its orders.
VolumesExact ==
  Open => \A s \in Side : \A p \in DOMAIN levels[s] :
    levels[s][p].total_volume = SumFunctionOnSet(Sizes, OrdersAt(s, p))

(* The orders of a price are finitely many, of integral size, and as many  *)
(* as their level counts (OrderBook.hpp:40, 59).                           *)
LEMMA OrdersCounted ==
  ASSUME StoreInv, NEW s \in Side, NEW p
  PROVE  /\ IsFiniteSet(OrdersAt(s, p)) /\ OrdersAt(s, p) \subseteq Addr
         /\ \A a \in OrdersAt(s, p) :
              Sizes[a] = mem[a].qty /\ mem[a].qty \in QtyField /\ Sizes[a] \in Int
         /\ SumFunctionOnSet(Sizes, OrdersAt(s, p)) \in Int
         /\ Open /\ p \in Price /\ p \notin DOMAIN levels[s] => OrdersAt(s, p) = {}
         /\ Open /\ p \in DOMAIN levels[s] =>
              levels[s][p].order_count = Cardinality(OrdersAt(s, p))
<1> DEFINE S == OrdersAt(s, p)
<1>1. S \subseteq Addr /\ IsFiniteSet(S)
  <2>1. S \subseteq Addr
    BY DEF OrdersAt, StoreInv, StoreTypeOK, PoolTypeOK
  <2>2. IsFiniteSet(Addr)
    BY PoolAssumption, FS_Union DEF Addr
  <2> QED
    BY <2>1, <2>2, FS_Subset
<1>2. \A a \in S : Sizes[a] = mem[a].qty /\ mem[a].qty \in QtyField /\ Sizes[a] \in Int
  BY <1>1, BookAssumption DEF Sizes, OrdersAt, StoreInv, StoreTypeOK, Order, QtyField
<1>3. SumFunctionOnSet(Sizes, S) \in Int
  BY <1>1, <1>2, SumType
<1>4. Open /\ p \in Price /\ p \notin DOMAIN levels[s] => S = {}
  BY DEF StoreInv, QueuesWellFormed, OrdersAt
<1>5. ASSUME Open, p \in DOMAIN levels[s]
      PROVE  levels[s][p].order_count = Cardinality(S)
  <2>1. PICK n \in Int : n = levels[s][p].order_count /\ n > 0
    BY <1>5 DEF StoreInv, StoreTypeOK, QueuesWellFormed, PriceLevel
  <2>2. PICK q \in [1 .. n -> S] :
          /\ \A b \in S : \E i \in 1 .. n : q[i] = b
          /\ \A i, j \in 1 .. n : q[i] = q[j] => i = j
    BY <1>5, <2>1, LevelQueue
  <2>3. q \in Bijection(1 .. n, S)
    BY <2>2 DEF Bijection, Injection, Surjection, IsInjective
  <2>4. IsFiniteSet(1 .. n) /\ Cardinality(1 .. n) = n
    BY <2>1, FS_Interval
  <2>5. ExistsBijection(1 .. n, S)
    BY <2>3 DEF ExistsBijection
  <2> QED
    BY <2>1, <2>4, <2>5, FS_Bijection
<1> QED
  BY <1>1, <1>2, <1>3, <1>4, <1>5

(* The two parts of CachesExact follow from the volumes and from the       *)
(* queues.                                                                 *)
LEMMA VolumesGiveCaches ==
  ASSUME StoreInv, VolumesExact
  PROVE  CachesExact
<1> SUFFICES ASSUME Open, NEW s \in Side, NEW p \in DOMAIN levels[s]
             PROVE  /\ levels[s][p].total_volume =
                         SumFunction([a \in OrdersAt(s, p) |-> mem[a].qty])
                    /\ levels[s][p].order_count = Cardinality(OrdersAt(s, p))
  BY DEF CachesExact
<1> DEFINE f == [a \in OrdersAt(s, p) |-> mem[a].qty]
<1>1. SumFunction(f) = SumFunctionOnSet(Sizes, OrdersAt(s, p))
  <2>1. DOMAIN f = OrdersAt(s, p) /\ \A a \in OrdersAt(s, p) : f[a] = Sizes[a]
    BY OrdersCounted
  <2> HIDE DEF f
  <2> QED
    BY <2>1, OrdersCounted, TotalSame
<1> QED
  BY <1>1, OrdersCounted DEF VolumesExact

(* Taking an order out takes its size out of the sum of its level.         *)
LEMMA RemoveKeepsVolumes ==
  ASSUME StoreInv, Open, Open', VolumesExact, Removes
  PROVE  VolumesExact'
<1>1. PICK a \in live : RemoveOrder(a)
  BY DEF Removes
<1>2. PICK s \in Side, p \in Price : s = mem[a].side /\ p = mem[a].price
  BY LiveOrder
<1>3. /\ StoreInv' /\ live' = live \ {a}
      /\ \A x \in live' : mem'[x].qty = mem[x].qty
      /\ \A t \in Side, r \in Price :
           OrdersAt(t, r)' = IF t = s /\ r = p THEN OrdersAt(t, r) \ {a} ELSE OrdersAt(t, r)
      /\ \A t \in Side : \A r \in DOMAIN levels'[t] :
           /\ r \in DOMAIN levels[t]
           /\ levels'[t][r].total_volume =
                IF t = s /\ r = p THEN levels[t][r].total_volume - mem[a].qty
                ELSE levels[t][r].total_volume
  BY <1>1, <1>2, RemoveOrderInv
<1> SUFFICES ASSUME NEW t \in Side, NEW r \in DOMAIN levels'[t]
             PROVE  levels'[t][r].total_volume = SumFunctionOnSet(Sizes', OrdersAt(t, r)')
  BY DEF VolumesExact
<1>4. /\ r \in Price /\ r \in DOMAIN levels[t]
      /\ levels[t][r].total_volume = SumFunctionOnSet(Sizes, OrdersAt(t, r))
  BY <1>3 DEF VolumesExact, StoreInv, StoreTypeOK
<1>5. \A x \in OrdersAt(t, r)' : Sizes'[x] = Sizes[x] /\ x \in OrdersAt(t, r)
  <2>1. \A x \in OrdersAt(t, r)' : x \in OrdersAt(t, r) /\ x \in live'
    BY <1>3, <1>4 DEF OrdersAt
  <2> QED
    BY <1>3, <2>1, OrdersCounted DEF Sizes
<1>6. SumFunctionOnSet(Sizes', OrdersAt(t, r)') = SumFunctionOnSet(Sizes, OrdersAt(t, r)')
  BY <1>5, OrdersCounted, FS_Subset, SumSame
<1>7. CASE t = s /\ r = p
  <2>1. a \in OrdersAt(t, r) /\ OrdersAt(t, r)' = OrdersAt(t, r) \ {a}
    BY <1>2, <1>3, <1>7 DEF OrdersAt
  <2>2. /\ IsFiniteSet(OrdersAt(t, r)) /\ \A x \in OrdersAt(t, r) : Sizes[x] \in Int
        /\ Sizes[a] = mem[a].qty /\ mem[a].qty \in Int
    BY <2>1, OrdersCounted
  <2>3. SumFunctionOnSet(Sizes, OrdersAt(t, r)) =
          Sizes[a] + SumFunctionOnSet(Sizes, OrdersAt(t, r) \ {a})
    BY <2>1, <2>2, SumRemove
  <2>4. SumFunctionOnSet(Sizes, OrdersAt(t, r) \ {a}) \in Int
    BY <2>2, FS_Subset, SumType
  <2>5. levels'[t][r].total_volume = levels[t][r].total_volume - mem[a].qty
    BY <1>3, <1>7
  <2> QED
    BY <1>4, <1>6, <2>1, <2>2, <2>3, <2>4, <2>5
<1>8. CASE ~(t = s /\ r = p)
  BY <1>3, <1>4, <1>6, <1>8
<1> QED
  BY <1>7, <1>8

(* Appending an order adds its size.                                       *)
LEMMA AppendKeepsVolumes ==
  ASSUME StoreInv, Open, Open', VolumesExact, Appends
  PROVE  VolumesExact'
<1>1. PICK id \in OrderIds, s \in Side, p \in Price, qty \in Qty :
        /\ order_map[id] = NULL
        /\ \A r \in DOMAIN levels[Opposite(s)] : ~Crosses(s, r, p)
        /\ AppendOrder(id, s, p, qty)
  BY DEF Appends
<1>2. /\ StoreInv'
      /\ \A x \in live : mem'[x].qty = mem[x].qty
      /\ \E a \in live' \ live :
           /\ mem'[a].qty = qty
           /\ \A t \in Side, r \in Price :
                OrdersAt(t, r)' = IF t = s /\ r = p THEN OrdersAt(t, r) \cup {a}
                                                   ELSE OrdersAt(t, r)
      /\ \A t \in Side : \A r \in DOMAIN levels'[t] :
           IF t = s /\ r = p
           THEN levels'[t][r].total_volume =
                  qty + (IF r \in DOMAIN levels[t] THEN levels[t][r].total_volume ELSE 0)
           ELSE r \in DOMAIN levels[t] /\ levels'[t][r] = levels[t][r]
  BY <1>1, AppendInv
<1>3. PICK a \in live' \ live :
        /\ mem'[a].qty = qty
        /\ \A t \in Side, r \in Price :
             OrdersAt(t, r)' = IF t = s /\ r = p THEN OrdersAt(t, r) \cup {a}
                                                ELSE OrdersAt(t, r)
  BY <1>2
<1> SUFFICES ASSUME NEW t \in Side, NEW r \in DOMAIN levels'[t]
             PROVE  levels'[t][r].total_volume = SumFunctionOnSet(Sizes', OrdersAt(t, r)')
  BY DEF VolumesExact
<1>4. r \in Price /\ live' \subseteq Addr /\ a \in Addr
  BY <1>2, <1>3 DEF StoreInv, StoreTypeOK, PoolTypeOK
<1>5. \A x \in OrdersAt(t, r) : Sizes'[x] = Sizes[x]
  BY <1>2, OrdersCounted DEF Sizes, OrdersAt
<1>6. SumFunctionOnSet(Sizes', OrdersAt(t, r)) = SumFunctionOnSet(Sizes, OrdersAt(t, r))
  BY <1>5, OrdersCounted, SumSame
<1>7. CASE t = s /\ r = p
  <2>1. OrdersAt(t, r)' = OrdersAt(t, r) \cup {a} /\ a \notin OrdersAt(t, r)
    BY <1>3, <1>4, <1>7 DEF OrdersAt
  <2>2. Sizes'[a] = qty /\ qty \in Int
    BY <1>3, <1>4, BookAssumption DEF Sizes, Qty
  <2>3. \A x \in OrdersAt(t, r) : Sizes'[x] \in Int
    BY <1>5, OrdersCounted
  <2>4. SumFunctionOnSet(Sizes', OrdersAt(t, r)') =
          qty + SumFunctionOnSet(Sizes, OrdersAt(t, r))
    <3>1. IsFiniteSet(OrdersAt(t, r)) /\ Sizes'[a] \in Int
      BY <2>2, OrdersCounted
    <3>2. SumFunctionOnSet(Sizes', OrdersAt(t, r) \cup {a}) =
            Sizes'[a] + SumFunctionOnSet(Sizes', OrdersAt(t, r))
      BY <2>1, <2>3, <3>1, SumAdd
    <3> QED
      BY <1>6, <2>1, <2>2, <3>2
  <2>5. SumFunctionOnSet(Sizes, OrdersAt(t, r)) =
          IF r \in DOMAIN levels[t] THEN levels[t][r].total_volume ELSE 0
    <3>1. CASE r \in DOMAIN levels[t]
      BY <3>1 DEF VolumesExact
    <3>2. CASE r \notin DOMAIN levels[t]
      <4>1. OrdersAt(t, r) = {}
        BY <1>4, <3>2, OrdersCounted
      <4>2. SumFunctionOnSet(Sizes, {}) = 0
        BY SumEmpty
      <4> QED
        BY <3>2, <4>1, <4>2
    <3> QED
      BY <3>1, <3>2
  <2> QED
    BY <1>2, <1>7, <2>4, <2>5
<1>8. CASE ~(t = s /\ r = p)
  <2>1. r \in DOMAIN levels[t] /\ levels'[t][r] = levels[t][r] /\ OrdersAt(t, r)' = OrdersAt(t, r)
    BY <1>2, <1>3, <1>4, <1>8
  <2> QED
    BY <1>6, <2>1 DEF VolumesExact
<1> QED
  BY <1>7, <1>8

(* A change of size is made to the order and to the cache alike            *)
(* (OrderBook.cpp:24-26, 182-190, 221-223).                                *)
LEMMA ResizeKeepsVolumes ==
  ASSUME StoreInv, Open, Open', VolumesExact, Resizes
  PROVE  VolumesExact'
<1>1. PICK a \in live, v \in QtyField, w \in Int :
        /\ w = levels[mem[a].side][mem[a].price].total_volume - (mem[a].qty - v)
        /\ Resized(a, mem[a].side, mem[a].price, v, w)
  BY DEF Resizes
<1>2. PICK s \in Side, p \in Price : s = mem[a].side /\ p = mem[a].price
  BY LiveOrder
<1>3. /\ StoreInv' /\ mem'[a].qty = v
      /\ \A x \in live \ {a} : mem'[x] = mem[x]
      /\ \A t \in Side : DOMAIN levels'[t] = DOMAIN levels[t]
      /\ \A t \in Side, r \in Price : OrdersAt(t, r)' = OrdersAt(t, r)
      /\ \A t \in Side : \A r \in DOMAIN levels[t] :
           levels'[t][r].total_volume =
             IF t = s /\ r = p THEN w ELSE levels[t][r].total_volume
  BY <1>1, <1>2, ResizeInv
<1> SUFFICES ASSUME NEW t \in Side, NEW r \in DOMAIN levels[t]
             PROVE  levels'[t][r].total_volume = SumFunctionOnSet(Sizes', OrdersAt(t, r)')
  BY <1>3 DEF VolumesExact
<1>4. /\ r \in Price /\ OrdersAt(t, r)' = OrdersAt(t, r)
      /\ levels[t][r].total_volume = SumFunctionOnSet(Sizes, OrdersAt(t, r))
  BY <1>3 DEF VolumesExact, StoreInv, StoreTypeOK
<1>5. \A x \in OrdersAt(t, r) \ {a} : Sizes'[x] = Sizes[x]
  BY <1>3, OrdersCounted DEF Sizes, OrdersAt
<1>6. CASE t = s /\ r = p
  <2>1. a \in OrdersAt(t, r) /\ a \in Addr
    BY <1>2, <1>6, LiveOrder
  <2>2. Sizes'[a] = v /\ v \in Int
    BY <1>3, <2>1, BookAssumption DEF Sizes, QtyField
  <2>3. /\ IsFiniteSet(OrdersAt(t, r)) /\ \A x \in OrdersAt(t, r) : Sizes[x] \in Int
        /\ Sizes[a] = mem[a].qty /\ mem[a].qty \in Int
        /\ SumFunctionOnSet(Sizes, OrdersAt(t, r)) \in Int
    BY <2>1, OrdersCounted
  <2>4. SumFunctionOnSet(Sizes', OrdersAt(t, r)) =
          SumFunctionOnSet(Sizes, OrdersAt(t, r)) + Sizes'[a] - Sizes[a]
    <3>1. PICK S, f, g : S = OrdersAt(t, r) /\ f = Sizes /\ g = Sizes'
      OBVIOUS
    <3>2. /\ IsFiniteSet(S) /\ a \in S /\ g[a] \in Int
          /\ \A y \in S : f[y] \in Int
          /\ \A y \in S \ {a} : g[y] = f[y]
      BY <1>5, <2>1, <2>2, <2>3, <3>1
    <3>3. SumFunctionOnSet(g, S) = SumFunctionOnSet(f, S) + g[a] - f[a]
      BY <3>2, SumChange, Z3
    <3> QED
      BY <3>1, <3>3
  <2>5. w = levels[t][r].total_volume - (mem[a].qty - v) /\ levels'[t][r].total_volume = w
    BY <1>1, <1>2, <1>3, <1>6
  <2> QED
    BY <1>4, <2>2, <2>3, <2>4, <2>5
<1>7. CASE ~(t = s /\ r = p)
  <2>1. \A x \in OrdersAt(t, r) : Sizes'[x] = Sizes[x]
    BY <1>2, <1>5, <1>7 DEF OrdersAt
  <2>2. SumFunctionOnSet(Sizes', OrdersAt(t, r)) = SumFunctionOnSet(Sizes, OrdersAt(t, r))
    BY <2>1, OrdersCounted, SumSame
  <2> QED
    BY <1>3, <1>4, <1>7, <2>2
<1> QED
  BY <1>6, <1>7

(* Every step keeps the volumes exact.                                     *)
LEMMA VolumesInv ==
  ASSUME BookInv, VolumesExact, [Next]_vars
  PROVE  VolumesExact'
<1>1. CASE Open /\ Open' /\ (Removes \/ Appends \/ Resizes)
  BY <1>1, RemoveKeepsVolumes, AppendKeepsVolumes, ResizeKeepsVolumes DEF BookInv
<1>2. CASE Open /\ UNCHANGED <<mem, levels, order_map, poolVars>>
  <2>1. \A s, p : OrdersAt(s, p)' = OrdersAt(s, p)
    BY <1>2 DEF OrdersAt, poolVars
  <2> QED
    BY <1>2, <2>1 DEF VolumesExact, Sizes
<1>3. CASE ~Open /\ (~Open' \/ \A s \in Side : DOMAIN levels'[s] = {})
  BY <1>3 DEF VolumesExact
<1> QED
  BY <1>1, <1>2, <1>3, StoreSteps

(* What is cached of a level is what its orders add up to, in every        *)
(* reachable state, also when a trade handler runs.                        *)
THEOREM CachesAlwaysExact == Spec => []CachesExact
<1>1. Init => VolumesExact
  BY DEF Init, VolumesExact, NoLevels
<1>2. BookInv /\ VolumesExact /\ [Next]_vars => VolumesExact'
  BY VolumesInv
<1>3. BookInv /\ VolumesExact => CachesExact
  BY VolumesGiveCaches DEF BookInv
<1> QED
  BY <1>1, <1>2, <1>3, BookSafety, PTL DEF Spec

-----------------------------------------------------------------------------
(* Price priority.                                                         *)

(* PricePriority speaks of the fills reported so far.  A step keeps it     *)
(* because of what the loop has done to the makers: all of them are gone   *)
(* whenever there is something left to match, except the one that the      *)
(* handler is being shown.                                                 *)

\* The maker of a fill no longer rests.
Gone(i) == order_map[trades[i].maker_id] = NULL

\* What the loop knows of the makers it has traded against.
MakersSettled ==
  /\ ~InCall => trades = <<>>
  /\ pc = "match" /\ remaining > 0 => \A i \in DOMAIN trades : Gone(i)
  /\ pc = "settle" =>
       /\ trades # <<>>
       /\ trades[Len(trades)].maker_id = mem[hit.order].id
       /\ mem[hit.order].qty # 0 => remaining = 0

FillsInv == PricePriority /\ MakersSettled

(* Without fills there is nothing to say.                                  *)
LEMMA NoFills ==
  ASSUME trades = <<>>, pc # "settle"
  PROVE  FillsInv
BY DEF FillsInv, PricePriority, MakersSettled

(* A fill at the best price keeps what was said of those before it: they   *)
(* were at no worse a price, and their makers are gone                     *)
(* (OrderBook.cpp:18-31).                                                  *)
LEMMA FillKeepsPriority ==
  ASSUME BookInv, FillsInv, Fill
  PROVE  FillsInv'
<1> DEFINE opp == Opposite(taker.side)
           n == Len(trades)
<1>1. PICK p \in Price, a \in live, fill \in Qty : Filled(opp, p, a, fill)
  BY FillFacts
<1>2. /\ pc = "match" /\ pc' = "settle" /\ InCall /\ InCall' /\ taker' = taker
      /\ order_map' = order_map /\ StoreInv /\ Open
      /\ taker.side \in Side /\ opp \in Side /\ remaining \in QtyField /\ remaining > 0
  BY SideFacts DEF Fill, Matching, InCall, Open, BookInv, CallTypeOK, Taker
<1>3. /\ IsBest(opp, DOMAIN levels[opp], p) /\ Crosses(taker.side, p, taker.limit)
      /\ fill = IF remaining <= mem[a].qty THEN remaining ELSE mem[a].qty
      /\ remaining' = remaining - fill
      /\ mem' = [mem EXCEPT ![a].qty = mem[a].qty - fill]
      /\ levels' = [levels EXCEPT ![opp][p].total_volume = levels[opp][p].total_volume - fill]
      /\ hit' = [order |-> a, price |-> p]
  BY <1>1 DEF Filled
<1>4. PICK t : t = [taker_id |-> taker.id, maker_id |-> mem[a].id, price |-> p,
                    qty |-> fill, taker_side |-> taker.side]
  OBVIOUS
<1>5. trades' = Append(trades, t) /\ trades \in Seq(Trade) /\ t.maker_id = mem[a].id /\ t.price = p
  BY <1>1, <1>4 DEF Filled, BookInv, CallTypeOK
<1>6. t \in Trade /\ mem[a] \in Order /\ a \in Addr /\ p \in DOMAIN levels[opp]
  <2>1. mem[a] \in Order /\ a \in Addr
    BY <1>2, LiveOrder
  <2>2. taker \in Taker
    BY <1>2 DEF BookInv, CallTypeOK
  <2> QED
    BY <1>2, <1>3, <1>4, <2>1, <2>2 DEF Trade, Order, Taker, IsBest
<1>7. /\ n \in Nat /\ DOMAIN trades = 1 .. n /\ DOMAIN trades' = 1 .. n + 1
      /\ Len(trades') = n + 1 /\ trades'[n + 1] = t
      /\ \A i \in 1 .. n : trades'[i] = trades[i]
  BY <1>5, <1>6
<1>8. DOMAIN levels'[opp] = DOMAIN levels[opp]
  BY <1>2, <1>3, <1>6 DEF StoreInv, StoreTypeOK
<1>9. \A r \in DOMAIN levels[opp] : ~Better(opp, r, p)
  <2>1. \A r \in DOMAIN levels[opp] : r \in Int
    BY <1>2, SideFacts DEF StoreInv, StoreTypeOK
  <2> QED
    BY <1>3, <2>1, SideFacts DEF IsBest, Better
<1>10. PricePriority'
  <2> SUFFICES ASSUME NEW i \in 1 .. n + 1
               PROVE  /\ Crosses(taker.side, trades'[i].price, taker.limit)
                      /\ \A j \in 1 .. i - 1 :
                           /\ ~Better(opp, trades'[i].price, trades'[j].price)
                           /\ order_map[trades'[j].maker_id] = NULL
                      /\ \A r \in DOMAIN levels[opp] : ~Better(opp, r, trades'[i].price)
    BY <1>2, <1>7, <1>8 DEF PricePriority
  <2>1. CASE i \in 1 .. n
    <3>1. \A j \in 1 .. i - 1 : j \in 1 .. n
      BY <1>7, <2>1
    <3> QED
      BY <1>2, <1>7, <2>1, <3>1 DEF FillsInv, PricePriority
  <2>2. CASE i = n + 1
    <3>1. \A j \in 1 .. i - 1 : j \in 1 .. n
      BY <1>7, <2>2
    <3>2. \A j \in 1 .. n : Gone(j) /\ ~Better(opp, p, trades[j].price)
      BY <1>2, <1>6, <1>7 DEF FillsInv, PricePriority, MakersSettled
    <3> QED
      BY <1>3, <1>5, <1>7, <1>9, <2>2, <3>1, <3>2 DEF Gone
  <2> QED
    BY <1>7, <2>1, <2>2
<1>11. MakersSettled'
  <2>1. mem'[a].id = mem[a].id /\ mem'[a].qty = mem[a].qty - fill
    BY <1>3, <1>6 DEF BookInv, StoreInv, StoreTypeOK, Order
  <2>2. mem'[a].qty # 0 => remaining' = 0
    BY <1>2, <1>3, <1>6, <2>1, BookAssumption DEF Order, QtyField, Qty
  <2>3. trades' # <<>>
    BY <1>7
  <2> QED
    BY <1>2, <1>3, <1>5, <1>7, <2>1, <2>2, <2>3 DEF MakersSettled
<1> QED
  BY <1>10, <1>11 DEF FillsInv

(* When a used-up maker is retired, the makers of all fills are gone       *)
(* (OrderBook.cpp:33-41).                                                  *)
LEMMA RetireKeepsPriority ==
  ASSUME BookInv, FillsInv, RetireMaker
  PROVE  FillsInv'
<1> DEFINE opp == Opposite(taker.side)
           a == hit.order
           n == Len(trades)
<1>1. /\ pc = "settle" /\ pc' = "match" /\ InCall /\ InCall'
      /\ UNCHANGED <<taker, remaining, trades>>
      /\ order_map' = [order_map EXCEPT ![mem[a].id] = NULL]
      /\ levels' = [levels EXCEPT ![opp] =
                      PutOrErase(@, hit.price, Removed(@[hit.price], a))]
      /\ StoreInv /\ Open /\ opp \in Side /\ DOMAIN levels = Side
      /\ trades \in Seq(Trade) /\ n \in Nat /\ DOMAIN trades = 1 .. n
  BY SideFacts DEF RetireMaker, InCall, Open, BookInv, CallTypeOK, Taker, StoreInv, StoreTypeOK
<1>2. /\ hit.price \in DOMAIN levels[opp]
      /\ trades # <<>> /\ trades[n].maker_id = mem[a].id
  BY <1>1 DEF BookInv, InFlight, HitIsFront, IsBest, FillsInv, MakersSettled
<1>3. DOMAIN levels'[opp] \subseteq DOMAIN levels[opp]
  <2>1. levels'[opp] =
          PutOrErase(levels[opp], hit.price, Removed(levels[opp][hit.price], a))
    BY <1>1
  <2> QED
    BY <1>2, <2>1 DEF PutOrErase, PutLevel
<1>4. \A i \in 1 .. n : trades[i].maker_id \in OrderIds
  <2>1. \A i \in 1 .. n : trades[i] \in Trade
    BY <1>1
  <2> QED
    BY <2>1 DEF Trade
<1>5. \A i \in 1 .. n : order_map'[trades[i].maker_id] = NULL
  <2>1. order_map \in [OrderIds -> Pointer]
    BY <1>1 DEF StoreInv, StoreTypeOK
  <2>2. \A i \in 1 .. n - 1 : order_map[trades[i].maker_id] = NULL
    <3>1. n \in DOMAIN trades
      BY <1>1, <1>2
    <3> QED
      BY <1>1, <3>1 DEF FillsInv, PricePriority
  <2> QED
    BY <1>1, <1>2, <1>4, <2>1, <2>2
<1>6. PricePriority'
  BY <1>1, <1>3, <1>5 DEF FillsInv, PricePriority
<1>7. MakersSettled'
  BY <1>1, <1>5 DEF MakersSettled, Gone
<1> QED
  BY <1>6, <1>7 DEF FillsInv

(* A maker that is not used up has used up the taker (OrderBook.cpp:33).   *)
LEMMA KeepKeepsPriority ==
  ASSUME BookInv, FillsInv, KeepMaker
  PROVE  FillsInv'
<1>1. /\ pc = "settle" /\ pc' = "match" /\ InCall /\ InCall' /\ mem[hit.order].qty # 0
      /\ UNCHANGED <<levels, order_map, taker, remaining, trades>>
  BY DEF KeepMaker, InCall
<1>2. remaining = 0
  BY <1>1 DEF FillsInv, MakersSettled
<1>3. PricePriority'
  BY <1>1 DEF FillsInv, PricePriority
<1> QED
  BY <1>1, <1>2, <1>3 DEF FillsInv, MakersSettled

(* Every step that reports no fill begins or ends a call, or is outside of *)
(* one.                                                                    *)
LEMMA OtherKeepsPriority ==
  ASSUME FillsInv, [Next]_vars, ~Fill, ~RetireMaker, ~KeepMaker
  PROVE  FillsInv'
<1>1. CASE UNCHANGED vars
  BY <1>1 DEF vars, FillsInv, PricePriority, MakersSettled, InCall, Gone
<1>2. CASE RestRemainder \/ DiscardRemainder
  <2>1. (trades = <<>> /\ pc # "settle")'
    BY <1>2 DEF RestRemainder, DiscardRemainder, Return
  <2> QED
    BY <2>1 DEF FillsInv, PricePriority, MakersSettled
<1>3. CASE /\ pc \notin {"match", "settle"} /\ pc' # "settle" /\ trades' = trades
  <2>1. (trades = <<>> /\ pc # "settle")'
    BY <1>3 DEF FillsInv, MakersSettled, InCall
  <2> QED
    BY <2>1 DEF FillsInv, PricePriority, MakersSettled
<1>4. \/ UNCHANGED vars
      \/ RestRemainder \/ DiscardRemainder
      \/ pc \notin {"match", "settle"} /\ pc' # "settle" /\ trades' = trades
  <2>1. CASE EngineStep
    BY <2>1 DEF EngineStep, DestroyOrder, DestroyLevels
  <2>2. CASE CallerStep
    BY <2>2 DEF CallerStep, InsertOrder, RejectOrder, StartMatching, CancelOrder, AmendInPlace,
       AmendRequeue, IgnoreRequest, ReducePartial, ReduceAll, Destroy
  <2> QED
    BY <2>1, <2>2 DEF Next, Destroyed
<1> QED
  BY <1>1, <1>2, <1>3, <1>4

(* The fills of every call are reported best price first, and none leaves  *)
(* a better price or a maker with anything left behind it                  *)
(* (OrderBook.cpp:18-41).                                                  *)
THEOREM BestPriceFirst == Spec => []PricePriority
<1>1. Init => FillsInv
  BY NoFills DEF Init
<1>2. BookInv /\ FillsInv /\ [Next]_vars => FillsInv'
  BY FillKeepsPriority, RetireKeepsPriority, KeepKeepsPriority, OtherKeepsPriority
<1>3. FillsInv => PricePriority
  BY DEF FillsInv
<1> QED
  BY <1>1, <1>2, <1>3, BookSafety, PTL DEF Spec

-----------------------------------------------------------------------------
(* The sum of the fills.                                                   *)

(* A fill moves its size from the remainder to the trades, and its maker,  *)
(* which rests, is neither the taker nor one of the makers that are gone   *)
(* (OrderBook.cpp:22-31).                                                  *)
LEMMA FillAdds ==
  ASSUME BookInv, FillsInv, FillsAddUp, Fill
  PROVE  FillsAddUp'
<1> DEFINE n == Len(trades)
           f == [i \in DOMAIN trades |-> trades[i].qty]
           g == [i \in DOMAIN trades' |-> trades'[i].qty]
<1>1. PICK p \in Price, a \in live, fill \in Qty : Filled(Opposite(taker.side), p, a, fill)
  BY FillFacts
<1>2. /\ pc = "match" /\ InCall /\ InCall' /\ taker' = taker /\ StoreInv /\ Open
      /\ taker \in Taker /\ remaining \in QtyField /\ remaining > 0
  BY DEF Fill, Matching, InCall, Open, BookInv, CallTypeOK
<1>3. PICK t : t = [taker_id |-> taker.id, maker_id |-> mem[a].id, price |-> p,
                    qty |-> fill, taker_side |-> taker.side]
  OBVIOUS
<1>4. /\ trades' = Append(trades, t) /\ trades \in Seq(Trade)
      /\ remaining' = remaining - fill /\ t.maker_id = mem[a].id /\ t.qty = fill
  BY <1>1, <1>3 DEF Filled, BookInv, CallTypeOK
<1>5. t \in Trade /\ mem[a].id \in OrderIds /\ order_map[mem[a].id] = a /\ a # NULL
  <2>1. mem[a].id \in OrderIds /\ a # NULL
    BY <1>2, LiveOrder DEF Order
  <2> QED
    BY <1>2, <1>3, <2>1 DEF Trade, Taker, StoreInv, IndexAgrees
<1>6. /\ n \in Nat /\ DOMAIN trades = 1 .. n /\ DOMAIN trades' = 1 .. n + 1
      /\ trades'[n + 1] = t /\ \A i \in 1 .. n : trades'[i] = trades[i] /\ trades[i] \in Trade
  BY <1>4, <1>5
<1>7. \A i \in 1 .. n : /\ f[i] = trades[i].qty /\ f[i] \in Int /\ g[i] = f[i]
                        /\ trades[i].maker_id # mem[a].id
  <2>1. \A i \in 1 .. n : trades[i].qty \in Int /\ Gone(i)
    BY <1>2, <1>6, BookAssumption DEF Trade, Qty, FillsInv, MakersSettled
  <2> QED
    BY <1>5, <1>6, <2>1 DEF Gone
<1>8. remaining' + SumFunction(g) = taker.qty
  <2>1. remaining + SumFunction(f) = taker.qty
    BY <1>2 DEF FillsAddUp
  <2>2. IsFiniteSet(1 .. n) /\ n + 1 \notin 1 .. n /\ 1 .. n + 1 = (1 .. n) \cup {n + 1}
    <3>1. IsFiniteSet(1 .. n)
      BY <1>6, FS_Interval
    <3>2. n + 1 \notin 1 .. n /\ 1 .. n + 1 = (1 .. n) \cup {n + 1}
      BY <1>6
    <3> QED
      BY <3>1, <3>2
  <2>3. g[n + 1] = fill /\ fill \in Int
    BY <1>4, <1>6, BookAssumption DEF Qty
  <2>4. DOMAIN g = 1 .. n + 1 /\ DOMAIN f = 1 .. n
    BY <1>6
  <2>5. \A i \in 1 .. n : g[i] \in Int /\ g[i] = f[i] /\ f[i] \in Int
    BY <1>7
  <2> HIDE DEF f, g
  <2>6. SumFunctionOnSet(g, (1 .. n) \cup {n + 1}) = g[n + 1] + SumFunctionOnSet(g, 1 .. n)
    BY <2>2, <2>3, <2>5, SumAdd
  <2>7. SumFunctionOnSet(g, 1 .. n) = SumFunctionOnSet(f, 1 .. n)
    BY <2>2, <2>5, SumSame
  <2>8. SumFunctionOnSet(f, 1 .. n) \in Int
    BY <2>2, <2>5, SumType
  <2>9. SumFunction(g) = fill + SumFunction(f) /\ SumFunction(f) \in Int
    BY <2>2, <2>3, <2>4, <2>6, <2>7, <2>8 DEF SumFunction
  <2>10. remaining \in Int
    BY <1>2, BookAssumption DEF QtyField
  <2> QED
    BY <1>4, <2>1, <2>3, <2>9, <2>10
<1>9. ASSUME NEW i \in 1 .. n + 1
      PROVE  /\ trades'[i].qty > 0
             /\ trades'[i].maker_id # taker.id
             /\ \A j \in 1 .. i - 1 : trades'[j].maker_id # trades'[i].maker_id
  <2>1. \A j \in 1 .. i - 1 : j \in 1 .. n
    BY <1>6
  <2>2. CASE i \in 1 .. n
    BY <1>2, <1>6, <2>1, <2>2 DEF FillsAddUp
  <2>3. CASE i = n + 1
    <3>1. order_map[taker.id] = NULL
      BY <1>2 DEF BookInv, InFlight
    <3>2. fill > 0
      BY BookAssumption DEF Qty
    <3> QED
      BY <1>4, <1>5, <1>6, <1>7, <2>1, <2>3, <3>1, <3>2
  <2> QED
    BY <1>6, <2>2, <2>3
<1> HIDE DEF g
<1> QED
  BY <1>2, <1>6, <1>8, <1>9 DEF FillsAddUp, g

(* A call begins with everything to fill, and what is not a fill changes   *)
(* neither the remainder nor the trades of a call that goes on.            *)
LEMMA OtherAdds ==
  ASSUME BookInv, FillsInv, FillsAddUp, [Next]_vars, ~Fill
  PROVE  FillsAddUp'
<1>1. CASE ~InCall'
  BY <1>1 DEF FillsAddUp
<1>2. CASE InCall /\ InCall' /\ UNCHANGED <<taker, remaining, trades>>
  BY <1>2 DEF FillsAddUp
<1>3. CASE ~InCall /\ trades' = trades /\ taker'.qty = remaining' /\ remaining' \in QtyField
  <2>1. trades' = <<>>
    BY <1>3 DEF FillsInv, MakersSettled
  <2>2. SumFunction([i \in DOMAIN trades' |-> trades'[i].qty]) = 0
    <3>1. SumFunction([i \in {} |-> trades'[i].qty]) = 0
      BY SumEmpty DEF SumFunction
    <3> QED
      BY <2>1, <3>1
  <2>3. remaining' + 0 = remaining'
    <3>1. \A x \in QtyField : x + 0 = x
      BY BookAssumption DEF QtyField
    <3> QED
      BY <1>3, <3>1
  <2> QED
    BY <1>3, <2>1, <2>2, <2>3 DEF FillsAddUp
<1>4. \/ ~InCall'
      \/ InCall /\ InCall' /\ UNCHANGED <<taker, remaining, trades>>
      \/ ~InCall /\ trades' = trades /\ taker'.qty = remaining' /\ remaining' \in QtyField
  <2>1. CASE EngineStep
    BY <2>1 DEF EngineStep, RetireMaker, KeepMaker, RestRemainder, DiscardRemainder, Return,
       DestroyOrder, DestroyLevels, InCall
  <2>2. CASE CallerStep
    BY <2>2 DEF CallerStep, InsertOrder, RejectOrder, StartMatching, CancelOrder, AmendInPlace,
       AmendRequeue, IgnoreRequest, ReducePartial, ReduceAll, Destroy, InCall, vars
  <2> QED
    BY <2>1, <2>2 DEF Next, Destroyed, vars, InCall
<1> QED
  BY <1>1, <1>2, <1>3, <1>4

(* The fills of every call add up, with the remainder, to what was asked,  *)
(* each with a maker of its own that is not the taker (OrderBook.cpp:11-41).*)
THEOREM FillsAlwaysAddUp == Spec => []FillsAddUp
<1>1. Init => FillsInv /\ FillsAddUp
  BY NoFills DEF Init, FillsAddUp, InCall
<1>2. BookInv /\ FillsInv /\ [Next]_vars => FillsInv'
  BY FillKeepsPriority, RetireKeepsPriority, KeepKeepsPriority, OtherKeepsPriority
<1>3. BookInv /\ FillsInv /\ FillsAddUp /\ [Next]_vars => FillsAddUp'
  BY FillAdds, OtherAdds
<1> QED
  BY <1>1, <1>2, <1>3, BookSafety, PTL DEF Spec

-----------------------------------------------------------------------------
(* Time in force.                                                          *)

\* The prices an aggressor may trade at, and the volumes cached for a side.
Crossing(side, limit) ==
  {p \in DOMAIN levels[Opposite(side)] : Crosses(side, p, limit)}

Volumes(s) == [p \in Price |-> IF p \in DOMAIN levels[s] THEN levels[s][p].total_volume ELSE 0]

\* What a FOK order can still get is no less than what it still wants, and a
\* MARKET order has no limit.
CallKeepsPromise ==
  InCall =>
    /\ taker.type = "FOK" =>
         remaining <= SumFunctionOnSet(Volumes(Opposite(taker.side)),
                                       Crossing(taker.side, taker.limit))
    /\ taker.type = "MARKET" => taker.limit = LimitOf("MARKET", taker.side, 0)

(* The prices that cross are finitely many and their volumes numbers.      *)
LEMMA CrossingFacts ==
  ASSUME StoreInv, NEW side \in Side, NEW limit
  PROVE  /\ Crossing(side, limit) \subseteq Price /\ IsFiniteSet(Crossing(side, limit))
         /\ \A p \in Price : Volumes(Opposite(side))[p] \in Int
         /\ SumFunctionOnSet(Volumes(Opposite(side)), Crossing(side, limit)) \in Int
<1> DEFINE opp == Opposite(side)
<1>1. opp \in Side /\ DOMAIN levels[opp] \subseteq Price
  BY SideFacts DEF StoreInv, StoreTypeOK
<1>2. Crossing(side, limit) \subseteq Price
  BY <1>1 DEF Crossing
<1>3. IsFiniteSet(Price)
  <2>1. 1 \in Int /\ NO_ASK - 1 \in Int
    BY BookAssumption
  <2> QED
    BY <2>1, FS_Interval DEF Price
<1>4. IsFiniteSet(Crossing(side, limit))
  BY <1>2, <1>3, FS_Subset
<1>5. \A p \in Price : Volumes(opp)[p] \in Int
  BY <1>1 DEF Volumes, StoreInv, StoreTypeOK, PriceLevel
<1> QED
  BY <1>2, <1>4, <1>5, SumType

(* When matching is over, the promise is kept (OrderBook.hpp:77-83).       *)
LEMMA PromiseKept ==
  ASSUME BookInv, CallKeepsPromise
  PROVE  TimeInForce
<1> SUFFICES ASSUME pc = "match", ~Matching
             PROVE  /\ taker.type = "FOK" => remaining = 0
                    /\ taker.type = "MARKET" /\ remaining > 0 =>
                         DOMAIN levels[Opposite(taker.side)] = {}
  BY DEF TimeInForce, Matched
<1>1. /\ InCall /\ StoreInv /\ taker.side \in Side
      /\ remaining \in QtyField /\ remaining \in Int /\ remaining >= 0
  BY BookAssumption DEF InCall, BookInv, CallTypeOK, Taker, QtyField
<1>2. remaining > 0 => Crossing(taker.side, taker.limit) = {}
  BY DEF Matching, Crossing
<1>3. ASSUME taker.type = "FOK"
      PROVE  remaining = 0
  <2>1. remaining <= SumFunctionOnSet(Volumes(Opposite(taker.side)),
                                      Crossing(taker.side, taker.limit))
    BY <1>1, <1>3 DEF CallKeepsPromise
  <2>2. SumFunctionOnSet(Volumes(Opposite(taker.side)), {}) = 0
    BY SumEmpty
  <2> QED
    BY <1>1, <1>2, <2>1, <2>2
<1>4. ASSUME taker.type = "MARKET", remaining > 0
      PROVE  DOMAIN levels[Opposite(taker.side)] = {}
  <2>1. taker.limit = IF taker.side = "buy" THEN NO_ASK ELSE 0
    BY <1>1, <1>4 DEF CallKeepsPromise, LimitOf, NO_BID
  <2>2. \A p \in Price : Crosses(taker.side, p, taker.limit)
    BY <2>1, BookAssumption DEF Crosses, Price
  <2>3. DOMAIN levels[Opposite(taker.side)] \subseteq Price
    BY <1>1, SideFacts DEF StoreInv, StoreTypeOK
  <2> QED
    BY <1>2, <1>4, <2>2, <2>3 DEF Crossing
<1> QED
  BY <1>3, <1>4

(* A FOK order is accepted only if enough volume crosses                   *)
(* (OrderBook.cpp:106-113).                                                *)
LEMMA InsertPromises ==
  ASSUME BookInv, NEW id \in OrderIds, NEW price \in PriceField, NEW qty \in QtyField,
         NEW side \in Side, NEW type \in OrderType, InsertOrder(id, price, qty, side, type)
  PROVE  CallKeepsPromise'
<1> DEFINE limit == LimitOf(type, side, price)
           f == [p \in Crossing(side, limit) |-> levels[Opposite(side)][p].total_volume]
<1>1. /\ levels' = levels /\ remaining' = qty /\ taker'.side = side /\ taker'.type = type
      /\ taker'.limit = limit
  BY DEF InsertOrder, StartMatching
<1>2. StoreInv /\ Opposite(side) \in Side
  BY SideFacts DEF BookInv
<1>3. ASSUME type = "FOK"
      PROVE  qty <= SumFunctionOnSet(Volumes(Opposite(side)), Crossing(side, limit))
  <2>1. SumFunction(f) >= qty
    BY <1>3 DEF InsertOrder, Accepted, CanFullyFill, Crossing
  <2>2. /\ DOMAIN f = Crossing(side, limit)
        /\ \A p \in Crossing(side, limit) : f[p] = Volumes(Opposite(side))[p]
    BY <1>2, CrossingFacts DEF Volumes, Crossing
  <2> HIDE DEF f
  <2>3. SumFunction(f) = SumFunctionOnSet(Volumes(Opposite(side)), Crossing(side, limit))
    BY <1>2, <2>2, CrossingFacts, TotalSame
  <2>4. qty \in Int /\ SumFunctionOnSet(Volumes(Opposite(side)), Crossing(side, limit)) \in Int
    BY <1>2, CrossingFacts, BookAssumption DEF QtyField
  <2> QED
    BY <2>1, <2>3, <2>4
<1>4. type = "MARKET" => limit = LimitOf("MARKET", side, 0)
  BY DEF LimitOf
<1>5. /\ Crossing(taker.side, taker.limit)' = Crossing(side, limit)
      /\ Volumes(Opposite(taker.side))' = Volumes(Opposite(side))
  BY <1>1 DEF Crossing, Volumes
<1> QED
  BY <1>1, <1>3, <1>4, <1>5 DEF CallKeepsPromise

(* A fill takes as much from the volume that crosses as from what is left  *)
(* to fill (OrderBook.cpp:22-26).                                          *)
LEMMA FillPromises ==
  ASSUME BookInv, CallKeepsPromise, Fill
  PROVE  CallKeepsPromise'
<1>1. PICK p \in Price, a \in live, fill \in Qty : Filled(Opposite(taker.side), p, a, fill)
  BY FillFacts
<1>2. PICK s \in Side : s = Opposite(taker.side)
  BY SideFacts DEF Fill, BookInv, CallTypeOK, InCall, Taker
<1>3. /\ InCall /\ taker' = taker /\ taker.side \in Side /\ StoreInv
      /\ remaining \in Int /\ fill \in Int
  BY BookAssumption DEF Fill, BookInv, CallTypeOK, InCall, Taker, QtyField, Qty
<1>4. /\ p \in DOMAIN levels[s] /\ Crosses(taker.side, p, taker.limit)
      /\ levels' = [levels EXCEPT ![s][p].total_volume = levels[s][p].total_volume - fill]
      /\ remaining' = remaining - fill
  BY <1>1, <1>2 DEF Filled, IsBest
<1>5. /\ DOMAIN levels = Side /\ levels[s][p] \in PriceLevel
      /\ levels'[s] = [levels[s] EXCEPT ![p].total_volume = levels[s][p].total_volume - fill]
  BY <1>3, <1>4 DEF StoreInv, StoreTypeOK
<1>6. /\ DOMAIN levels'[s] = DOMAIN levels[s]
      /\ levels'[s][p].total_volume = levels[s][p].total_volume - fill
      /\ \A r \in DOMAIN levels[s] \ {p} : levels'[s][r] = levels[s][r]
  BY <1>4, <1>5 DEF PriceLevel
<1> DEFINE C == Crossing(taker.side, taker.limit)
<1>7. Crossing(taker.side, taker.limit)' = C /\ p \in C
  BY <1>2, <1>3, <1>4, <1>6 DEF Crossing
<1>8. PICK f, g : f = Volumes(s) /\ g = Volumes(s)'
  OBVIOUS
<1>9. g[p] = f[p] - fill /\ \A r \in C \ {p} : g[r] = f[r]
  <2>1. C \subseteq DOMAIN levels[s] /\ C \subseteq Price /\ p \in Price
    BY <1>2, <1>3, <1>7, CrossingFacts DEF Crossing
  <2>2. \A r \in C : f[r] = levels[s][r].total_volume /\ g[r] = levels'[s][r].total_volume
    BY <1>6, <1>8, <2>1 DEF Volumes
  <2> QED
    BY <1>6, <1>7, <2>1, <2>2
<1>10. /\ IsFiniteSet(C) /\ \A r \in C : f[r] \in Int
       /\ SumFunctionOnSet(f, C) \in Int
  BY <1>2, <1>3, <1>8, CrossingFacts
<1>11. SumFunctionOnSet(g, C) = SumFunctionOnSet(f, C) - fill
  <2>1. f[p] \in Int /\ g[p] \in Int
    BY <1>3, <1>7, <1>9, <1>10
  <2>2. SumFunctionOnSet(g, C) = SumFunctionOnSet(f, C) + g[p] - f[p]
    <3> HIDE DEF C
    <3>1. /\ IsFiniteSet(C) /\ p \in C /\ g[p] \in Int
          /\ \A y \in C : f[y] \in Int
          /\ \A y \in C \ {p} : g[y] = f[y]
      BY <1>7, <1>9, <1>10, <2>1
    <3> QED
      BY <3>1, SumChange, Z3
  <2> QED
    BY <1>3, <1>9, <1>10, <2>1, <2>2
<1>12. taker.type = "FOK" => remaining' <= SumFunctionOnSet(g, C)
  BY <1>2, <1>3, <1>4, <1>8, <1>10, <1>11 DEF CallKeepsPromise
<1>13. Volumes(Opposite(taker.side))' = g
  BY <1>2, <1>3, <1>8
<1> QED
  BY <1>3, <1>7, <1>12, <1>13 DEF CallKeepsPromise

(* Retiring a maker takes nothing from it: its size is zero, and a level   *)
(* it leaves empty had no volume left (OrderBook.cpp:33-41).               *)
LEMMA RetirePromises ==
  ASSUME BookInv, VolumesExact, CallKeepsPromise, RetireMaker
  PROVE  CallKeepsPromise'
<1>0. PICK s \in Side : s = Opposite(taker.side)
  BY SideFacts DEF RetireMaker, BookInv, CallTypeOK, InCall, Taker
<1>1. PICK a, p : s = Opposite(taker.side) /\ a = hit.order /\ p = hit.price
  BY <1>0
<1>2. /\ InCall /\ taker' = taker /\ taker.side \in Side /\ StoreInv /\ Open /\ Open'
      /\ remaining' = remaining /\ remaining \in Int /\ mem[a].qty = 0
  BY <1>1, BookAssumption DEF RetireMaker, BookInv, CallTypeOK, InCall, Taker, QtyField, Open
<1>3. p \in DOMAIN levels[s] /\ a = levels[s][p].head /\ p \in Price
  BY <1>1, <1>2 DEF RetireMaker, BookInv, InFlight, HitIsFront, IsBest, StoreInv, StoreTypeOK
<1>4. a \in live /\ mem[a].side = s /\ mem[a].price = p /\ levels[s][p] \in PriceLevel
  BY <1>2, <1>3, HeadOrder
<1>5. RemoveOrder(a)
  BY <1>1, <1>4 DEF RetireMaker, RemoveOrder
<1>6. /\ StoreInv'
      /\ OrdersAt(s, p)' = OrdersAt(s, p) \ {a}
      /\ \A r \in DOMAIN levels'[s] :
           /\ r \in DOMAIN levels[s]
           /\ levels'[s][r].total_volume =
                IF r = p THEN levels[s][r].total_volume - mem[a].qty
                ELSE levels[s][r].total_volume
  BY <1>2, <1>3, <1>4, <1>5, RemoveOrderInv
<1>7. \A r \in DOMAIN levels[s] \ {p} : r \in DOMAIN levels'[s]
  <2>1. levels'[s] = PutOrErase(levels[s], p, Removed(levels[s][p], a))
    BY <1>1, <1>3, <1>4, <1>5 DEF RemoveOrder, StoreInv, StoreTypeOK, BookInv
  <2> QED
    BY <2>1 DEF PutOrErase, PutLevel
<1>8. p \notin DOMAIN levels'[s] => levels[s][p].total_volume = 0
  <2> SUFFICES ASSUME p \notin DOMAIN levels'[s]
               PROVE  levels[s][p].total_volume = 0
    OBVIOUS
  <2>1. OrdersAt(s, p)' = {}
    BY <1>2, <1>6 DEF StoreInv, QueuesWellFormed, OrdersAt
  <2>2. a \in OrdersAt(s, p) /\ OrdersAt(s, p) \ {a} = {}
    BY <1>4, <1>6, <2>1 DEF OrdersAt
  <2>3. /\ IsFiniteSet(OrdersAt(s, p)) /\ \A x \in OrdersAt(s, p) : Sizes[x] \in Int
        /\ Sizes[a] = 0
    BY <1>2, <2>2, OrdersCounted
  <2>4. SumFunctionOnSet(Sizes, OrdersAt(s, p)) = Sizes[a] + SumFunctionOnSet(Sizes, {})
    BY <2>2, <2>3, SumRemove
  <2>5. SumFunctionOnSet(Sizes, {}) = 0
    BY SumEmpty
  <2>6. levels[s][p].total_volume = SumFunctionOnSet(Sizes, OrdersAt(s, p))
    BY <1>2, <1>3 DEF VolumesExact
  <2> QED
    BY <2>3, <2>4, <2>5, <2>6
<1>9. PICK f, g : f = Volumes(s) /\ g = Volumes(s)'
  OBVIOUS
<1>10. \A r \in Price : g[r] = f[r]
  <2> SUFFICES ASSUME NEW r \in Price
               PROVE  g[r] = f[r]
    OBVIOUS
  <2>1. levels[s][p].total_volume - 0 = levels[s][p].total_volume
    BY <1>4 DEF PriceLevel
  <2> QED
    BY <1>2, <1>3, <1>6, <1>7, <1>8, <1>9, <2>1 DEF Volumes
<1> DEFINE C == Crossing(taker.side, taker.limit)
           D == Crossing(taker.side, taker.limit)'
<1>11. /\ IsFiniteSet(C) /\ C \subseteq Price /\ \A r \in C : f[r] \in Int
       /\ SumFunctionOnSet(f, C) \in Int
  BY <1>1, <1>2, <1>9, CrossingFacts
<1>12. D \subseteq C /\ C \ {p} \subseteq D /\ (p \in C /\ p \notin D => f[p] = 0)
  BY <1>1, <1>2, <1>3, <1>6, <1>7, <1>8, <1>9 DEF Crossing, Volumes
<1>13. SumFunctionOnSet(g, D) = SumFunctionOnSet(f, C)
  <2> HIDE DEF C, D
  <2>1. IsFiniteSet(D) /\ \A r \in D : g[r] = f[r]
    BY <1>10, <1>11, <1>12, FS_Subset
  <2>2. SumFunctionOnSet(g, D) = SumFunctionOnSet(f, D)
    BY <2>1, SumSame
  <2>3. CASE D = C
    BY <2>2, <2>3
  <2>4. CASE D # C
    <3>1. p \in C /\ D = C \ {p} /\ f[p] = 0
      BY <1>12, <2>4
    <3>2. SumFunctionOnSet(f, C) = f[p] + SumFunctionOnSet(f, C \ {p})
      BY <1>11, <3>1, SumRemove
    <3>3. SumFunctionOnSet(f, D) \in Int
      BY <1>11, <1>12, <2>1, SumType
    <3> QED
      BY <2>2, <3>1, <3>2, <3>3
  <2> QED
    BY <2>3, <2>4
<1>14. Volumes(Opposite(taker.side))' = g
  BY <1>1, <1>2, <1>9
<1>15. taker.type = "FOK" => remaining' <= SumFunctionOnSet(g, D)
  BY <1>1, <1>2, <1>9, <1>13 DEF CallKeepsPromise
<1> QED
  BY <1>2, <1>14, <1>15 DEF CallKeepsPromise

(* The other steps begin a call, end it, or change nothing it depends on.  *)
LEMMA OtherPromises ==
  ASSUME BookInv, CallKeepsPromise, [Next]_vars, ~Fill, ~RetireMaker
  PROVE  CallKeepsPromise'
<1>1. CASE ~InCall'
  BY <1>1 DEF CallKeepsPromise
<1>2. CASE InCall /\ UNCHANGED <<levels, taker, remaining>>
  <2>1. /\ Crossing(taker.side, taker.limit)' = Crossing(taker.side, taker.limit)
        /\ Volumes(Opposite(taker.side))' = Volumes(Opposite(taker.side))
    BY <1>2 DEF Crossing, Volumes
  <2> QED
    BY <1>2, <2>1 DEF CallKeepsPromise
<1>3. ASSUME NEW id \in OrderIds, NEW price \in PriceField, NEW qty \in QtyField,
             AmendRequeue(id, price, qty)
      PROVE  CallKeepsPromise'
  BY <1>3 DEF AmendRequeue, StartMatching, CallKeepsPromise
<1>4. \/ ~InCall'
      \/ InCall /\ UNCHANGED <<levels, taker, remaining>>
      \/ \E id \in OrderIds, price \in PriceField, qty \in QtyField :
           \/ AmendRequeue(id, price, qty)
           \/ \E side \in Side, type \in OrderType : InsertOrder(id, price, qty, side, type)
  <2>1. CASE EngineStep
    BY <2>1 DEF EngineStep, KeepMaker, RestRemainder, DiscardRemainder, Return,
       DestroyOrder, DestroyLevels, InCall
  <2>2. CASE CallerStep
    BY <2>2 DEF CallerStep, RejectOrder, CancelOrder, AmendInPlace, IgnoreRequest,
       ReducePartial, ReduceAll, Destroy, InCall, vars
  <2> QED
    BY <2>1, <2>2 DEF Next, Destroyed, vars, InCall
<1> QED
  BY <1>1, <1>2, <1>3, <1>4, InsertPromises

(* A FOK order that is accepted is filled whole, and a MARKET order leaves *)
(* a remainder only when the other side is empty (OrderBook.hpp:77-83).    *)
THEOREM TimeInForceHonoured == Spec => []TimeInForce
<1>1. Init => VolumesExact /\ CallKeepsPromise
  BY DEF Init, VolumesExact, NoLevels, CallKeepsPromise, InCall
<1>2. BookInv /\ VolumesExact /\ [Next]_vars => VolumesExact'
  BY VolumesInv
<1>3. BookInv /\ VolumesExact /\ CallKeepsPromise /\ [Next]_vars => CallKeepsPromise'
  BY FillPromises, RetirePromises, OtherPromises
<1>4. BookInv /\ CallKeepsPromise => TimeInForce
  BY PromiseKept
<1> QED
  BY <1>1, <1>2, <1>3, <1>4, BookSafety, PTL DEF Spec

-----------------------------------------------------------------------------
(* Time priority.                                                          *)

\* f satisfies the recursion of QueueAt, for a level of n orders from head.
Walks(f, n, head) ==
  f = [i \in 1 .. n |-> IF i = 1 THEN head
                        ELSE IF f[i - 1] = NULL THEN NULL ELSE mem[f[i - 1]].next]

(* One function does.                                                      *)
LEMMA WalkUnique ==
  ASSUME NEW n \in Int, NEW head, NEW f, NEW g, Walks(f, n, head), Walks(g, n, head)
  PROVE  f = g
<1> USE DEF Walks
<1> DEFINE G == {k \in Nat : k \in 1 .. n => f[k] = g[k]}
<1>1. 0 \in G
  OBVIOUS
<1>2. ASSUME NEW k \in Nat, k \in G
      PROVE  k + 1 \in G
  <2> SUFFICES ASSUME k + 1 \in 1 .. n
               PROVE  f[k + 1] = g[k + 1]
    OBVIOUS
  <2>1. CASE k = 0
    BY <2>1
  <2>2. CASE k # 0
    <3>1. k \in 1 .. n /\ k + 1 # 1 /\ (k + 1) - 1 = k
      BY <2>2
    <3>2. f[k] = g[k]
      BY <1>2, <3>1
    <3> QED
      BY <3>1, <3>2
  <2> QED
    BY <2>1, <2>2
<1> HIDE DEF G
<1>3. \A k \in Nat : k \in G
  BY <1>1, <1>2, NumberInduction
<1>4. \A k \in 1 .. n : f[k] = g[k]
  BY <1>3 DEF G
<1> QED
  BY <1>4

(* Reading a level's list from its head finds its queue                    *)
(* (OrderBook.hpp:36-60).                                                  *)
LEMMA QueueIsWalk ==
  ASSUME StoreTypeOK, NEW s \in Side, NEW p \in DOMAIN levels[s], NEW q, Listed(q, s, p)
  PROVE  QueueAt(s, p) = q
<1>1. PICK n \in Int : n = levels[s][p].order_count
  BY DEF StoreTypeOK, PriceLevel
<1>2. /\ q \in [1 .. n -> OrdersAt(s, p)] /\ levels[s][p].head = q[1]
      /\ \A i \in 1 .. n : mem[q[i]].next = IF i = n THEN NULL ELSE q[i + 1]
  BY <1>1 DEF Listed, Threads
<1>3. \A i \in 1 .. n : q[i] # NULL
  BY <1>2, PoolAssumption DEF OrdersAt, StoreTypeOK, PoolTypeOK, Addr
<1>4. ASSUME NEW i \in 1 .. n, i # 1
      PROVE  q[i - 1] # NULL /\ mem[q[i - 1]].next = q[i]
  <2>1. i - 1 \in 1 .. n /\ i - 1 # n /\ (i - 1) + 1 = i
    BY <1>4
  <2> QED
    BY <1>2, <1>3, <2>1
<1>5. Walks(q, n, levels[s][p].head)
  BY <1>2, <1>4 DEF Walks
<1>6. QueueAt(s, p) = CHOOSE f : Walks(f, n, levels[s][p].head)
  BY <1>1 DEF QueueAt, NextOf, Walks
<1>7. Walks(QueueAt(s, p), n, levels[s][p].head)
  BY <1>5, <1>6
<1> QED
  BY <1>5, <1>7, WalkUnique

QueuesRead ==
  StoreTypeOK =>
    \A s \in Side : \A p \in DOMAIN levels[s] : \A q : Listed(q, s, p) => QueueAt(s, p) = q

LEMMA QueuesAlwaysRead == QueuesRead
BY QueueIsWalk DEF QueuesRead

LEMMA QueuesReadNext == QueuesRead'
BY QueuesAlwaysRead, PTL

\* In a step an order keeps its id, and one that arrives has an id that rested
\* nowhere.
IdsStay ==
  \A x \in live' : IF x \in live THEN mem'[x].id = mem[x].id
                   ELSE order_map[mem'[x].id] = NULL

\* No order of any level that stays is overtaken.
AllQueuesKept ==
  \A s \in Side : \A p \in DOMAIN levels'[s] : p \in DOMAIN levels[s] => QueueKept(s, p)

(* What is kept of the addresses of a queue is kept of its ids.            *)
LEMMA KeptById ==
  ASSUME StoreInv, StoreInv', IdsStay, AllQueuesKept, NEW s \in Side, NEW p \in Price
  PROVE  KeepsOrder(IdsAt(s, p), IdsAt(s, p)')
<1>1. CASE p \notin DOMAIN levels[s]
  BY <1>1 DEF IdsAt, KeepsOrder
<1>2. CASE p \notin DOMAIN levels'[s]
  BY <1>2 DEF IdsAt, KeepsOrder
<1>3. CASE p \in DOMAIN levels[s] /\ p \in DOMAIN levels'[s]
  <2>1. PICK q, f : Listed(q, s, p) /\ Listed(f, s, p)' /\ KeepsOrder(q, f)
    BY <1>3 DEF AllQueuesKept, QueueKept
  <2>2. QueueAt(s, p) = q /\ QueueAt(s, p)' = f
    <3>1. QueueAt(s, p) = q
      BY <1>3, <2>1, QueueIsWalk DEF StoreInv
    <3>2. QueueAt(s, p)' = f
      BY <1>3, <2>1, QueuesReadNext DEF StoreInv, QueuesRead
    <3> QED
      BY <3>1, <3>2
  <2>3. /\ IdsAt(s, p) = [i \in DOMAIN q |-> mem[q[i]].id]
        /\ IdsAt(s, p)' = [i \in DOMAIN f |-> mem'[f[i]].id]
    BY <1>3, <2>2 DEF IdsAt
  <2>4. /\ \A i \in DOMAIN q : q[i] \in live
        /\ \A i \in DOMAIN f : f[i] \in live'
    BY <2>1 DEF Listed, OrdersAt
  <2>5. \A x \in live : order_map[mem[x].id] = x /\ x # NULL
    BY PoolAssumption DEF StoreInv, IndexAgrees, StoreTypeOK, PoolTypeOK, Addr
  <2>6. ASSUME NEW j \in DOMAIN f, NEW n \in DOMAIN q, mem'[f[j]].id = mem[q[n]].id
        PROVE  f[j] = q[n]
    <3>1. order_map[mem'[f[j]].id] = q[n] /\ q[n] # NULL
      BY <2>4, <2>5, <2>6
    <3>2. f[j] \in live /\ mem'[f[j]].id = mem[f[j]].id
      BY <2>4, <3>1 DEF IdsStay
    <3> QED
      BY <2>5, <3>1, <3>2
  <2> SUFFICES ASSUME NEW i \in DOMAIN f, NEW j \in DOMAIN f, NEW n \in DOMAIN q,
                      i < j, mem'[f[j]].id = mem[q[n]].id
               PROVE  \E m \in 1 .. n - 1 : mem'[f[i]].id = IdsAt(s, p)[m]
    BY <2>3 DEF KeepsOrder
  <2>7. f[j] = q[n]
    BY <2>6
  <2>8. PICK m \in 1 .. n - 1 : f[i] = q[m]
    BY <2>1, <2>7 DEF KeepsOrder
  <2>9. m \in DOMAIN q
    <3>1. DOMAIN q = 1 .. levels[s][p].order_count /\ levels[s][p].order_count \in Int
      BY <1>3, <2>1 DEF Listed, StoreInv, StoreTypeOK, PriceLevel
    <3> QED
      BY <3>1
  <2>10. mem'[f[i]].id = mem[q[m]].id
    BY <2>4, <2>8, <2>9 DEF IdsStay
  <2> QED
    BY <2>3, <2>9, <2>10
<1> QED
  BY <1>1, <1>2, <1>3

(* Every step of an open book keeps the queues and the ids.                *)
LEMMA StepKeepsQueues ==
  ASSUME BookInv, [Next]_vars, Open
  PROVE  IdsStay /\ AllQueuesKept
<1>0. StoreInv
  BY DEF BookInv
<1>1. CASE Open' /\ Removes
  <2>1. PICK a \in live : RemoveOrder(a)
    BY <1>1 DEF Removes
  <2>2. /\ live' = live \ {a}
        /\ \A x \in live' : mem'[x].id = mem[x].id
        /\ \A t \in Side : \A r \in DOMAIN levels'[t] : QueueKept(t, r)
    BY <1>0, <1>1, <2>1, RemoveOrderInv
  <2> QED
    BY <2>2 DEF IdsStay, AllQueuesKept
<1>2. CASE Open' /\ Appends
  <2>1. PICK id \in OrderIds, s \in Side, p \in Price, qty \in Qty :
          /\ order_map[id] = NULL
          /\ \A r \in DOMAIN levels[Opposite(s)] : ~Crosses(s, r, p)
          /\ AppendOrder(id, s, p, qty)
    BY <1>2 DEF Appends
  <2>2. /\ \A x \in live : mem'[x].id = mem[x].id
        /\ \E a \in live' \ live : live' = live \cup {a} /\ mem'[a].id = id
        /\ \A t \in Side : \A r \in DOMAIN levels'[t] : r \in DOMAIN levels[t] => QueueKept(t, r)
    BY <1>0, <1>2, <2>1, AppendInv
  <2> QED
    BY <2>1, <2>2 DEF IdsStay, AllQueuesKept
<1>3. CASE Open' /\ Resizes
  <2>1. PICK a \in live, v \in QtyField, w \in Int :
          Resized(a, mem[a].side, mem[a].price, v, w)
    BY <1>3 DEF Resizes
  <2>2. PICK s, p : s = mem[a].side /\ p = mem[a].price
    OBVIOUS
  <2>3. /\ \A t \in Side : DOMAIN levels'[t] = DOMAIN levels[t]
        /\ \A x \in live : mem'[x].id = mem[x].id
        /\ \A t \in Side : \A r \in DOMAIN levels[t] : QueueKept(t, r)
    BY <1>0, <1>3, <2>1, <2>2, ResizeInv
  <2>4. live' = live
    BY <2>1 DEF Resized, poolVars
  <2> QED
    BY <2>3, <2>4 DEF IdsStay, AllQueuesKept
<1>4. CASE UNCHANGED <<mem, levels, order_map, poolVars>>
  <2>1. IdsStay
    BY <1>4 DEF IdsStay, poolVars
  <2>2. ASSUME NEW s \in Side, NEW p \in DOMAIN levels[s]
        PROVE  QueueKept(s, p)
    <3>1. PICK q \in [1 .. levels[s][p].order_count -> OrdersAt(s, p)] : Threads(q, s, p)
      BY <1>0 DEF StoreInv, QueuesWellFormed
    <3>2. OrdersAt(s, p)' = OrdersAt(s, p)
      BY <1>4 DEF OrdersAt, poolVars
    <3>3. Listed(q, s, p) /\ Listed(q, s, p)'
      BY <1>4, <3>1, <3>2 DEF Listed, Threads
    <3>4. levels[s][p].order_count \in Int
      BY <1>0 DEF StoreInv, StoreTypeOK, PriceLevel
    <3> QED
      BY <3>3, <3>4, SameQueueKept
  <2> QED
    BY <1>4, <2>1, <2>2 DEF AllQueuesKept
<1> QED
  BY <1>1, <1>2, <1>3, <1>4, StoreSteps

(* In no step of any book is an order overtaken at its price by one that   *)
(* was behind it or not there (OrderBook.hpp:35, 128-134, 139).            *)
THEOREM FirstInFirstServed == Spec => TimePriority
<1>1. BookInv /\ [Next]_vars =>
        [Open => \A s \in Side : \A p \in Price : KeepsOrder(IdsAt(s, p), IdsAt(s, p)')]_vars
  <2> SUFFICES ASSUME BookInv, [Next]_vars, Open
               PROVE  \A s \in Side : \A p \in Price : KeepsOrder(IdsAt(s, p), IdsAt(s, p)')
    OBVIOUS
  <2>1. StoreInv /\ StoreInv'
    BY NextInv DEF BookInv
  <2> QED
    BY <2>1, StepKeepsQueues, KeptById
<1> QED
  BY <1>1, BookSafety, PTL DEF Spec, TimePriority
=============================================================================
