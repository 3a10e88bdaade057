----------------------------- MODULE MemoryPool -----------------------------
(***************************************************************************)
(* include/MemoryPool.hpp: a fixed-capacity object pool over raw storage   *)
(* that spills to the heap when its slots run out.                         *)
(*                                                                         *)
(* The module is written to be extended by the component that owns the     *)
(* pool: Allocate and Deallocate constrain only the pool's variables, so   *)
(* the owner's actions conjoin them with their own.  PoolSpec closes the   *)
(* pool with the weakest owner that keeps the contract of lines 25-28: it  *)
(* deallocates only pointers it holds, and null.                           *)
(***************************************************************************)
EXTENDS Integers, Sequences, FiniteSets, Functions

CONSTANTS
  Slots,        \* addresses of storage_[0 .. BlockSize-1]
  HeapAddrs,    \* addresses operator new may return for an overflow object
  MaxOverflow,  \* bound: overflow_total saturates here (size_t in the code)
  NULL          \* the null pointer

ASSUME PoolAssumption ==
  /\ IsFiniteSet(Slots) /\ IsFiniteSet(HeapAddrs)
  /\ Slots \cap HeapAddrs = {}
  /\ NULL \notin Slots \cup HeapAddrs
  /\ MaxOverflow \in Nat \ {0}

VARIABLES
  free_list,       \* stack of free slots, top last
  heap_allocated,  \* heap addresses handed out and not yet returned
  has_overflowed,  \* sticky: an overflow object was handed out once
  overflow_total,  \* overflow objects ever handed out
  live             \* addresses that hold a constructed object

poolVars == <<free_list, heap_allocated, has_overflowed, overflow_total, live>>

Addr == Slots \cup HeapAddrs

-----------------------------------------------------------------------------
(* The constructor pushes the slots in address order.  Addresses are only  *)
(* compared for equality, so any enumeration of them stands for that one.  *)
PoolInit ==
  /\ free_list \in Bijection(1 .. Cardinality(Slots), Slots)
  /\ heap_allocated = {}
  /\ has_overflowed = FALSE
  /\ overflow_total = 0
  /\ live = {}

\* Mutants of AllocateOverflow: the flag is not raised, the spill is not counted,
\* the heap is used while a slot is free.
AllocateOverflow_FlagForgotten(ptr) ==
  /\ free_list = <<>>
  /\ ptr \in HeapAddrs \ live
  /\ overflow_total' = IF overflow_total < MaxOverflow THEN overflow_total + 1
                                                       ELSE overflow_total
  /\ heap_allocated' = heap_allocated \cup {ptr}
  /\ live' = live \cup {ptr}
  /\ UNCHANGED <<free_list, has_overflowed>>

AllocateOverflow_NotCounted(ptr) ==
  /\ free_list = <<>>
  /\ ptr \in HeapAddrs \ live
  /\ has_overflowed' = TRUE
  /\ heap_allocated' = heap_allocated \cup {ptr}
  /\ live' = live \cup {ptr}
  /\ UNCHANGED <<free_list, overflow_total>>

AllocateOverflow_TooEarly(ptr) ==
  /\ Len(free_list) <= 1
  /\ ptr \in HeapAddrs \ live
  /\ has_overflowed' = TRUE
  /\ overflow_total' = IF overflow_total < MaxOverflow THEN overflow_total + 1
                                                       ELSE overflow_total
  /\ heap_allocated' = heap_allocated \cup {ptr}
  /\ live' = live \cup {ptr}
  /\ UNCHANGED free_list

AllocateOverflow(ptr) ==
  /\ free_list = <<>>
  /\ ptr \in HeapAddrs \ live
  /\ has_overflowed' = TRUE
  /\ overflow_total' = IF overflow_total < MaxOverflow THEN overflow_total + 1
                                                       ELSE overflow_total
  /\ heap_allocated' = heap_allocated \cup {ptr}
  /\ live' = live \cup {ptr}
  /\ UNCHANGED free_list

\* Mutant: the slot is handed out but not popped.
AllocateSlot_NotPopped(ptr) ==
  /\ free_list # <<>>
  /\ ptr = free_list[Len(free_list)]
  /\ live' = live \cup {ptr}
  /\ UNCHANGED <<free_list, heap_allocated, has_overflowed, overflow_total>>

AllocateSlot(ptr) ==
  /\ free_list # <<>>
  /\ ptr = free_list[Len(free_list)]
  /\ free_list' = SubSeq(free_list, 1, Len(free_list) - 1)
  /\ live' = live \cup {ptr}
  /\ UNCHANGED <<heap_allocated, has_overflowed, overflow_total>>

\* allocate() returns ptr, an object constructed there.
Allocate(ptr) == AllocateOverflow(ptr) \/ AllocateSlot(ptr)

\* Mutant: the lookup is skipped once the pool has overflowed, not before.
FromHeap_SkipInverted(ptr) == ~has_overflowed /\ ptr \in heap_allocated

FromHeap(ptr) == has_overflowed /\ ptr \in heap_allocated

DeallocateHeap(ptr) ==
  /\ FromHeap(ptr)
  /\ heap_allocated' = heap_allocated \ {ptr}
  /\ live' = live \ {ptr}
  /\ UNCHANGED <<free_list, has_overflowed, overflow_total>>

DeallocateSlot(ptr) ==
  /\ ~FromHeap(ptr)
  /\ free_list' = Append(free_list, ptr)
  /\ live' = live \ {ptr}
  /\ UNCHANGED <<heap_allocated, has_overflowed, overflow_total>>

DeallocateNull(ptr) == ptr = NULL /\ UNCHANGED poolVars

\* deallocate(ptr), whatever ptr is.
Deallocate(ptr) ==
  \/ DeallocateNull(ptr)
  \/ ptr # NULL /\ DeallocateHeap(ptr)
  \/ ptr # NULL /\ DeallocateSlot(ptr)

PoolNext ==
  \/ \E ptr \in Addr : Allocate(ptr)
  \/ \E ptr \in live \cup {NULL} : Deallocate(ptr)

PoolSpec == PoolInit /\ [][PoolNext]_poolVars

-----------------------------------------------------------------------------
(* Type invariant of the pool: what each field of MemoryPool.hpp:92-99     *)
(* may hold.                                                               *)
PoolTypeOK ==
  /\ free_list \in Seq(Slots)
  /\ heap_allocated \in SUBSET HeapAddrs
  /\ has_overflowed \in BOOLEAN
  /\ overflow_total \in 0 .. MaxOverflow
  /\ live \in SUBSET Addr

(* Every slot is either live or exactly once on the free list: no slot is  *)
(* lost, none is free twice, none is free while an object lives in it.     *)
SlotConservation ==
  /\ IsInjective(free_list)
  /\ \A s \in Slots : s \in live <=> s \notin Range(free_list)

(* The set deallocate() consults to tell a heap object from a pooled one   *)
(* is exact, and the sticky flag that lets it skip the lookup never hides  *)
(* a heap object (MemoryPool.hpp:58-66).                                   *)
HeapRouting ==
  /\ heap_allocated = live \cap HeapAddrs
  /\ heap_allocated # {} => has_overflowed

(* overflow_total distinguishes a pool that spilled and recovered from one *)
(* that never spilled, and never undercounts the live overflow objects     *)
(* (MemoryPool.hpp:79-82).                                                 *)
OverflowAccounting ==
  /\ has_overflowed <=> overflow_total > 0
  /\ overflow_total < MaxOverflow => Cardinality(heap_allocated) <= overflow_total

PoolInv == PoolTypeOK /\ SlotConservation /\ HeapRouting

-----------------------------------------------------------------------------
(* The pool implements an allocator that never hands out an address in use *)
(* and leaves the heap alone while a slot is free (Allocator.tla).         *)
Abstract == INSTANCE Allocator WITH
  Preferred <- Slots, Others <- HeapAddrs, used <- live, spilled <- has_overflowed

ImplementsAllocator == Abstract!Spec
=============================================================================
