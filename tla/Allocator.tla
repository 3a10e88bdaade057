------------------------------ MODULE Allocator ------------------------------
(***************************************************************************)
(* What an owner of include/MemoryPool.hpp relies on, with no free list:   *)
(* an address is handed out only while it is not in use, the heap is used  *)
(* only when every pooled slot is in use, only an address in use is given  *)
(* back, and `spilled` remembers whether the heap was ever used.           *)
(***************************************************************************)
CONSTANTS Preferred,  \* the pool's slots
          Others      \* heap addresses

VARIABLES used, spilled

Init == used = {} /\ spilled = FALSE

Acquire(a) ==
  /\ a \in (Preferred \cup Others) \ used
  /\ a \in Others => Preferred \subseteq used
  /\ used' = used \cup {a}
  /\ spilled' = (spilled \/ a \in Others)

Release(a) ==
  /\ a \in used
  /\ used' = used \ {a}
  /\ UNCHANGED spilled

Next == \E a \in Preferred \cup Others : Acquire(a) \/ Release(a)

Spec == Init /\ [][Next]_<<used, spilled>>
=============================================================================
