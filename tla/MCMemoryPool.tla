---------------------------- MODULE MCMemoryPool ----------------------------
(***************************************************************************)
(* The pool on its own, on a small instance: more addresses than slots, so *)
(* that it exhausts, spills, recovers and spills again.                    *)
(***************************************************************************)
EXTENDS MemoryPool
=============================================================================
