-------------------------------- MODULE Fifo --------------------------------
(***************************************************************************)
(* The FIFO of what rests at a price: a sequence of entries with an id and *)
(* a quantity, the oldest first.  Recursion is by functions here, and not  *)
(* by SelectSeq, so that the proofs can expand it.                         *)
(***************************************************************************)
EXTENDS Integers, Sequences, Functions

\* The shares of the first k entries.
Shares(fifo, k) == SumFunction([i \in 1 .. k |-> fifo[i].qty])

Volume(fifo) == Shares(fifo, Len(fifo))

\* The entries at the positions in D, in their order.
EntriesAt(fifo, D) ==
  LET upTo[n \in 0 .. Len(fifo)] ==
        IF n = 0 THEN <<>>
        ELSE IF n \in D THEN Append(upTo[n - 1], fifo[n]) ELSE upTo[n - 1]
  IN upTo[Len(fifo)]

WithoutId(fifo, id) == EntriesAt(fifo, {i \in DOMAIN fifo : fifo[i].id # id})

\* Take n shares from the front; what is used up leaves.
TakeFront(fifo, n) ==
  IF n >= Volume(fifo) THEN <<>>
  ELSE LET k == CHOOSE k \in DOMAIN fifo : Shares(fifo, k - 1) <= n /\ n < Shares(fifo, k)
       IN [SubSeq(fifo, k, Len(fifo)) EXCEPT ![1].qty = Shares(fifo, k) - n]
=============================================================================
