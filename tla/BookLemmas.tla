----------------------------- MODULE BookLemmas -----------------------------
(***************************************************************************)
(* What the proofs need of the operators that the modules are built from:  *)
(* the sums of the community modules' folds, ordered sets of numbers, and  *)
(* FIFOs. Induction over a set of numbers, sets or sequences is written    *)
(* with that set as the hypothesis, since a lemma cannot take the          *)
(* predicate as a parameter.                                               *)
(***************************************************************************)
EXTENDS Fifo, FiniteSets, FiniteSetTheorems, WellFoundedInduction, TLAPS

(* A set of numbers that is not empty has a least element.                 *)
LEMMA LeastNumber ==
  ASSUME NEW T \in SUBSET Nat, T # {}
  PROVE  \E x \in T : \A y \in T : x <= y
<1>1. PICK x \in T : \A y \in T : ~ (<<y, x>> \in OpToRel(<, Nat))
  BY NatLessThanWellFounded, WFMin
<1>2. \A y \in T : ~(y < x)
  BY <1>1 DEF OpToRel
<1> QED
  BY <1>2

(* Induction over the numbers, for the set G of those that satisfy what is *)
(* to be proved.                                                           *)
LEMMA NumberInduction ==
  ASSUME NEW G, 0 \in G, \A n \in Nat : n \in G => n + 1 \in G
  PROVE  \A n \in Nat : n \in G
<1> DEFINE Bad == {n \in Nat : n \notin G}
<1> SUFFICES ASSUME Bad # {} PROVE FALSE
  OBVIOUS
<1>1. PICK k \in Bad : \A j \in Bad : k <= j
  <2>1. Bad \in SUBSET Nat
    OBVIOUS
  <2> HIDE DEF Bad
  <2> QED
    BY <2>1, LeastNumber
<1>2. k \in Nat /\ k # 0 /\ k \notin G
  OBVIOUS
<1>3. k - 1 \in Nat /\ ~(k <= k - 1) /\ k - 1 + 1 = k
  BY <1>2
<1>4. k - 1 \notin Bad
  BY <1>1, <1>3
<1> QED
  BY <1>2, <1>3, <1>4

(* Induction over the subsets of a finite set: G has every set that loses  *)
(* no element without falling into G.                                      *)
LEMMA SubsetInduction ==
  ASSUME NEW S, IsFiniteSet(S), NEW G, {} \in G,
         \A T \in SUBSET S : T # {} /\ (\A x \in T : T \ {x} \in G) => T \in G
  PROVE  \A T \in SUBSET S : T \in G
<1> DEFINE Bad == {T \in SUBSET S : T \notin G}
<1> SUFFICES ASSUME Bad # {} PROVE FALSE
  OBVIOUS
<1>1. Bad \subseteq FiniteSubsetsOf(S)
  BY FS_FiniteSubsetsOfFinite
<1>2. PICK T \in Bad : \A U \in Bad : ~ (<<U, T>> \in StrictSubsetOrdering(S))
  <2> HIDE DEF Bad
  <2> QED
    BY <1>1, FS_StrictSubsetOrderingWellFounded, WFMin
<1>3. \A x \in T : T \ {x} \notin Bad
  <2>1. \A x \in T : <<T \ {x}, T>> \in StrictSubsetOrdering(S)
    BY DEF StrictSubsetOrdering
  <2> QED
    BY <1>2, <2>1
<1> QED
  BY <1>3

-----------------------------------------------------------------------------
(* Sums.  The library adds up a function over a set by a recursion that    *)
(* takes the elements in an order CHOOSE settles.                          *)

First(S) == CHOOSE x \in S : TRUE

\* g is what that recursion defines on the sets in D.
Adds(g, f, D) ==
  g = [T \in D |-> IF T = {} THEN 0 ELSE f[First(T)] + g[T \ {First(T)}]]

(* The recursion defines a function: first on the sets of at most k        *)
(* elements.                                                               *)
LEMMA AddsExists ==
  ASSUME NEW S, IsFiniteSet(S), NEW f
  PROVE  \E g : Adds(g, f, SUBSET S)
<1> DEFINE D(k) == {T \in SUBSET S : Cardinality(T) <= k}
           G == {k \in Nat : \E g : Adds(g, f, D(k))}
<1>1. \A T \in SUBSET S : /\ IsFiniteSet(T) /\ Cardinality(T) \in Nat
                          /\ Cardinality(T) <= Cardinality(S)
  BY FS_Subset, FS_CardinalityType
<1>2. 0 \in G
  <2>1. \A T \in D(0) : T = {}
    BY <1>1, FS_EmptySet
  <2>2. Adds([T \in D(0) |-> 0], f, D(0))
    BY <2>1 DEF Adds
  <2> QED
    BY <2>2
<1>3. ASSUME NEW k \in Nat, k \in G
      PROVE  k + 1 \in G
  <2>1. PICK g : Adds(g, f, D(k))
    BY <1>3
  <2> DEFINE h == [T \in D(k + 1) |-> IF T = {} THEN 0 ELSE f[First(T)] + g[T \ {First(T)}]]
  <2>2. \A T \in D(k + 1) : T # {} => T \ {First(T)} \in D(k)
    <3> SUFFICES ASSUME NEW T \in D(k + 1), T # {}
                 PROVE  T \ {First(T)} \in D(k)
      OBVIOUS
    <3>1. First(T) \in T
      BY DEF First
    <3>2. Cardinality(T \ {First(T)}) = Cardinality(T) - 1
      BY <1>1, <3>1, FS_RemoveElement
    <3> QED
      BY <1>1, <3>1, <3>2
  <2>3. \A T \in D(k) : T \in D(k + 1) /\ g[T] = h[T]
    <3>1. \A T \in D(k) : T \in D(k + 1)
      BY <1>1
    <3> QED
      BY <2>1, <3>1 DEF Adds
  <2>4. Adds(h, f, D(k + 1))
    BY <2>2, <2>3 DEF Adds
  <2>5. k + 1 \in Nat
    OBVIOUS
  <2> HIDE DEF h, D
  <2> QED
    BY <2>4, <2>5
<1>4. Cardinality(S) \in G
  <2> HIDE DEF G
  <2> QED
    BY <1>1, <1>2, <1>3, NumberInduction
<1>5. D(Cardinality(S)) = SUBSET S
  BY <1>1
<1> QED
  BY <1>4, <1>5

(* ... and only one.                                                       *)
LEMMA AddsAgree ==
  ASSUME NEW S, NEW R, IsFiniteSet(S), NEW f, NEW g, NEW h,
         Adds(g, f, SUBSET S), Adds(h, f, SUBSET R), NEW U, U \subseteq S, U \subseteq R
  PROVE  g[U] = h[U]
<1> DEFINE G == {T \in SUBSET U : g[T] = h[T]}
<1>0. IsFiniteSet(U)
  BY FS_Subset
<1>1. {} \in G
  BY DEF Adds
<1>2. ASSUME NEW T \in SUBSET U, T # {}, \A x \in T : T \ {x} \in G
      PROVE  T \in G
  <2>1. First(T) \in T
    BY <1>2 DEF First
  <2>2. /\ g[T] = f[First(T)] + g[T \ {First(T)}]
        /\ h[T] = f[First(T)] + h[T \ {First(T)}]
    BY <1>2 DEF Adds
  <2> QED
    BY <1>2, <2>1, <2>2
<1> HIDE DEF G
<1>3. \A T \in SUBSET U : T \in G
  BY <1>0, <1>1, <1>2, SubsetInduction
<1> QED
  BY <1>3 DEF G

LEMMA SumIsAdds ==
  ASSUME NEW S, IsFiniteSet(S), NEW f
  PROVE  \E g : Adds(g, f, SUBSET S) /\ SumFunctionOnSet(f, S) = g[S]
<1>1. \E g : Adds(g, f, SUBSET S)
  BY AddsExists
<1>2. SumFunctionOnSet(f, S) = (CHOOSE g : Adds(g, f, SUBSET S))[S]
  BY DEF SumFunctionOnSet, FoldFunctionOnSet, MapThenFoldSet, Adds, First
<1> QED
  BY <1>1, <1>2

(* A sum over nothing.                                                     *)
LEMMA SumEmpty ==
  ASSUME NEW f
  PROVE  SumFunctionOnSet(f, {}) = 0
BY SumIsAdds, FS_EmptySet DEF Adds

LEMMA SumStep ==
  ASSUME NEW S, IsFiniteSet(S), S # {}, NEW f
  PROVE  SumFunctionOnSet(f, S) = f[First(S)] + SumFunctionOnSet(f, S \ {First(S)})
<1> DEFINE R == S \ {First(S)}
<1>1. PICK g : Adds(g, f, SUBSET S) /\ SumFunctionOnSet(f, S) = g[S]
  BY SumIsAdds
<1>2. IsFiniteSet(R) /\ R \subseteq S
  BY FS_RemoveElement
<1>3. PICK h : Adds(h, f, SUBSET R) /\ SumFunctionOnSet(f, R) = h[R]
  BY <1>2, SumIsAdds
<1>4. g[R] = h[R]
  <2> HIDE DEF R
  <2> QED
    BY <1>1, <1>2, <1>3, AddsAgree
<1>5. g[S] = f[First(S)] + g[R]
  BY <1>1 DEF Adds
<1> QED
  BY <1>1, <1>3, <1>4, <1>5

(* A sum of integers is one, and one of natural numbers is one.            *)
LEMMA SumType ==
  ASSUME NEW S, IsFiniteSet(S), NEW f, NEW N \in {Int, Nat}, \A x \in S : f[x] \in N
  PROVE  SumFunctionOnSet(f, S) \in N
<1> DEFINE G == {T \in SUBSET S : SumFunctionOnSet(f, T) \in N}
<1>1. {} \in G
  BY SumEmpty
<1>2. ASSUME NEW T \in SUBSET S, T # {}, \A x \in T : T \ {x} \in G
      PROVE  T \in G
  <2>1. First(T) \in T /\ IsFiniteSet(T)
    BY <1>2, FS_Subset DEF First
  <2>2. SumFunctionOnSet(f, T) = f[First(T)] + SumFunctionOnSet(f, T \ {First(T)})
    BY <1>2, <2>1, SumStep
  <2>3. f[First(T)] \in N /\ SumFunctionOnSet(f, T \ {First(T)}) \in N
    BY <1>2, <2>1
  <2>4. SumFunctionOnSet(f, T) \in N
    BY <2>2, <2>3
  <2> QED
    BY <2>4
<1> HIDE DEF G
<1>3. \A T \in SUBSET S : T \in G
  BY <1>1, <1>2, SubsetInduction
<1> QED
  BY <1>3 DEF G

(* The elements may be added up in any order.                              *)
LEMMA SumRemove ==
  ASSUME NEW S, IsFiniteSet(S), NEW f, \A y \in S : f[y] \in Int, NEW x \in S
  PROVE  SumFunctionOnSet(f, S) = f[x] + SumFunctionOnSet(f, S \ {x})
<1> DEFINE Sum(T) == SumFunctionOnSet(f, T)
           G == {T \in SUBSET S : \A z \in T : Sum(T) = f[z] + Sum(T \ {z})}
<1>1. {} \in G
  OBVIOUS
<1>2. ASSUME NEW T \in SUBSET S, T # {}, \A y \in T : T \ {y} \in G, NEW z \in T
      PROVE  Sum(T) = f[z] + Sum(T \ {z})
  <2>1. PICK c : c = First(T)
    OBVIOUS
  <2>2. c \in T /\ IsFiniteSet(T)
    BY <1>2, <2>1, FS_Subset DEF First
  <2>3. Sum(T) = f[c] + Sum(T \ {c})
    BY <1>2, <2>1, <2>2, SumStep
  <2>4. CASE c = z
    BY <2>3, <2>4
  <2>5. CASE c # z
    <3>1. Sum(T \ {c}) = f[z] + Sum((T \ {c}) \ {z})
      BY <1>2, <2>2, <2>5
    <3>2. Sum(T \ {z}) = f[c] + Sum((T \ {z}) \ {c})
      BY <1>2, <2>2, <2>5
    <3>3. (T \ {z}) \ {c} = (T \ {c}) \ {z} /\ IsFiniteSet((T \ {c}) \ {z})
      BY <2>2, FS_RemoveElement
    <3>4. PICK w \in Int : w = Sum((T \ {c}) \ {z})
      BY <3>3, SumType
    <3>5. Sum(T \ {c}) = f[z] + w /\ Sum(T \ {z}) = f[c] + w
      BY <3>1, <3>2, <3>3, <3>4
    <3>6. f[z] \in Int /\ f[c] \in Int
      BY <2>2
    <3> QED
      BY <2>3, <3>5, <3>6
  <2> QED
    BY <2>4, <2>5
<1>3. \A T \in SUBSET S : T # {} /\ (\A y \in T : T \ {y} \in G) => T \in G
  BY <1>2
<1> HIDE DEF G
<1>4. \A T \in SUBSET S : T \in G
  BY <1>1, <1>3, SubsetInduction
<1> QED
  BY <1>4 DEF G

LEMMA SumAdd ==
  ASSUME NEW S, IsFiniteSet(S), NEW f, NEW x, x \notin S, f[x] \in Int,
         \A y \in S : f[y] \in Int
  PROVE  SumFunctionOnSet(f, S \cup {x}) = f[x] + SumFunctionOnSet(f, S)
<1>1. IsFiniteSet(S \cup {x}) /\ (S \cup {x}) \ {x} = S
  BY FS_AddElement
<1> QED
  BY <1>1, SumRemove

(* Functions that agree on a set have the same sum over it.                *)
LEMMA SumSame ==
  ASSUME NEW S, IsFiniteSet(S), NEW f, NEW g, \A y \in S : f[y] = g[y]
  PROVE  SumFunctionOnSet(f, S) = SumFunctionOnSet(g, S)
<1> DEFINE G == {T \in SUBSET S : SumFunctionOnSet(f, T) = SumFunctionOnSet(g, T)}
<1>1. {} \in G
  BY SumEmpty
<1>2. ASSUME NEW T \in SUBSET S, T # {}, \A x \in T : T \ {x} \in G
      PROVE  T \in G
  <2>1. First(T) \in T /\ IsFiniteSet(T)
    BY <1>2, FS_Subset DEF First
  <2>2. /\ SumFunctionOnSet(f, T) = f[First(T)] + SumFunctionOnSet(f, T \ {First(T)})
        /\ SumFunctionOnSet(g, T) = g[First(T)] + SumFunctionOnSet(g, T \ {First(T)})
    BY <1>2, <2>1, SumStep
  <2>3. SumFunctionOnSet(f, T \ {First(T)}) = SumFunctionOnSet(g, T \ {First(T)})
    BY <1>2, <2>1
  <2>4. SumFunctionOnSet(f, T) = SumFunctionOnSet(g, T)
    BY <2>1, <2>2, <2>3
  <2> QED
    BY <2>4
<1> HIDE DEF G
<1>3. \A T \in SUBSET S : T \in G
  BY <1>1, <1>2, SubsetInduction
<1> QED
  BY <1>3 DEF G

(* A change of one summand changes the sum by as much.                     *)
LEMMA SumChange ==
  ASSUME NEW S, IsFiniteSet(S), NEW f, NEW g, NEW x \in S,
         \A y \in S : f[y] \in Int, g[x] \in Int,
         \A y \in S \ {x} : g[y] = f[y]
  PROVE  SumFunctionOnSet(g, S) = SumFunctionOnSet(f, S) + g[x] - f[x]
<1>1. IsFiniteSet(S \ {x}) /\ \A y \in S : g[y] \in Int
  BY FS_RemoveElement
<1>2. SumFunctionOnSet(g, S \ {x}) = SumFunctionOnSet(f, S \ {x})
  BY <1>1, SumSame
<1>3. SumFunctionOnSet(f, S \ {x}) \in Int
  BY <1>1, SumType
<1>4. /\ SumFunctionOnSet(f, S) = f[x] + SumFunctionOnSet(f, S \ {x})
      /\ SumFunctionOnSet(g, S) = g[x] + SumFunctionOnSet(g, S \ {x})
  BY <1>1, SumRemove
<1>5. f[x] \in Int /\ g[x] \in Int
  OBVIOUS
<1> QED
  BY <1>2, <1>3, <1>4, <1>5

(* The same for the total of a function, over its own domain.              *)
LEMMA TotalSame ==
  ASSUME NEW f, NEW S, IsFiniteSet(S), DOMAIN f = S, NEW g, \A y \in S : f[y] = g[y]
  PROVE  SumFunction(f) = SumFunctionOnSet(g, S)
BY SumSame DEF SumFunction

-----------------------------------------------------------------------------
(***************************************************************************)
(* FIFOs: the shares of a prefix, the entries at some positions, and what  *)
(* is left when shares are taken from the front.                           *)
(***************************************************************************)

(* Shares add up entry by entry.                                           *)
LEMMA SharesStep ==
  ASSUME NEW fifo, NEW n \in Nat, \A i \in 1 .. n : fifo[i].qty \in Int
  PROVE  /\ Shares(fifo, 0) = 0
         /\ \A k \in 0 .. n : Shares(fifo, k) \in Int
         /\ \A k \in 1 .. n : Shares(fifo, k) = Shares(fifo, k - 1) + fifo[k].qty
<1> DEFINE f(k) == [i \in 1 .. k |-> fifo[i].qty]
<1>1. \A k \in 0 .. n : /\ IsFiniteSet(1 .. k)
                        /\ Shares(fifo, k) = SumFunctionOnSet(f(n), 1 .. k)
  <2> SUFFICES ASSUME NEW k \in 0 .. n
               PROVE  IsFiniteSet(1 .. k) /\ Shares(fifo, k) = SumFunctionOnSet(f(n), 1 .. k)
    OBVIOUS
  <2>0. 1 \in Int /\ k \in Int
    OBVIOUS
  <2>1. IsFiniteSet(1 .. k)
    BY <2>0, FS_Interval
  <2>2. DOMAIN f(k) = 1 .. k /\ \A y \in 1 .. k : f(k)[y] = f(n)[y]
    OBVIOUS
  <2>3. Shares(fifo, k) = SumFunction(f(k))
    BY DEF Shares
  <2> HIDE DEF f
  <2> QED
    BY <2>1, <2>2, <2>3, TotalSame
<1>2. ASSUME NEW k \in 0 .. n PROVE Shares(fifo, k) \in Int
  <2>1. \A x \in 1 .. k : f(n)[x] \in Int
    OBVIOUS
  <2> HIDE DEF f
  <2> QED
    BY <1>1, <2>1, SumType
<1>3. ASSUME NEW k \in 1 .. n PROVE Shares(fifo, k) = Shares(fifo, k - 1) + fifo[k].qty
  <2>1. /\ k - 1 \in 0 .. n /\ k \in 0 .. n /\ 1 .. k = (1 .. k - 1) \cup {k}
        /\ k \notin 1 .. k - 1 /\ f(n)[k] = fifo[k].qty
        /\ f(n)[k] \in Int /\ \A y \in 1 .. k - 1 : f(n)[y] \in Int
    OBVIOUS
  <2> HIDE DEF f
  <2>2. SumFunctionOnSet(f(n), (1 .. k - 1) \cup {k})
          = f(n)[k] + SumFunctionOnSet(f(n), 1 .. k - 1)
    BY <1>1, <2>1, SumAdd
  <2>3. Shares(fifo, k) = fifo[k].qty + Shares(fifo, k - 1)
    BY <1>1, <2>1, <2>2
  <2> QED
    BY <1>2, <2>1, <2>3
<1>4. Shares(fifo, 0) = 0
  <2>1. 1 .. 0 = {}
    OBVIOUS
  <2> HIDE DEF f
  <2> QED
    BY <1>1, <2>1, SumEmpty
<1> QED
  BY <1>2, <1>3, <1>4

(* FIFOs with the same quantities have the same shares.                    *)
LEMMA SharesSame ==
  ASSUME NEW f, NEW g, NEW n \in Nat, \A i \in 1 .. n : f[i].qty = g[i].qty
  PROVE  Shares(f, n) = Shares(g, n)
<1>1. [i \in 1 .. n |-> f[i].qty] = [i \in 1 .. n |-> g[i].qty]
  OBVIOUS
<1> QED
  BY <1>1 DEF Shares

(* Of positive quantities, a longer prefix has more shares.                *)
LEMMA SharesGrow ==
  ASSUME NEW fifo, NEW n \in Nat, \A i \in 1 .. n : fifo[i].qty \in Nat \ {0}
  PROVE  \A j, k \in 0 .. n : j < k => Shares(fifo, j) < Shares(fifo, k)
<1> DEFINE G == {k \in Nat : k <= n => \A j \in 0 .. k - 1 : Shares(fifo, j) < Shares(fifo, k)}
<1>1. 0 \in G
  OBVIOUS
<1>2. ASSUME NEW k \in Nat, k \in G PROVE k + 1 \in G
  <2> SUFFICES ASSUME k + 1 <= n, NEW j \in 0 .. k
               PROVE  Shares(fifo, j) < Shares(fifo, k + 1)
    OBVIOUS
  <2>1. /\ Shares(fifo, k + 1) = Shares(fifo, k) + fifo[k + 1].qty
        /\ Shares(fifo, k) \in Int /\ Shares(fifo, j) \in Int
        /\ fifo[k + 1].qty \in Nat \ {0}
    BY SharesStep
  <2>2. j = k \/ Shares(fifo, j) < Shares(fifo, k)
    BY <1>2
  <2> QED
    BY <2>1, <2>2
<1> HIDE DEF G
<1>3. \A k \in Nat : k \in G
  BY <1>1, <1>2, NumberInduction
<1> QED
  BY <1>3 DEF G

(* g is what the recursion of EntriesAt defines for the first n entries.   *)
Selects(g, fifo, D, n) ==
  g = [m \in 0 .. n |-> IF m = 0 THEN <<>>
                        ELSE IF m \in D THEN Append(g[m - 1], fifo[m]) ELSE g[m - 1]]

LEMMA SelectsExists ==
  ASSUME NEW fifo, NEW D
  PROVE  \A n \in Nat : \E g : Selects(g, fifo, D, n)
<1> DEFINE G == {n \in Nat : \E g : Selects(g, fifo, D, n)}
<1>1. 0 \in G
  <2>1. Selects([m \in {0} |-> <<>>], fifo, D, 0)
    BY DEF Selects
  <2> QED
    BY <2>1
<1>2. ASSUME NEW n \in Nat, n \in G PROVE n + 1 \in G
  <2>1. PICK g : Selects(g, fifo, D, n)
    BY <1>2
  <2> DEFINE h == [m \in 0 .. n + 1 |->
                    IF m = 0 THEN <<>>
                    ELSE IF m \in D THEN Append(g[m - 1], fifo[m]) ELSE g[m - 1]]
  <2>0. /\ \A m \in 0 .. n : m \in 0 .. n + 1
        /\ \A m \in 0 .. n + 1 : m # 0 => m - 1 \in 0 .. n
    OBVIOUS
  <2>1a. \A m \in 0 .. n : g[m] = IF m = 0 THEN <<>>
                                  ELSE IF m \in D THEN Append(g[m - 1], fifo[m]) ELSE g[m - 1]
    BY <2>1, Zenon DEF Selects
  <2>2. \A m \in 0 .. n : h[m] = g[m]
    BY <2>0, <2>1a, Zenon
  <2>3. \A m \in 0 .. n + 1 :
          IF m = 0 THEN TRUE ELSE h[m - 1] = g[m - 1]
    BY <2>0, <2>2, Zenon
  <2>4. Selects(h, fifo, D, n + 1)
    BY <2>3, Zenon DEF Selects
  <2> QED
    BY <2>4
<1> HIDE DEF G
<1>3. \A n \in Nat : n \in G
  BY <1>1, <1>2, NumberInduction
<1> QED
  BY <1>3 DEF G

LEMMA SelectsStep ==
  ASSUME NEW fifo, NEW D, NEW n \in Nat, NEW g, Selects(g, fifo, D, n)
  PROVE  /\ g[0] = <<>>
         /\ \A m \in 1 .. n :
              g[m] = IF m \in D THEN Append(g[m - 1], fifo[m]) ELSE g[m - 1]
<1>1. \A m \in 0 .. n : g[m] = IF m = 0 THEN <<>>
                               ELSE IF m \in D THEN Append(g[m - 1], fifo[m]) ELSE g[m - 1]
  BY Zenon DEF Selects
<1>2. 0 \in 0 .. n /\ \A m \in 1 .. n : m \in 0 .. n /\ m # 0
  OBVIOUS
<1> QED
  BY <1>1, <1>2, Zenon

(* The recursion depends on the prefix only.                               *)
LEMMA SelectsAgree ==
  ASSUME NEW f, NEW g, NEW C, NEW D, NEW n \in Nat, NEW m \in Nat, NEW k \in Nat,
         k <= n, k <= m, NEW v, NEW w, Selects(v, f, C, n), Selects(w, g, D, m),
         \A i \in 1 .. k : f[i] = g[i] /\ (i \in C <=> i \in D)
  PROVE  v[k] = w[k]
<1> DEFINE G == {j \in Nat : j <= k => v[j] = w[j]}
<1>1. 0 \in G
  <2>1. PICK z : z = <<>>
    OBVIOUS
  <2>2. v[0] = z /\ w[0] = z
    BY <2>1, SelectsStep
  <2> QED
    BY <2>2
<1>2. ASSUME NEW j \in Nat, j \in G PROVE j + 1 \in G
  <2> SUFFICES ASSUME j + 1 <= k PROVE v[j + 1] = w[j + 1]
    OBVIOUS
  <2>1. v[j] = w[j] /\ j + 1 \in 1 .. n /\ j + 1 \in 1 .. m /\ j + 1 \in 1 .. k
        /\ j + 1 - 1 = j
    BY <1>2
  <2>2. /\ v[j + 1] = IF j + 1 \in C THEN Append(v[j], f[j + 1]) ELSE v[j]
        /\ w[j + 1] = IF j + 1 \in D THEN Append(w[j], g[j + 1]) ELSE w[j]
    BY <2>1, SelectsStep
  <2> QED
    BY <2>1, <2>2
<1> HIDE DEF G
<1>3. \A j \in Nat : j \in G
  BY <1>1, <1>2, NumberInduction
<1> QED
  BY <1>3 DEF G

LEMMA EntriesAtSelects ==
  ASSUME NEW fifo, Len(fifo) \in Nat, NEW D
  PROVE  \E g : Selects(g, fifo, D, Len(fifo)) /\ EntriesAt(fifo, D) = g[Len(fifo)]
<1>1. \E g : Selects(g, fifo, D, Len(fifo))
  BY SelectsExists
<1>2. EntriesAt(fifo, D) = (CHOOSE g : Selects(g, fifo, D, Len(fifo)))[Len(fifo)]
  BY DEF EntriesAt, Selects
<1> QED
  BY <1>1, <1>2

(* An entry added at the end comes last, if it is wanted.                  *)
LEMMA EntriesAtAppend ==
  ASSUME NEW E, NEW f \in Seq(E), NEW x \in E, NEW C, NEW D,
         \A i \in 1 .. Len(f) : i \in C <=> i \in D
  PROVE  EntriesAt(Append(f, x), D)
           = IF Len(f) + 1 \in D THEN Append(EntriesAt(f, C), x) ELSE EntriesAt(f, C)
<1> DEFINE g == Append(f, x)
<1>1. /\ Len(f) \in Nat /\ Len(g) = Len(f) + 1 /\ g[Len(f) + 1] = x
      /\ \A i \in 1 .. Len(f) : g[i] = f[i]
  OBVIOUS
<1> HIDE DEF g
<1>2. PICK v : Selects(v, f, C, Len(f)) /\ EntriesAt(f, C) = v[Len(f)]
  BY <1>1, EntriesAtSelects
<1>3. PICK w : Selects(w, g, D, Len(g)) /\ EntriesAt(g, D) = w[Len(g)]
  BY <1>1, EntriesAtSelects
<1>4. v[Len(f)] = w[Len(f)]
  <2>1. PICK n, m, a, b : n = Len(f) /\ m = Len(g) /\ a = f /\ b = g
    OBVIOUS
  <2>2. /\ n \in Nat /\ m \in Nat /\ n <= m /\ n <= n
        /\ Selects(v, a, C, n) /\ Selects(w, b, D, m)
        /\ \A i \in 1 .. n : a[i] = b[i] /\ (i \in C <=> i \in D)
    BY <1>1, <1>2, <1>3, <2>1
  <2>3. v[n] = w[n]
    BY <2>2, SelectsAgree
  <2> QED
    BY <2>1, <2>3
<1>5. w[Len(g)] = IF Len(g) \in D THEN Append(w[Len(g) - 1], g[Len(g)]) ELSE w[Len(g) - 1]
  BY <1>1, <1>3, SelectsStep
<1>6. Len(g) - 1 = Len(f)
  BY <1>1
<1> QED
  BY <1>1, <1>2, <1>3, <1>4, <1>5, <1>6 DEF g

LEMMA EntriesAtEmpty ==
  ASSUME NEW D
  PROVE  EntriesAt(<<>>, D) = <<>>
<1>1. PICK g : Selects(g, <<>>, D, 0) /\ EntriesAt(<<>>, D) = g[0]
  BY EntriesAtSelects
<1> QED
  BY <1>1, SelectsStep

(* w says where in f the entries of k, which are those of its first n that *)
(* are at positions in D, come from.                                       *)
Positions(w, k, f, D, n) ==
  /\ w \in [1 .. Len(k) -> {i \in 1 .. n : i \in D}]
  /\ \A j \in 1 .. Len(k) : k[j] = f[w[j]]
  /\ \A i, j \in 1 .. Len(k) : i < j => w[i] < w[j]
  /\ \A i \in 1 .. n : i \in D => \E j \in 1 .. Len(k) : w[j] = i

LEMMA EntriesAtPositions ==
  ASSUME NEW E, NEW f \in Seq(E), NEW D
  PROVE  /\ EntriesAt(f, D) \in Seq(E)
         /\ \E w : Positions(w, EntriesAt(f, D), f, D, Len(f))
<1>1. Len(f) \in Nat /\ \A i \in 1 .. Len(f) : f[i] \in E
  OBVIOUS
<1>2. PICK g : Selects(g, f, D, Len(f)) /\ EntriesAt(f, D) = g[Len(f)]
  BY <1>1, EntriesAtSelects
<1>2a. PICK l \in Nat : l = Len(f)
  BY <1>1
<1>2b. Selects(g, f, D, l)
  BY <1>2, <1>2a
<1>2c. g[0] = <<>>
  BY <1>2b, SelectsStep
<1> DEFINE G == {n \in Nat : n <= Len(f) =>
                    g[n] \in Seq(E) /\ \E w : Positions(w, g[n], f, D, n)}
<1>3. 0 \in G
  <2>1. <<>> \in Seq(E) /\ Positions(<<>>, <<>>, f, D, 0)
    BY DEF Positions
  <2> QED
    BY <1>2c, <2>1
<1>4. ASSUME NEW n \in Nat, n \in G PROVE n + 1 \in G
  <2> SUFFICES ASSUME n + 1 <= Len(f)
               PROVE  g[n + 1] \in Seq(E) /\ \E w : Positions(w, g[n + 1], f, D, n + 1)
    OBVIOUS
  <2>1. /\ n + 1 \in 1 .. Len(f) /\ n + 1 - 1 = n /\ f[n + 1] \in E
        /\ g[n] \in Seq(E) /\ \E w : Positions(w, g[n], f, D, n)
    BY <1>1, <1>4
  <2>2. PICK w : Positions(w, g[n], f, D, n)
    BY <2>1
  <2>3. PICK k \in Seq(E) : k = g[n]
    BY <2>1
  <2>4. g[n + 1] = IF n + 1 \in D THEN Append(k, f[n + 1]) ELSE k
    BY <1>1, <1>2, <2>1, <2>3, SelectsStep
  <2>5. Positions(w, k, f, D, n)
    BY <2>2, <2>3
  <2>6. CASE n + 1 \in D
    <3> DEFINE h == Append(k, f[n + 1])
               v == [j \in 1 .. Len(k) + 1 |-> IF j <= Len(k) THEN w[j] ELSE n + 1]
    <3>1. /\ h \in Seq(E) /\ Len(h) = Len(k) + 1 /\ Len(k) \in Nat /\ h[Len(k) + 1] = f[n + 1]
          /\ \A j \in 1 .. Len(k) : h[j] = k[j]
      BY <2>1
    <3> HIDE DEF h
    <3>2. \A j \in 1 .. Len(k) : w[j] \in 1 .. n /\ w[j] \in D
      BY <2>5 DEF Positions
    <3>3. v \in [1 .. Len(h) -> {i \in 1 .. n + 1 : i \in D}]
      BY <2>6, <3>1, <3>2
    <3>4. \A j \in 1 .. Len(h) : h[j] = f[v[j]]
      BY <2>5, <3>1 DEF Positions
    <3>5. \A i, j \in 1 .. Len(h) : i < j => v[i] < v[j]
      BY <2>5, <3>1, <3>2 DEF Positions
    <3>6. ASSUME NEW i \in 1 .. n + 1, i \in D PROVE \E j \in 1 .. Len(h) : v[j] = i
      <4>1. CASE i = n + 1
        <5>1. Len(k) + 1 \in 1 .. Len(h) /\ v[Len(k) + 1] = n + 1
          BY <3>1
        <5> QED
          BY <4>1, <5>1
      <4>2. CASE i # n + 1
        <5>1. PICK j \in 1 .. Len(k) : w[j] = i
          BY <2>5, <3>6, <4>2 DEF Positions
        <5>2. j \in 1 .. Len(h) /\ v[j] = i
          BY <3>1, <5>1
        <5> QED
          BY <5>2
      <4> QED
        BY <4>1, <4>2
    <3>7. Positions(v, h, f, D, n + 1)
      BY <3>3, <3>4, <3>5, <3>6 DEF Positions
    <3> QED
      BY <2>4, <2>6, <3>1, <3>7 DEF h
  <2>7. CASE n + 1 \notin D
    <3>1. {i \in 1 .. n + 1 : i \in D} = {i \in 1 .. n : i \in D}
      BY <2>7
    <3>2. \A i \in 1 .. n + 1 : i \in D => i \in 1 .. n
      BY <2>7
    <3>3. Positions(w, k, f, D, n + 1)
      BY <2>5, <3>1, <3>2 DEF Positions
    <3> QED
      BY <2>4, <2>7, <3>3
  <2> QED
    BY <2>6, <2>7
<1> HIDE DEF G
<1>5. \A n \in Nat : n \in G
  BY <1>3, <1>4, NumberInduction
<1>6. g[Len(f)] \in Seq(E) /\ \E w : Positions(w, g[Len(f)], f, D, Len(f))
  BY <1>1, <1>5 DEF G
<1> QED
  BY <1>2, <1>6

(* Induction over sequences, for the set G of those that satisfy what is   *)
(* to be proved.                                                           *)
LEMMA SeqInduction ==
  ASSUME NEW E, NEW G, <<>> \in G, \A f \in Seq(E), x \in E : f \in G => Append(f, x) \in G
  PROVE  \A f \in Seq(E) : f \in G
<1> DEFINE H == {n \in Nat : \A f \in Seq(E) : Len(f) = n => f \in G}
<1>1. 0 \in H
  OBVIOUS
<1>2. ASSUME NEW n \in Nat, n \in H PROVE n + 1 \in H
  <2> SUFFICES ASSUME NEW f \in Seq(E), Len(f) = n + 1 PROVE f \in G
    OBVIOUS
  <2> DEFINE front == [i \in 1 .. n |-> f[i]]
  <2>1. front \in Seq(E) /\ Len(front) = n /\ f[n + 1] \in E
    OBVIOUS
  <2>2. f = Append(front, f[n + 1])
    OBVIOUS
  <2>3. front \in G
    BY <1>2, <2>1
  <2> HIDE DEF front
  <2> QED
    BY <2>1, <2>2, <2>3
<1> HIDE DEF H
<1>3. \A n \in Nat : n \in H
  BY <1>1, <1>2, NumberInduction
<1> QED
  BY <1>3 DEF H

\* Entries, of orders with ids in Ids, as they rest: never empty.
Entries(Ids) == [id : Ids, qty : Nat \ {0}]

LEMMA FifoEntries ==
  ASSUME NEW Ids, NEW f \in Seq(Entries(Ids))
  PROVE  \A i \in 1 .. Len(f) : /\ f[i] \in Entries(Ids)
                                /\ f[i] = [id |-> f[i].id, qty |-> f[i].qty]
<1>1. \A i \in 1 .. Len(f) : f[i] \in Entries(Ids)
  OBVIOUS
<1>2. \A e \in Entries(Ids) : e = [id |-> e.id, qty |-> e.qty]
  BY DEF Entries
<1> QED
  BY <1>1, <1>2

LEMMA FifoShares ==
  ASSUME NEW Ids, NEW f \in Seq(Entries(Ids))
  PROVE  /\ Len(f) \in Nat /\ DOMAIN f = 1 .. Len(f)
         /\ \A i \in 1 .. Len(f) : f[i].qty \in Nat \ {0} /\ f[i].id \in Ids
         /\ Shares(f, 0) = 0
         /\ \A k \in 0 .. Len(f) : Shares(f, k) \in Nat
         /\ \A k \in 1 .. Len(f) : Shares(f, k) = Shares(f, k - 1) + f[k].qty
         /\ Volume(f) \in Nat
         /\ Volume(f) = 0 <=> f = <<>>
<1>0. PICK n \in Nat : n = Len(f)
  OBVIOUS
<1>1. PICK g : n = Len(f) /\ g = f
  BY <1>0
<1>2. /\ \A i \in 1 .. n : /\ g[i].qty \in Nat \ {0} /\ g[i].qty \in Int
                           /\ g[i].id \in Ids
      /\ DOMAIN f = 1 .. Len(f)
  <2>1. /\ \A i \in 1 .. n : g[i] \in Entries(Ids)
        /\ DOMAIN f = 1 .. Len(f)
    BY <1>1
  <2>2. \A e \in Entries(Ids) : /\ e.qty \in Nat \ {0} /\ e.qty \in Int
                                /\ e.id \in Ids
    BY DEF Entries
  <2> QED
    BY <2>1, <2>2
<1>2a. \A i \in 1 .. n : g[i].qty \in Int
  BY <1>2, Zenon
<1>3. /\ Shares(g, 0) = 0
      /\ \A k \in 0 .. n : Shares(g, k) \in Int
      /\ \A k \in 1 .. n : Shares(g, k) = Shares(g, k - 1) + g[k].qty
  BY <1>2a, SharesStep
<1>4. \A j, k \in 0 .. n : j < k => Shares(g, j) < Shares(g, k)
  BY <1>2, SharesGrow
<1>5. \A k \in 0 .. n : Shares(g, k) \in Nat
  BY <1>3, <1>4
<1>6. Shares(g, n) = 0 <=> n = 0
  BY <1>3, <1>4
<1>7. n = 0 <=> f = <<>>
  BY <1>1
<1> QED
  BY <1>1, <1>2, <1>3, <1>5, <1>6, <1>7 DEF Volume

LEMMA VolumeAppend ==
  ASSUME NEW Ids, NEW f \in Seq(Entries(Ids)), NEW x \in Entries(Ids)
  PROVE  Volume(Append(f, x)) = Volume(f) + x.qty
<1> DEFINE g == Append(f, x)
<1>1. /\ g \in Seq(Entries(Ids)) /\ Len(g) = Len(f) + 1 /\ Len(f) \in Nat
      /\ g[Len(f) + 1] = x /\ \A i \in 1 .. Len(f) : g[i] = f[i]
  OBVIOUS
<1> HIDE DEF g
<1>2. Shares(g, Len(f) + 1) = Shares(g, Len(f) + 1 - 1) + x.qty
  <2>1. \A k \in 1 .. Len(g) : Shares(g, k) = Shares(g, k - 1) + g[k].qty
    BY <1>1, FifoShares
  <2> QED
    BY <1>1, <2>1
<1>3. Shares(g, Len(f)) = Shares(f, Len(f))
  <2>0. PICK n \in Nat : n = Len(f)
    BY <1>1
  <2>1. PICK a, b : n = Len(f) /\ a = f /\ b = g
    BY <2>0
  <2>2. \A i \in 1 .. n : b[i].qty = a[i].qty
    BY <1>1, <2>1
  <2>3. Shares(b, n) = Shares(a, n)
    BY <2>2, SharesSame
  <2> QED
    BY <2>1, <2>3
<1>4. Len(f) + 1 - 1 = Len(f)
  BY <1>1
<1> QED
  BY <1>1, <1>2, <1>3, <1>4 DEF Volume, g

(* The shares of a FIFO are those at some positions and those at the rest. *)
LEMMA VolumeSplit ==
  ASSUME NEW Ids, NEW f \in Seq(Entries(Ids)), NEW C, NEW D,
         \A i \in 1 .. Len(f) : i \in C <=> i \notin D
  PROVE  /\ Volume(EntriesAt(f, C)) \in Nat /\ Volume(EntriesAt(f, D)) \in Nat
         /\ Volume(f) = Volume(EntriesAt(f, C)) + Volume(EntriesAt(f, D))
<1> DEFINE E == Entries(Ids)
           Splits2(h) == \A A, B : (\A i \in 1 .. Len(h) : i \in A <=> i \notin B) =>
                       /\ EntriesAt(h, A) \in Seq(E) /\ EntriesAt(h, B) \in Seq(E)
                       /\ Volume(h) = Volume(EntriesAt(h, A)) + Volume(EntriesAt(h, B))
           G == {h \in Seq(E) : Splits2(h)}
<1>1. <<>> \in G
  <2>1. /\ \A A : EntriesAt(<<>>, A) = <<>>
        /\ <<>> \in Seq(E) /\ Volume(<<>>) = 0
    <3>1. <<>> \in Seq(E)
      OBVIOUS
    <3> HIDE DEF E
    <3> QED
      BY <3>1, EntriesAtEmpty, FifoShares DEF E
  <2>2. Splits2(<<>>)
    <3> HIDE DEF E
    <3>1. PICK z : z = <<>>
      OBVIOUS
    <3>2. /\ \A A : EntriesAt(z, A) = z
          /\ z \in Seq(E) /\ Volume(z) = 0 /\ 0 + 0 = 0
      BY <2>1, <3>1
    <3>3. Splits2(z)
      BY <3>2
    <3> QED
      BY <3>1, <3>3, Zenon
  <2> QED
    BY <2>1, <2>2
<1>2. ASSUME NEW h \in Seq(E), NEW x \in E, h \in G PROVE Append(h, x) \in G
  <2>1. Append(h, x) \in Seq(E) /\ Len(Append(h, x)) = Len(h) + 1 /\ Len(h) \in Nat
    OBVIOUS
  <2>2. ASSUME NEW A, NEW B, \A i \in 1 .. Len(Append(h, x)) : i \in A <=> i \notin B
        PROVE  /\ EntriesAt(Append(h, x), A) \in Seq(E)
               /\ EntriesAt(Append(h, x), B) \in Seq(E)
               /\ Volume(Append(h, x)) = Volume(EntriesAt(Append(h, x), A))
                                         + Volume(EntriesAt(Append(h, x), B))
    <3>1. /\ \A i \in 1 .. Len(h) : i \in A <=> i \notin B
          /\ Len(h) + 1 \in A <=> Len(h) + 1 \notin B
      BY <2>1, <2>2
    <3>2. PICK a, b : a = EntriesAt(h, A) /\ b = EntriesAt(h, B)
      OBVIOUS
    <3>3. a \in Seq(E) /\ b \in Seq(E) /\ Volume(h) = Volume(a) + Volume(b)
      BY <1>2, <3>1, <3>2
    <3>4. /\ EntriesAt(Append(h, x), A) = IF Len(h) + 1 \in A THEN Append(a, x) ELSE a
          /\ EntriesAt(Append(h, x), B) = IF Len(h) + 1 \in B THEN Append(b, x) ELSE b
      BY <3>2, EntriesAtAppend
    <3>5. /\ Volume(Append(h, x)) = Volume(h) + x.qty
          /\ Volume(Append(a, x)) = Volume(a) + x.qty
          /\ Volume(Append(b, x)) = Volume(b) + x.qty
      BY <3>3, VolumeAppend
    <3>6. Append(a, x) \in Seq(E) /\ Append(b, x) \in Seq(E)
      BY <3>3
    <3>7. Volume(a) \in Nat /\ Volume(b) \in Nat
      BY <3>3, FifoShares
    <3>8. x.qty \in Nat
      BY DEF Entries
    <3> QED
      BY <3>1, <3>3, <3>4, <3>5, <3>6, <3>7, <3>8
  <2> QED
    BY <2>1, <2>2
<1> HIDE DEF G
<1>3. f \in G
  BY <1>1, <1>2, SeqInduction
<1>4. Splits2(f)
  BY <1>3 DEF G
<1> QED
  BY <1>4, FifoShares

(* What is left of a FIFO is a suffix of it, whose first entry may have    *)
(* lost a part, and has what was not taken.                                *)
TakenFrom(t, f, n, k) ==
  /\ k \in 1 .. Len(f)
  /\ Len(t) = Len(f) - k + 1
  /\ Shares(f, k - 1) <= n /\ n < Shares(f, k)
  /\ t[1] = [id |-> f[k].id, qty |-> Shares(f, k) - n]
  /\ \A i \in 2 .. Len(t) : t[i] = f[i + k - 1]

LEMMA TakeFrontFacts ==
  ASSUME NEW Ids, NEW f \in Seq(Entries(Ids)), NEW n \in Nat
  PROVE  /\ TakeFront(f, n) \in Seq(Entries(Ids))
         /\ n >= Volume(f) => TakeFront(f, n) = <<>>
         /\ n < Volume(f) => \E k : TakenFrom(TakeFront(f, n), f, n, k)
<1>1. CASE n >= Volume(f)
  BY <1>1, FifoShares DEF TakeFront
<1>2. CASE n < Volume(f)
  <2>0. PICK l \in Nat : l = Len(f)
    OBVIOUS
  <2>1. /\ Shares(f, 0) = 0 /\ \A j \in 0 .. l : Shares(f, j) \in Nat
        /\ \A j \in 1 .. l : /\ Shares(f, j) = Shares(f, j - 1) + f[j].qty
                             /\ f[j].qty \in Nat \ {0} /\ f[j].id \in Ids
        /\ DOMAIN f = 1 .. l /\ n < Shares(f, l)
    BY <1>2, <2>0, FifoShares DEF Volume
  <2>2. \E j \in DOMAIN f : Shares(f, j - 1) <= n /\ n < Shares(f, j)
    <3> DEFINE B == {j \in 0 .. l : n < Shares(f, j)}
    <3>1. B \in SUBSET Nat /\ l \in B
      BY <2>1
    <3>2. PICK j \in B : \A i \in B : j <= i
      <4> HIDE DEF B
      <4> QED
        BY <3>1, LeastNumber
    <3>3. j # 0 /\ j - 1 \in 0 .. l
      BY <2>1, <3>2
    <3>4. j - 1 \notin B
      BY <3>2, <3>3
    <3>5. j \in 1 .. l /\ n < Shares(f, j)
      BY <3>2, <3>3
    <3>6. Shares(f, j - 1) <= n
      BY <2>1, <3>3, <3>4
    <3> QED
      BY <2>1, <3>5, <3>6
  <2>3. PICK k : k = CHOOSE j \in DOMAIN f : Shares(f, j - 1) <= n /\ n < Shares(f, j)
    OBVIOUS
  <2>4. k \in 1 .. l /\ Shares(f, k - 1) <= n /\ n < Shares(f, k)
    BY <2>1, <2>2, <2>3
  <2>5. PICK s : s = SubSeq(f, k, Len(f))
    OBVIOUS
  <2>6. /\ s \in Seq(Entries(Ids)) /\ Len(s) = l - k + 1
        /\ \A i \in 1 .. l - k + 1 : s[i] = f[i + k - 1]
    BY <2>0, <2>4, <2>5
  <2>7. PICK q : q = Shares(f, k) - n
    OBVIOUS
  <2>8. q \in Nat \ {0}
    BY <2>1, <2>4, <2>7
  <2>9. TakeFront(f, n) = [s EXCEPT ![1].qty = q]
    <3>1. ~(n >= Volume(f))
      BY <1>2, <2>0, <2>1 DEF Volume
    <3> QED
      BY <2>3, <2>5, <2>7, <3>1 DEF TakeFront
  <2>10. 1 \in 1 .. Len(s) /\ s[1] = f[k] /\ s[1] = [id |-> f[k].id, qty |-> f[k].qty]
    <3>1. 1 \in 1 .. l - k + 1 /\ 1 + k - 1 = k
      BY <2>4
    <3>2. s[1] = f[k] /\ 1 \in 1 .. Len(s)
      BY <2>6, <3>1
    <3> QED
      BY <2>0, <2>4, <3>2, FifoEntries
  <2> DEFINE e == [id |-> f[k].id, qty |-> q]
  <2>11. e \in Entries(Ids) /\ [s[1] EXCEPT !.qty = q] = e
    BY <2>1, <2>4, <2>8, <2>10 DEF Entries
  <2>12. TakeFront(f, n) = [s EXCEPT ![1] = e]
    BY <2>9, <2>11
  <2> HIDE DEF e
  <2>13. PICK t : t = TakeFront(f, n)
    OBVIOUS
  <2>14. /\ t \in Seq(Entries(Ids)) /\ Len(t) = Len(s) /\ t[1] = e
         /\ \A i \in 2 .. Len(t) : t[i] = s[i]
    BY <2>6, <2>10, <2>11, <2>12, <2>13
  <2>15. \A i \in 2 .. Len(t) : t[i] = f[i + k - 1]
    BY <2>4, <2>6, <2>14
  <2>16. TakenFrom(t, f, n, k)
    BY <2>0, <2>4, <2>6, <2>7, <2>14, <2>15 DEF TakenFrom, e
  <2> QED
    BY <1>2, <2>1, <2>13, <2>14, <2>16, FifoShares
<1>3. Volume(f) \in Nat
  BY FifoShares
<1> QED
  BY <1>1, <1>2, <1>3

(* u counts the summands of f on S as those of g on T.                     *)
Recounts(u, f, S, g, T) ==
  /\ u \in [S -> T]
  /\ \A x, y \in S : u[x] = u[y] => x = y
  /\ \A z \in T : \E x \in S : u[x] = z
  /\ \A x \in S : f[x] = g[u[x]] /\ f[x] \in Int

(* The same summands, counted elsewhere, add up to the same.               *)
LEMMA SumInjection ==
  ASSUME NEW S, IsFiniteSet(S), NEW T, NEW u, NEW f, NEW g, Recounts(u, f, S, g, T)
  PROVE  IsFiniteSet(T) /\ SumFunctionOnSet(f, S) = SumFunctionOnSet(g, T)
<1>0. /\ u \in [S -> T]
      /\ \A x, y \in S : u[x] = u[y] => x = y
      /\ \A z \in T : \E x \in S : u[x] = z
      /\ \A x \in S : f[x] = g[u[x]] /\ f[x] \in Int
  BY DEF Recounts
<1> DEFINE Im(R) == {u[x] : x \in R}
           G == {R \in SUBSET S : /\ IsFiniteSet(Im(R))
                                  /\ SumFunctionOnSet(f, R) = SumFunctionOnSet(g, Im(R))}
<1>1. {} \in G
  <2>1. Im({}) = {}
    OBVIOUS
  <2>2. IsFiniteSet({})
    BY FS_EmptySet
  <2> HIDE DEF Im
  <2> QED
    BY <2>1, <2>2, SumEmpty
<1>2. ASSUME NEW R \in SUBSET S, R # {}, \A x \in R : R \ {x} \in G PROVE R \in G
  <2>1. PICK x \in R : TRUE
    BY <1>2
  <2>2. PICK Q : Q = R \ {x}
    OBVIOUS
  <2>3. Q \in G /\ Q \in SUBSET S /\ x \notin Q /\ x \in S /\ R = Q \cup {x}
    BY <1>2, <2>1, <2>2
  <2>4. IsFiniteSet(Q)
    BY <2>3, FS_Subset
  <2>5. Im(R) = Im(Q) \cup {u[x]} /\ u[x] \notin Im(Q)
    BY <1>0, <2>3
  <2>6. IsFiniteSet(Im(Q)) /\ SumFunctionOnSet(f, Q) = SumFunctionOnSet(g, Im(Q))
    BY <2>3
  <2>7. \A y \in Im(Q) : g[y] \in Int
    BY <1>0, <2>3
  <2>8. g[u[x]] = f[x] /\ f[x] \in Int /\ \A y \in Q : f[y] \in Int
    BY <1>0, <2>3
  <2> HIDE DEF Im
  <2>9. SumFunctionOnSet(f, Q \cup {x}) = f[x] + SumFunctionOnSet(f, Q)
    BY <2>3, <2>4, <2>8, SumAdd
  <2>10. SumFunctionOnSet(g, Im(Q) \cup {u[x]}) = g[u[x]] + SumFunctionOnSet(g, Im(Q))
    BY <2>5, <2>6, <2>7, <2>8, SumAdd
  <2>11. IsFiniteSet(Im(R))
    BY <2>5, <2>6, FS_AddElement
  <2> QED
    BY <2>3, <2>5, <2>6, <2>8, <2>9, <2>10, <2>11
<1>3. Im(S) = T
  BY <1>0
<1> HIDE DEF Im, G
<1>4. \A R \in SUBSET S : R \in G
  BY <1>1, <1>2, SubsetInduction
<1>5. S \in G
  BY <1>4
<1> QED
  BY <1>3, <1>5 DEF G

(* Two FIFOs with the same entries in another order hold the same shares.  *)
LEMMA VolumePermuted ==
  ASSUME NEW Ids, NEW f \in Seq(Entries(Ids)), NEW g \in Seq(Entries(Ids)),
         NEW u \in [1 .. Len(g) -> 1 .. Len(f)],
         \A i, j \in 1 .. Len(g) : u[i] = u[j] => i = j,
         \A k \in 1 .. Len(f) : \E i \in 1 .. Len(g) : u[i] = k,
         \A i \in 1 .. Len(g) : g[i].qty = f[u[i]].qty
  PROVE  Volume(g) = Volume(f)
<1>1. PICK n \in Nat, m \in Nat : n = Len(f) /\ m = Len(g)
  OBVIOUS
<1>2. PICK a, b : a = [i \in 1 .. m |-> g[i].qty] /\ b = [i \in 1 .. n |-> f[i].qty]
  OBVIOUS
<1>3. Volume(g) = SumFunction(a) /\ Volume(f) = SumFunction(b)
  BY <1>1, <1>2, Zenon DEF Volume, Shares
<1>4. IsFiniteSet(1 .. m) /\ IsFiniteSet(1 .. n)
  BY <1>1, FS_Interval
<1>5. SumFunction(a) = SumFunctionOnSet(a, 1 .. m) /\ SumFunction(b) = SumFunctionOnSet(b, 1 .. n)
  <2>1. DOMAIN a = 1 .. m /\ DOMAIN b = 1 .. n
    BY <1>2, Zenon
  <2> QED
    BY <1>4, <2>1, TotalSame
<1>6. /\ u \in [1 .. m -> 1 .. n] /\ \A i, j \in 1 .. m : u[i] = u[j] => i = j
      /\ \A k \in 1 .. n : \E i \in 1 .. m : u[i] = k
  BY <1>1
<1>7. \A i \in 1 .. m : a[i] = b[u[i]] /\ a[i] \in Int
  <2> SUFFICES ASSUME NEW i \in 1 .. m PROVE a[i] = b[u[i]] /\ a[i] \in Int
    OBVIOUS
  <2>1. u[i] \in 1 .. n
    BY <1>6
  <2>2. a[i] = g[i].qty /\ b[u[i]] = f[u[i]].qty
    BY <1>2, <2>1, Zenon
  <2>3. g[i].qty = f[u[i]].qty
    BY <1>1, Zenon
  <2>4. g[i].qty \in Nat
    <3>1. \A k \in 1 .. Len(g) : g[k].qty \in Nat \ {0}
      BY FifoShares
    <3> QED
      BY <1>1, <3>1
  <2> QED
    BY <2>2, <2>3, <2>4
<1>8. SumFunctionOnSet(a, 1 .. m) = SumFunctionOnSet(b, 1 .. n)
  <2>1. Recounts(u, a, 1 .. m, b, 1 .. n)
    BY <1>6, <1>7 DEF Recounts
  <2> QED
    BY <1>4, <2>1, SumInjection
<1> QED
  BY <1>3, <1>5, <1>8

(* What is left after n shares are taken is n shares less.                 *)
LEMMA VolumeTaken ==
  ASSUME NEW Ids, NEW f \in Seq(Entries(Ids)), NEW t \in Seq(Entries(Ids)), NEW n \in Nat,
         NEW k, TakenFrom(t, f, n, k)
  PROVE  Volume(t) = Volume(f) - n
<1>0. PICK l \in Nat, m \in Nat : l = Len(f) /\ m = Len(t)
  OBVIOUS
<1>1. PICK F, T : l = Len(f) /\ m = Len(t) /\ F = f /\ T = t
  BY <1>0
<1>2. /\ k \in 1 .. l /\ m = l - k + 1
      /\ Shares(F, k - 1) <= n /\ n < Shares(F, k)
      /\ T[1].qty = Shares(F, k) - n
      /\ \A i \in 2 .. m : T[i] = F[i + k - 1]
  BY <1>1 DEF TakenFrom
<1>3. /\ \A i \in 0 .. l : Shares(F, i) \in Nat
      /\ \A i \in 1 .. l : Shares(F, i) = Shares(F, i - 1) + F[i].qty
      /\ \A i \in 1 .. l : F[i].qty \in Nat
  BY <1>1, FifoShares
<1>4. /\ Shares(T, 0) = 0
      /\ \A i \in 1 .. m : Shares(T, i) = Shares(T, i - 1) + T[i].qty
  BY <1>1, FifoShares
<1> DEFINE G == {i \in Nat : i + 1 <= m => Shares(T, i + 1) = Shares(F, i + k) - n}
<1>5. 0 \in G
  BY <1>2, <1>3, <1>4
<1>6. ASSUME NEW i \in Nat, i \in G PROVE i + 1 \in G
  <2> SUFFICES ASSUME i + 1 + 1 <= m PROVE Shares(T, i + 1 + 1) = Shares(F, i + 1 + k) - n
    OBVIOUS
  <2>1. Shares(T, i + 1) = Shares(F, i + k) - n
    BY <1>2, <1>6
  <2>2. i + 2 \in 1 .. m /\ i + 2 \in 2 .. m /\ i + 1 + k \in 1 .. l /\ i + k \in 0 .. l
        /\ i + 1 + 1 = i + 2 /\ i + 2 - 1 = i + 1 /\ i + 2 + k - 1 = i + 1 + k /\ i + 1 + k - 1 = i + k
    BY <1>2
  <2>3. Shares(T, i + 2) = Shares(T, i + 1) + T[i + 2].qty
    BY <1>4, <2>2
  <2>4. T[i + 2] = F[i + 1 + k]
    BY <1>2, <2>2
  <2>5. Shares(F, i + 1 + k) = Shares(F, i + k) + F[i + 1 + k].qty
    <3>1. PICK j : j = i + 1 + k
      OBVIOUS
    <3>2. j \in 1 .. l /\ j - 1 = i + k
      BY <1>2, <2>2, <3>1
    <3>3. Shares(F, j) = Shares(F, j - 1) + F[j].qty
      BY <1>3, <3>2
    <3> QED
      BY <3>1, <3>2, <3>3
  <2>6. Shares(F, i + k) \in Nat /\ F[i + 1 + k].qty \in Nat
    BY <1>3, <2>2
  <2> QED
    BY <2>1, <2>2, <2>3, <2>4, <2>5, <2>6
<1> HIDE DEF G
<1>7. m - 1 \in G
  <2>1. m - 1 \in Nat
    BY <1>2
  <2> QED
    BY <1>5, <1>6, <2>1, NumberInduction
<1>8. Shares(T, m) = Shares(F, l) - n
  BY <1>2, <1>7 DEF G
<1> QED
  BY <1>1, <1>8 DEF Volume

-----------------------------------------------------------------------------
(* Sums compared term by term.                                             *)
LEMMA SumMinus ==
  ASSUME NEW S, IsFiniteSet(S), NEW f, NEW g, NEW h,
         \A x \in S : f[x] \in Int /\ g[x] \in Int /\ h[x] = f[x] - g[x]
  PROVE  SumFunctionOnSet(h, S) = SumFunctionOnSet(f, S) - SumFunctionOnSet(g, S)
<1> DEFINE G == {T \in SUBSET S : SumFunctionOnSet(h, T)
                                    = SumFunctionOnSet(f, T) - SumFunctionOnSet(g, T)}
<1>1. {} \in G
  BY SumEmpty
<1>2. ASSUME NEW T \in SUBSET S, T # {}, \A x \in T : T \ {x} \in G PROVE T \in G
  <2>1. PICK x \in T : TRUE
    BY <1>2
  <2>2. PICK U : U = T \ {x}
    OBVIOUS
  <2>3. /\ IsFiniteSet(T) /\ IsFiniteSet(U) /\ h[x] = f[x] - g[x] /\ f[x] \in Int /\ g[x] \in Int
        /\ \A y \in T : h[y] \in Int /\ f[y] \in Int /\ g[y] \in Int
    BY <2>2, FS_Subset
  <2>4. /\ SumFunctionOnSet(h, T) = h[x] + SumFunctionOnSet(h, U)
        /\ SumFunctionOnSet(f, T) = f[x] + SumFunctionOnSet(f, U)
        /\ SumFunctionOnSet(g, T) = g[x] + SumFunctionOnSet(g, U)
    BY <2>2, <2>3, SumRemove
  <2>5. SumFunctionOnSet(f, U) \in Int /\ SumFunctionOnSet(g, U) \in Int
    BY <2>2, <2>3, SumType
  <2>6. SumFunctionOnSet(h, U) = SumFunctionOnSet(f, U) - SumFunctionOnSet(g, U)
    BY <1>2, <2>2
  <2> QED
    BY <2>3, <2>4, <2>5, <2>6
<1> HIDE DEF G
<1>3. \A T \in SUBSET S : T \in G
  BY <1>1, <1>2, SubsetInduction
<1> QED
  BY <1>3 DEF G

LEMMA SumBounds ==
  ASSUME NEW S, IsFiniteSet(S), NEW f, NEW g,
         \A x \in S : f[x] \in Int /\ g[x] \in Int /\ f[x] <= g[x]
  PROVE  SumFunctionOnSet(f, S) <= SumFunctionOnSet(g, S)
<1>1. PICK h : h = [x \in S |-> g[x] - f[x]]
  OBVIOUS
<1>2. \A x \in S : h[x] = g[x] - f[x] /\ h[x] \in Nat
  BY <1>1
<1>3. SumFunctionOnSet(h, S) = SumFunctionOnSet(g, S) - SumFunctionOnSet(f, S)
  BY <1>2, SumMinus
<1>4. SumFunctionOnSet(h, S) \in Nat
  BY <1>2, SumType
<1>5. SumFunctionOnSet(g, S) \in Int /\ SumFunctionOnSet(f, S) \in Int
  BY SumType
<1> QED
  BY <1>3, <1>4, <1>5

LEMMA SumScaled ==
  ASSUME NEW S, IsFiniteSet(S), NEW f, NEW g, NEW c \in Nat,
         \A x \in S : f[x] \in Nat /\ g[x] = c * f[x]
  PROVE  SumFunctionOnSet(g, S) = c * SumFunctionOnSet(f, S)
<1> DEFINE G == {T \in SUBSET S : SumFunctionOnSet(g, T) = c * SumFunctionOnSet(f, T)}
<1>1. {} \in G
  <2>1. SumFunctionOnSet(g, {}) = 0 /\ SumFunctionOnSet(f, {}) = 0
    BY SumEmpty
  <2>2. c * 0 = 0
    OBVIOUS
  <2> QED
    BY <2>1, <2>2
<1>2. ASSUME NEW T \in SUBSET S, T # {}, \A x \in T : T \ {x} \in G PROVE T \in G
  <2>1. PICK x \in T : TRUE
    BY <1>2
  <2>2. PICK U : U = T \ {x}
    OBVIOUS
  <2>3. /\ IsFiniteSet(T) /\ IsFiniteSet(U) /\ g[x] = c * f[x] /\ f[x] \in Nat
        /\ \A y \in T : f[y] \in Int /\ f[y] \in Nat /\ g[y] \in Int
    <3>1. \A y \in S : f[y] \in Nat /\ g[y] \in Int
      OBVIOUS
    <3> QED
      BY <2>2, <3>1, FS_Subset
  <2>4. /\ SumFunctionOnSet(f, T) = f[x] + SumFunctionOnSet(f, U)
        /\ SumFunctionOnSet(g, T) = g[x] + SumFunctionOnSet(g, U)
    BY <2>2, <2>3, SumRemove
  <2>5. SumFunctionOnSet(f, U) \in Nat
    BY <2>2, <2>3, SumType
  <2>6. SumFunctionOnSet(g, U) = c * SumFunctionOnSet(f, U)
    BY <1>2, <2>2
  <2>7. PICK a \in Nat, d \in Nat : a = SumFunctionOnSet(f, U) /\ d = f[x]
    BY <2>3, <2>5
  <2>8. c * (d + a) = c * d + c * a
    OBVIOUS
  <2>9. SumFunctionOnSet(g, T) = c * SumFunctionOnSet(f, T)
    BY <2>3, <2>4, <2>6, <2>7, <2>8
  <2> QED
    BY <2>9
<1> HIDE DEF G
<1>3. \A T \in SUBSET S : T \in G
  BY <1>1, <1>2, SubsetInduction
<1> QED
  BY <1>3 DEF G

LEMMA SumOnes ==
  ASSUME NEW S, IsFiniteSet(S), NEW f, \A x \in S : f[x] \in Nat \ {0}
  PROVE  Cardinality(S) <= SumFunctionOnSet(f, S)
<1> DEFINE G == {T \in SUBSET S : Cardinality(T) <= SumFunctionOnSet(f, T)}
<1>1. {} \in G
  BY SumEmpty, FS_EmptySet
<1>2. ASSUME NEW T \in SUBSET S, T # {}, \A x \in T : T \ {x} \in G PROVE T \in G
  <2>1. PICK x \in T : TRUE
    BY <1>2
  <2>2. PICK U : U = T \ {x}
    OBVIOUS
  <2>3. /\ IsFiniteSet(T) /\ IsFiniteSet(U) /\ f[x] \in Nat \ {0}
        /\ \A y \in T : f[y] \in Int /\ f[y] \in Nat
    BY <2>2, FS_Subset
  <2>4. SumFunctionOnSet(f, T) = f[x] + SumFunctionOnSet(f, U)
    BY <2>2, <2>3, SumRemove
  <2>5. SumFunctionOnSet(f, U) \in Nat
    BY <2>2, <2>3, SumType
  <2>6. Cardinality(U) = Cardinality(T) - 1 /\ Cardinality(T) \in Nat
    BY <2>2, <2>3, FS_RemoveElement, FS_CardinalityType
  <2>7. Cardinality(U) <= SumFunctionOnSet(f, U)
    BY <1>2, <2>2
  <2> QED
    BY <2>3, <2>4, <2>5, <2>6, <2>7
<1> HIDE DEF G
<1>3. \A T \in SUBSET S : T \in G
  BY <1>1, <1>2, SubsetInduction
<1> QED
  BY <1>3 DEF G

(* A sum over disjoint parts is the sum of the sums over the parts.        *)
LEMMA SumDisjoint ==
  ASSUME NEW R, IsFiniteSet(R), NEW S, IsFiniteSet(S), R \cap S = {}, NEW f,
         \A x \in R \cup S : f[x] \in Int
  PROVE  /\ IsFiniteSet(R \cup S)
         /\ SumFunctionOnSet(f, R \cup S) = SumFunctionOnSet(f, R) + SumFunctionOnSet(f, S)
<1> DEFINE G == {T \in SUBSET S : SumFunctionOnSet(f, R \cup T)
                                    = SumFunctionOnSet(f, R) + SumFunctionOnSet(f, T)}
<1>0. SumFunctionOnSet(f, R) \in Int
  BY SumType
<1>1. {} \in G
  <2>1. R \cup {} = R
    OBVIOUS
  <2> QED
    BY <1>0, <2>1, SumEmpty
<1>2. ASSUME NEW T \in SUBSET S, T # {}, \A x \in T : T \ {x} \in G PROVE T \in G
  <2>1. PICK x \in T : TRUE
    BY <1>2
  <2>2. PICK U, V : U = T \ {x} /\ V = R \cup U
    OBVIOUS
  <2>3. /\ IsFiniteSet(T) /\ IsFiniteSet(U) /\ f[x] \in Int
        /\ \A y \in T : f[y] \in Int
        /\ \A y \in V : f[y] \in Int
    BY <2>2, FS_Subset
  <2>4. IsFiniteSet(V) /\ x \notin V /\ R \cup T = V \cup {x}
    BY <2>2, <2>3, FS_Union
  <2>5. SumFunctionOnSet(f, T) = f[x] + SumFunctionOnSet(f, U)
    BY <2>2, <2>3, SumRemove
  <2>6. SumFunctionOnSet(f, V \cup {x}) = f[x] + SumFunctionOnSet(f, V)
    BY <2>3, <2>4, SumAdd
  <2>7. SumFunctionOnSet(f, U) \in Int /\ SumFunctionOnSet(f, V) \in Int
    BY <2>2, <2>3, <2>4, SumType
  <2>8. SumFunctionOnSet(f, V) = SumFunctionOnSet(f, R) + SumFunctionOnSet(f, U)
    BY <1>2, <2>2
  <2>9. PICK a \in Int, b \in Int, c \in Int :
          a = SumFunctionOnSet(f, R) /\ b = SumFunctionOnSet(f, U) /\ c = f[x]
    BY <1>0, <2>3, <2>7
  <2>10. SumFunctionOnSet(f, R \cup T) = c + SumFunctionOnSet(f, V)
    BY <2>4, <2>6, <2>9
  <2>11. SumFunctionOnSet(f, R \cup T) = SumFunctionOnSet(f, R) + SumFunctionOnSet(f, T)
    BY ONLY <2>5, <2>8, <2>9, <2>10, a \in Int, b \in Int, c \in Int
  <2> QED
    BY <2>11
<1> HIDE DEF G
<1>3. \A T \in SUBSET S : T \in G
  BY <1>1, <1>2, SubsetInduction
<1> QED
  BY <1>3, FS_Union DEF G

Parts(P, f, g, S) ==
  /\ \A x \in S : /\ IsFiniteSet(P[x]) /\ \A z \in P[x] : f[z] \in Int
                  /\ g[x] = SumFunctionOnSet(f, P[x])
  /\ \A x, y \in S : x # y => P[x] \cap P[y] = {}

LEMMA SumUnion ==
  ASSUME NEW S, IsFiniteSet(S), NEW P, NEW f, NEW g, Parts(P, f, g, S)
  PROVE  /\ IsFiniteSet(UNION {P[x] : x \in S})
         /\ SumFunctionOnSet(f, UNION {P[x] : x \in S}) = SumFunctionOnSet(g, S)
<1> DEFINE All(T) == UNION {P[x] : x \in T}
           G == {T \in SUBSET S : /\ IsFiniteSet(All(T))
                                  /\ SumFunctionOnSet(f, All(T)) = SumFunctionOnSet(g, T)}
<1>0. /\ \A x \in S : /\ IsFiniteSet(P[x]) /\ \A z \in P[x] : f[z] \in Int
                      /\ g[x] = SumFunctionOnSet(f, P[x])
      /\ \A x, y \in S : x # y => P[x] \cap P[y] = {}
  BY DEF Parts
<1>1. {} \in G
  <2>1. All({}) = {}
    OBVIOUS
  <2> HIDE DEF All
  <2> QED
    BY <2>1, SumEmpty, FS_EmptySet
<1>2. ASSUME NEW T \in SUBSET S, T # {}, \A x \in T : T \ {x} \in G PROVE T \in G
  <2>1. PICK x \in T : TRUE
    BY <1>2
  <2>2. PICK U : U = T \ {x}
    OBVIOUS
  <2>3. PICK R, Q : R = All(U) /\ Q = P[x]
    OBVIOUS
  <2>4. IsFiniteSet(R) /\ SumFunctionOnSet(f, R) = SumFunctionOnSet(g, U)
    BY <1>2, <2>2, <2>3
  <2>5. IsFiniteSet(Q) /\ (\A z \in Q : f[z] \in Int) /\ g[x] = SumFunctionOnSet(f, Q)
    BY <1>0, <2>3
  <2>6. All(T) = R \cup Q /\ R \cap Q = {}
    <3>1. \A y \in U : P[y] \cap Q = {}
      BY <1>0, <2>2, <2>3
    <3>2. T = U \cup {x}
      BY <2>2
    <3> QED
      BY <2>3, <3>1, <3>2
  <2>7. \A z \in R : f[z] \in Int
    BY <1>0, <2>2, <2>3
  <2> HIDE DEF All
  <2>8. /\ IsFiniteSet(All(T))
        /\ SumFunctionOnSet(f, All(T)) = SumFunctionOnSet(g, U) + g[x]
    <3>1. R \cap Q = {} /\ \A z \in R \cup Q : f[z] \in Int
      BY <2>5, <2>6, <2>7
    <3>2. /\ IsFiniteSet(R \cup Q)
          /\ SumFunctionOnSet(f, R \cup Q) = SumFunctionOnSet(f, R) + SumFunctionOnSet(f, Q)
      BY ONLY <2>4, <2>5, <3>1, SumDisjoint
    <3> QED
      BY <2>4, <2>5, <2>6, <3>2
  <2>9. /\ IsFiniteSet(T) /\ IsFiniteSet(U) /\ g[x] \in Int /\ \A y \in T : g[y] \in Int
    <3>1. \A y \in S : g[y] \in Int
      BY <1>0, SumType
    <3> QED
      BY <2>2, <3>1, FS_Subset
  <2>10. SumFunctionOnSet(g, T) = g[x] + SumFunctionOnSet(g, U) /\ SumFunctionOnSet(g, U) \in Int
    BY <2>2, <2>9, SumRemove, SumType
  <2> QED
    BY <2>8, <2>9, <2>10
<1> HIDE DEF G, All
<1>3. \A T \in SUBSET S : T \in G
  BY <1>1, <1>2, SubsetInduction
<1>4. S \in G
  BY <1>3
<1> QED
  BY <1>4 DEF G, All

(* What is taken from a FIFO is settled by how much.                       *)
LEMMA TakenUnique ==
  ASSUME NEW Ids, NEW f \in Seq(Entries(Ids)), NEW n \in Nat,
         NEW t \in Seq(Entries(Ids)), NEW u \in Seq(Entries(Ids)), NEW j, NEW k,
         TakenFrom(t, f, n, j), TakenFrom(u, f, n, k)
  PROVE  t = u
<1>1. PICK l \in Nat : l = Len(f)
  OBVIOUS
<1>2. /\ \A i \in 0 .. l : Shares(f, i) \in Nat
      /\ \A i \in 1 .. l : f[i].qty \in Nat \ {0}
  BY <1>1, FifoShares
<1>3. \A i, m \in 0 .. l : i < m => Shares(f, i) < Shares(f, m)
  BY <1>2, SharesGrow
<1>4. /\ j \in 1 .. l /\ k \in 1 .. l
      /\ Shares(f, j - 1) <= n /\ n < Shares(f, j)
      /\ Shares(f, k - 1) <= n /\ n < Shares(f, k)
  BY <1>1 DEF TakenFrom
<1>5. ~(j < k)
  <2> SUFFICES ASSUME j < k PROVE FALSE
    OBVIOUS
  <2>1. j <= k - 1 /\ j \in 0 .. l /\ k - 1 \in 0 .. l
    BY <1>4
  <2>2. Shares(f, j) <= Shares(f, k - 1)
    BY <1>2, <1>3, <2>1
  <2> QED
    BY <1>2, <1>4, <2>1, <2>2
<1>6. ~(k < j)
  <2> SUFFICES ASSUME k < j PROVE FALSE
    OBVIOUS
  <2>1. k <= j - 1 /\ k \in 0 .. l /\ j - 1 \in 0 .. l
    BY <1>4
  <2>2. Shares(f, k) <= Shares(f, j - 1)
    BY <1>2, <1>3, <2>1
  <2> QED
    BY <1>2, <1>4, <2>1, <2>2
<1>7. j = k
  BY <1>4, <1>5, <1>6
<1>8. Len(t) = Len(u) /\ \A i \in 1 .. Len(t) : t[i] = u[i]
  <2>1. Len(t) = Len(u) /\ t[1] = u[1]
    BY <1>7 DEF TakenFrom
  <2>2. \A i \in 2 .. Len(t) : t[i] = u[i]
    BY <1>7, <2>1 DEF TakenFrom
  <2>3. \A i \in 1 .. Len(t) : i = 1 \/ i \in 2 .. Len(t)
    OBVIOUS
  <2> QED
    BY <2>1, <2>2, <2>3
<1> QED
  BY <1>8

(* Less than the front entry has is taken from that entry.                 *)
LEMMA TakeFirst ==
  ASSUME NEW Ids, NEW f \in Seq(Entries(Ids)), f # <<>>, NEW n \in Nat, n < f[1].qty
  PROVE  TakeFront(f, n) = [f EXCEPT ![1].qty = f[1].qty - n] /\ n < Volume(f)
<1>1. PICK l \in Nat : l = Len(f) /\ l >= 1
  OBVIOUS
<1>2. /\ \A i \in 0 .. l : Shares(f, i) \in Nat /\ Shares(f, 0) = 0
      /\ \A i \in 1 .. l : Shares(f, i) = Shares(f, i - 1) + f[i].qty
      /\ \A i \in 1 .. l : f[i].qty \in Nat \ {0} /\ f[i].id \in Ids
      /\ Volume(f) = Shares(f, l)
  BY <1>1, FifoShares DEF Volume
<1>3. \A i, m \in 0 .. l : i < m => Shares(f, i) < Shares(f, m)
  BY <1>2, SharesGrow
<1>4. Shares(f, 1) = f[1].qty /\ Shares(f, 1 - 1) = 0
  BY <1>1, <1>2
<1>5. n < Volume(f)
  <2>1. Shares(f, 1) <= Shares(f, l)
    BY <1>1, <1>2, <1>3
  <2> QED
    BY <1>1, <1>2, <1>4, <2>1
<1>6. PICK q \in Nat \ {0} : q = f[1].qty - n
  BY <1>1, <1>2
<1>7. PICK e : e = [id |-> f[1].id, qty |-> q]
  OBVIOUS
<1>8. PICK t : t = [f EXCEPT ![1].qty = q]
  OBVIOUS
<1>9. f[1] = [id |-> f[1].id, qty |-> f[1].qty]
  BY <1>1, FifoEntries
<1>10. t = [f EXCEPT ![1] = e] /\ e \in Entries(Ids)
  <2>1. PICK x, y : f[1] = [id |-> x, qty |-> y]
    BY <1>9
  <2>2. [f[1] EXCEPT !.qty = q] = e
    BY <1>7, <2>1
  <2>3. t = [f EXCEPT ![1] = [f[1] EXCEPT !.qty = q]]
    BY <1>8
  <2>4. f[1].id \in Ids
    BY <1>1, <1>2
  <2> QED
    BY <1>6, <1>7, <2>2, <2>3, <2>4 DEF Entries
<1>11. /\ t \in Seq(Entries(Ids)) /\ Len(t) = l /\ t[1] = e
       /\ \A i \in 2 .. l : t[i] = f[i]
  BY <1>1, <1>10
<1>12. TakenFrom(t, f, n, 1)
  <2>1. \A i \in 2 .. Len(t) : t[i] = f[i + 1 - 1]
    BY <1>11
  <2> QED
    BY <1>1, <1>4, <1>6, <1>7, <1>11, <2>1 DEF TakenFrom
<1>13. \E k : TakenFrom(TakeFront(f, n), f, n, k) /\ TakeFront(f, n) \in Seq(Entries(Ids))
  BY <1>5, TakeFrontFacts
<1>14. TakeFront(f, n) = t
  BY <1>11, <1>12, <1>13, TakenUnique
<1> QED
  BY <1>5, <1>6, <1>8, <1>14

LEMMA TailFacts ==
  ASSUME NEW E, NEW f \in Seq(E), f # <<>>
  PROVE  /\ Tail(f) \in Seq(E) /\ Len(Tail(f)) = Len(f) - 1 /\ Len(f) \in Nat /\ Len(f) >= 1
         /\ \A i \in 1 .. Len(f) - 1 : Tail(f)[i] = f[i + 1]
OBVIOUS

LEMMA SharesTail ==
  ASSUME NEW Ids, NEW f \in Seq(Entries(Ids)), f # <<>>
  PROVE  /\ Tail(f) \in Seq(Entries(Ids)) /\ Len(Tail(f)) = Len(f) - 1
         /\ \A k \in 0 .. Len(f) - 1 : Shares(Tail(f), k) = Shares(f, k + 1) - f[1].qty
         /\ Volume(Tail(f)) = Volume(f) - f[1].qty
<1>1. PICK l \in Nat : l = Len(f) /\ l >= 1
  OBVIOUS
<1>2. PICK t \in Seq(Entries(Ids)) : t = Tail(f) /\ Len(t) = l - 1 /\ \A i \in 1 .. l - 1 : t[i] = f[i + 1]
  <2>1. /\ Tail(f) \in Seq(Entries(Ids)) /\ Len(Tail(f)) = Len(f) - 1
        /\ \A i \in 1 .. Len(f) - 1 : Tail(f)[i] = f[i + 1]
    BY TailFacts
  <2> QED
    BY <1>1, <2>1
<1>3. /\ \A i \in 0 .. l : Shares(f, i) \in Nat /\ Shares(f, 0) = 0
      /\ \A i \in 1 .. l : Shares(f, i) = Shares(f, i - 1) + f[i].qty
      /\ \A i \in 1 .. l : f[i].qty \in Nat \ {0}
      /\ Volume(f) = Shares(f, l)
  BY <1>1, FifoShares DEF Volume
<1>4. /\ \A i \in 0 .. l - 1 : Shares(t, i) \in Nat /\ Shares(t, 0) = 0
      /\ \A i \in 1 .. l - 1 : Shares(t, i) = Shares(t, i - 1) + t[i].qty
      /\ Volume(t) = Shares(t, l - 1)
  BY <1>1, <1>2, FifoShares DEF Volume
<1> DEFINE G == {k \in Nat : k <= l - 1 => Shares(t, k) = Shares(f, k + 1) - f[1].qty}
<1>5. 0 \in G
  <2>1. Shares(f, 1) = f[1].qty
    BY <1>1, <1>3
  <2> QED
    BY <1>1, <1>3, <1>4, <2>1
<1>6. ASSUME NEW k \in Nat, k \in G PROVE k + 1 \in G
  <2> SUFFICES ASSUME k + 1 <= l - 1
               PROVE  Shares(t, k + 1) = Shares(f, k + 2) - f[1].qty
    OBVIOUS
  <2>1. Shares(t, k + 1) = Shares(t, k) + t[k + 1].qty
    <3>1. k + 1 \in 1 .. l - 1 /\ k + 1 - 1 = k
      BY <1>1
    <3> QED
      BY <1>4, <3>1
  <2>2. Shares(f, k + 2) = Shares(f, k + 1) + f[k + 2].qty
    <3>1. k + 2 \in 1 .. l /\ k + 2 - 1 = k + 1
      BY <1>1
    <3> QED
      BY <1>3, <3>1
  <2>3. t[k + 1] = f[k + 2]
    BY <1>1, <1>2
  <2>4. Shares(t, k) = Shares(f, k + 1) - f[1].qty
    BY <1>6
  <2>5. Shares(f, k + 1) \in Int /\ f[k + 2].qty \in Int /\ f[1].qty \in Int
    BY <1>1, <1>3
  <2> QED
    BY <2>1, <2>2, <2>3, <2>4, <2>5
<1> HIDE DEF G
<1>7. \A k \in Nat : k \in G
  BY <1>5, <1>6, NumberInduction
<1>8. \A k \in 0 .. l - 1 : Shares(t, k) = Shares(f, k + 1) - f[1].qty
  BY <1>1, <1>7 DEF G
<1>9. Volume(t) = Volume(f) - f[1].qty
  <2>1. l - 1 \in 0 .. l - 1 /\ l - 1 + 1 = l
    BY <1>1
  <2> QED
    BY <1>3, <1>4, <1>8, <2>1
<1> QED
  BY <1>1, <1>2, <1>8, <1>9

(* More than it has is taken from what is behind it too.                   *)
LEMMA TakeMore ==
  ASSUME NEW Ids, NEW f \in Seq(Entries(Ids)), f # <<>>, NEW n \in Nat, n >= f[1].qty
  PROVE  TakeFront(f, n) = TakeFront(Tail(f), n - f[1].qty)
<1>1. PICK l \in Nat : l = Len(f) /\ l >= 1
  OBVIOUS
<1>2. PICK t \in Seq(Entries(Ids)) : t = Tail(f) /\ Len(t) = l - 1 /\ \A i \in 1 .. l - 1 : t[i] = f[i + 1]
  <2>1. /\ Tail(f) \in Seq(Entries(Ids)) /\ Len(Tail(f)) = Len(f) - 1
        /\ \A i \in 1 .. Len(f) - 1 : Tail(f)[i] = f[i + 1]
    BY TailFacts
  <2> QED
    BY <1>1, <2>1
<1>3. PICK q \in Nat : q = f[1].qty
  BY <1>1, FifoShares
<1>4. PICK m \in Nat : m = n - q
  BY <1>3
<1>5. /\ \A k \in 0 .. l - 1 : Shares(t, k) = Shares(f, k + 1) - q
      /\ Volume(t) = Volume(f) - q
  BY <1>1, <1>2, <1>3, SharesTail
<1>6. /\ \A i \in 0 .. l : Shares(f, i) \in Nat
      /\ Shares(f, 1) = q /\ Volume(f) \in Nat
  <2>1. /\ \A i \in 0 .. l : Shares(f, i) \in Nat /\ Shares(f, 0) = 0
        /\ \A i \in 1 .. l : Shares(f, i) = Shares(f, i - 1) + f[i].qty
        /\ Volume(f) \in Nat
    BY <1>1, FifoShares
  <2> QED
    BY <1>1, <1>3, <2>1
<1>7. CASE n >= Volume(f)
  <2>1. TakeFront(f, n) = <<>>
    BY <1>7, TakeFrontFacts
  <2>2. m >= Volume(t)
    BY <1>3, <1>4, <1>5, <1>6, <1>7
  <2>3. TakeFront(t, m) = <<>>
    BY <2>2, TakeFrontFacts
  <2> QED
    BY <1>2, <1>3, <1>4, <2>1, <2>3
<1>8. CASE n < Volume(f)
  <2>a. PICK u \in Seq(Entries(Ids)) : u = TakeFront(f, n)
    BY TakeFrontFacts
  <2>1. PICK k : u = TakeFront(f, n) /\ TakenFrom(u, f, n, k)
    BY <1>8, <2>a, TakeFrontFacts
  <2>2. PICK v \in Seq(Entries(Ids)) : v = TakeFront(t, m)
    BY TakeFrontFacts
  <2>3. m < Volume(t)
    BY <1>3, <1>4, <1>5, <1>6, <1>8
  <2>4. PICK j : TakenFrom(v, t, m, j)
    BY <2>2, <2>3, TakeFrontFacts
  <2>5. /\ k \in 1 .. l /\ Len(u) = l - k + 1 /\ Shares(f, k - 1) <= n /\ n < Shares(f, k)
        /\ u[1] = [id |-> f[k].id, qty |-> Shares(f, k) - n]
        /\ \A i \in 2 .. Len(u) : u[i] = f[i + k - 1]
    BY <1>1, <2>1 DEF TakenFrom
  <2>6. k # 1
    BY <1>3, <1>6, <2>5
  <2>7. k - 1 \in 1 .. l - 1
    BY <2>5, <2>6
  <2>h. PICK h \in Nat : h = k - 1 /\ h \in 1 .. l - 1 /\ k = h + 1
    BY <2>5, <2>7
  <2>8. Shares(t, h) = Shares(f, k) - q /\ Shares(t, h - 1) = Shares(f, k - 1) - q /\ t[h] = f[k]
    <3>1. h \in 0 .. l - 1 /\ h - 1 \in 0 .. l - 1 /\ h - 1 + 1 = k - 1
      BY <2>h
    <3>2. Shares(t, h) = Shares(f, h + 1) - q /\ Shares(t, h - 1) = Shares(f, h - 1 + 1) - q
      BY <1>5, <3>1
    <3> QED
      BY <1>2, <2>h, <3>1, <3>2
  <2>9. TakenFrom(u, t, m, h)
    <3>1. Shares(f, k) \in Int /\ Shares(f, k - 1) \in Int
      <4>1. k \in 0 .. l /\ k - 1 \in 0 .. l
        BY <2>5
      <4> QED
        BY <1>6, <4>1
    <3>2. /\ Shares(t, h - 1) <= m /\ m < Shares(t, h)
          /\ Shares(t, h) - m = Shares(f, k) - n
      <4>1. PICK a, b : a = Shares(f, k - 1) /\ b = Shares(f, k)
        OBVIOUS
      <4>2. /\ a \in Int /\ b \in Int /\ a <= n /\ n < b /\ n \in Nat
            /\ Shares(t, h - 1) = a - q /\ Shares(t, h) = b - q /\ q \in Nat /\ m = n - q
        BY <1>3, <1>4, <2>5, <2>8, <3>1, <4>1
      <4>3. a - q <= m /\ m < b - q /\ b - q - m = b - n
        BY ONLY <4>2
      <4> QED
        BY <4>1, <4>2, <4>3
    <3>3. \A i \in 2 .. Len(u) : u[i] = t[i + h - 1]
      <4> SUFFICES ASSUME NEW i \in 2 .. Len(u) PROVE u[i] = t[i + h - 1]
        OBVIOUS
      <4>1. PICK y \in 1 .. l - 1 : y = i + h - 1 /\ y + 1 = i + k - 1
        <5>1. l \in Nat /\ k \in Nat /\ Len(u) = l - k + 1 /\ h \in 1 .. l - 1 /\ k = h + 1
          BY <2>5, <2>h
        <5>2. i \in 2 .. l - k + 1
          BY <5>1
        <5> QED
          BY ONLY <5>1, <5>2
      <4>2. t[y] = f[y + 1]
        BY <1>2
      <4>3. u[i] = f[i + k - 1]
        BY <2>5
      <4> QED
        BY <4>1, <4>2, <4>3
    <3>4. Len(u) = Len(t) - h + 1 /\ h \in 1 .. Len(t)
      BY <1>1, <1>2, <2>5, <2>h
    <3> QED
      BY <2>5, <2>8, <3>2, <3>3, <3>4 DEF TakenFrom
  <2>10. u = v
    BY <2>4, <2>9, TakenUnique
  <2> QED
    BY <1>2, <1>3, <1>4, <2>1, <2>2, <2>10
<1> QED
  BY <1>6, <1>7, <1>8

LEMMA TakeNone ==
  ASSUME NEW Ids, NEW f \in Seq(Entries(Ids))
  PROVE  TakeFront(f, 0) = f
<1>1. CASE f = <<>>
  <2>1. Volume(f) = 0
    BY <1>1, FifoShares
  <2>2. 0 \in Nat /\ 0 >= Volume(f)
    BY <2>1
  <2>3. TakeFront(f, 0) = <<>>
    BY <2>2, TakeFrontFacts
  <2> QED
    BY <1>1, <2>3
<1>2. CASE f # <<>>
  <2>1. PICK l \in Nat : l = Len(f) /\ l >= 1 /\ 1 \in 1 .. l
    BY <1>2
  <2>2. f[1].qty \in Nat \ {0} /\ f[1] = [id |-> f[1].id, qty |-> f[1].qty]
    BY <2>1, FifoShares, FifoEntries
  <2>3. 0 \in Nat /\ 0 < f[1].qty
    BY <2>2
  <2>4. TakeFront(f, 0) = [f EXCEPT ![1].qty = f[1].qty - 0]
    BY <1>2, <2>3, TakeFirst
  <2>5. [f[1] EXCEPT !.qty = f[1].qty - 0] = f[1]
    <3>1. PICK x, y : f[1] = [id |-> x, qty |-> y]
      BY <2>2
    <3>2. f[1].qty - 0 = f[1].qty
      BY <2>2
    <3> QED
      BY <3>1, <3>2
  <2>6. PICK t : t = [f EXCEPT ![1].qty = f[1].qty - 0]
    OBVIOUS
  <2>7. t = [f EXCEPT ![1] = f[1]]
    BY <2>5, <2>6
  <2>8. f = [i \in 1 .. l |-> f[i]] /\ DOMAIN f = 1 .. l
    BY <2>1
  <2>9. t = [i \in 1 .. l |-> f[i]]
    BY <2>7, <2>8
  <2> QED
    BY <2>4, <2>6, <2>8, <2>9
<1> QED
  BY <1>1, <1>2

(* A fill takes from the front entry, at most what that has.               *)
LEMMA NibbleIsTake ==
  ASSUME NEW Ids, NEW f \in Seq(Entries(Ids)), f # <<>>, NEW n \in Nat, n <= f[1].qty
  PROVE  /\ TakeFront(f, n) = IF n = f[1].qty THEN Tail(f) ELSE [f EXCEPT ![1].qty = f[1].qty - n]
         /\ Volume(TakeFront(f, n)) = Volume(f) - n /\ n <= Volume(f)
<1>1. f[1].qty \in Nat \ {0} /\ Volume(f) \in Nat
  BY FifoShares
<1>2. CASE n # f[1].qty
  <2>1. TakeFront(f, n) = [f EXCEPT ![1].qty = f[1].qty - n] /\ n < Volume(f)
    BY <1>1, <1>2, TakeFirst
  <2>2. TakeFront(f, n) \in Seq(Entries(Ids)) /\ \E k : TakenFrom(TakeFront(f, n), f, n, k)
    BY <2>1, TakeFrontFacts
  <2>3. Volume(TakeFront(f, n)) = Volume(f) - n
    BY <2>2, VolumeTaken
  <2> QED
    BY <1>1, <1>2, <2>1, <2>3
<1>3. CASE n = f[1].qty
  <2>1. Tail(f) \in Seq(Entries(Ids)) /\ Volume(Tail(f)) = Volume(f) - f[1].qty
    BY SharesTail
  <2>2. PICK g \in Seq(Entries(Ids)) : g = Tail(f)
    BY <2>1
  <2>3. f[1].qty - f[1].qty = 0 /\ n >= f[1].qty
    BY <1>1, <1>3
  <2>4. TakeFront(f, n) = TakeFront(g, 0)
    BY <1>3, <2>2, <2>3, TakeMore
  <2>5. TakeFront(g, 0) = g
    BY TakeNone
  <2>6. Volume(g) \in Nat /\ Volume(g) = Volume(f) - n
    BY <1>3, <2>1, <2>2, FifoShares
  <2>7. n <= Volume(f)
    BY <1>1, <2>6
  <2> QED
    BY <1>3, <2>2, <2>4, <2>5, <2>6, <2>7
<1> QED
  BY <1>2, <1>3
=============================================================================
