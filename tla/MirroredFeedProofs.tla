------------------------- MODULE MirroredFeedProofs --------------------------
(***************************************************************************)
(* How exactly a replay follows a feed whose rows show the whole book, in  *)
(* any mode, for any number of messages, orders, prices and sizes.         *)
(*                                                                         *)
(* At every level the reconstruction has one stand-in for the orders that  *)
(* rested there before the capture window, followed by the very orders     *)
(* that messages have introduced, in queue order (Mirrors).  Seeding makes *)
(* it so, each message finds the order or the stand-in it names and        *)
(* changes both books alike, and the repairs and the comparison find       *)
(* nothing (CompleteInv).                                                  *)
(***************************************************************************)
EXTENDS LobsterReplayProofs

(* Queues put one after the other, and what has some of their entries.     *)
LEMMA FunctionIsSeq ==
  ASSUME NEW F, NEW n \in Nat, NEW f, f = [i \in 1 .. n |-> f[i]], \A i \in 1 .. n : f[i] \in F
  PROVE  f \in Seq(F) /\ Len(f) = n
OBVIOUS

LEMMA SameEntries ==
  ASSUME NEW F, NEW f \in Seq(F), NEW g \in Seq(F), Len(f) = Len(g),
         \A i \in 1 .. Len(f) : f[i] = g[i]
  PROVE  f = g
OBVIOUS

LEMMA ConcatFacts ==
  ASSUME NEW F, NEW a \in Seq(F), NEW t \in Seq(F), NEW g, g = a \o t
  PROVE  /\ Len(a) \in Nat /\ Len(t) \in Nat
         /\ g \in Seq(F) /\ Len(g) = Len(a) + Len(t)
         /\ \A i \in 1 .. Len(a) : g[i] = a[i]
         /\ \A i \in 1 .. Len(t) : g[Len(a) + i] = t[i]
         /\ \A i \in 1 .. Len(g) : g[i] = IF i <= Len(a) THEN a[i] ELSE t[i - Len(a)]
         /\ a \o <<>> = a /\ <<>> \o t = t
OBVIOUS

LEMMA ConcatIs ==
  ASSUME NEW F, NEW a \in Seq(F), NEW t \in Seq(F), NEW g \in Seq(F),
         Len(g) = Len(a) + Len(t), \A i \in 1 .. Len(a) : g[i] = a[i],
         \A i \in 1 .. Len(t) : g[Len(a) + i] = t[i]
  PROVE  g = a \o t
<1>1. PICK h : h = a \o t
  OBVIOUS
<1>2. /\ h \in Seq(F) /\ Len(h) = Len(a) + Len(t)
      /\ \A i \in 1 .. Len(h) : h[i] = IF i <= Len(a) THEN a[i] ELSE t[i - Len(a)]
  BY <1>1, ConcatFacts
<1>3. ASSUME NEW i \in 1 .. Len(g) PROVE g[i] = h[i]
  <2>0. PICK j \in Nat, k \in Nat : j = Len(a) /\ k = Len(t)
    OBVIOUS
  <2>1. CASE i <= j
    BY <1>2, <2>0, <2>1
  <2>2. CASE ~(i <= j)
    <3>1. PICK m \in 1 .. k : m = i - j /\ i = j + m
      <4>1. i \in 1 .. j + k
        BY <2>0
      <4>2. i - j \in 1 .. k /\ i = j + (i - j)
        BY <2>2, <4>1
      <4> QED
        BY <4>2
    <3>2. h[i] = t[m]
      BY <1>2, <2>0, <2>2, <3>1
    <3>3. g[j + m] = t[m]
      BY <2>0, <3>1
    <3> QED
      BY <3>1, <3>2, <3>3
  <2> QED
    BY <2>1, <2>2
<1>4. g = h
  BY <1>2, <1>3, SameEntries
<1> QED
  BY <1>1, <1>4

LEMMA AppendFacts ==
  ASSUME NEW F, NEW f \in Seq(F), NEW x \in F, NEW g, g = Append(f, x)
  PROVE  /\ g \in Seq(F) /\ Len(f) \in Nat /\ Len(g) = Len(f) + 1 /\ g[Len(f) + 1] = x
         /\ \A i \in 1 .. Len(f) : g[i] = f[i]
OBVIOUS

LEMMA ConcatAppend ==
  ASSUME NEW F, NEW a \in Seq(F), NEW t \in Seq(F), NEW x \in F
  PROVE  a \o Append(t, x) = Append(a \o t, x)
<1>1. PICK u : u = Append(t, x)
  OBVIOUS
<1>1a. /\ u \in Seq(F) /\ Len(t) \in Nat /\ Len(u) = Len(t) + 1 /\ u[Len(t) + 1] = x
       /\ \A i \in 1 .. Len(t) : u[i] = t[i]
  BY <1>1, AppendFacts
<1>2. PICK v : v = a \o t
  OBVIOUS
<1>2a. /\ v \in Seq(F) /\ Len(v) = Len(a) + Len(t) /\ Len(a) \in Nat
       /\ \A i \in 1 .. Len(v) : v[i] = IF i <= Len(a) THEN a[i] ELSE t[i - Len(a)]
  BY <1>2, ConcatFacts
<1>3. PICK w : w = a \o u
  OBVIOUS
<1>3a. ASSUME NEW z \in Seq(F), z = u
       PROVE  /\ w \in Seq(F) /\ Len(w) = Len(a) + Len(z)
              /\ \A i \in 1 .. Len(w) : w[i] = IF i <= Len(a) THEN a[i] ELSE z[i - Len(a)]
  BY ONLY <1>3, <1>3a, ConcatFacts
<1>3b. /\ w \in Seq(F) /\ Len(w) = Len(a) + Len(u)
       /\ \A i \in 1 .. Len(w) : w[i] = IF i <= Len(a) THEN a[i] ELSE u[i - Len(a)]
  BY <1>1a, <1>3a
<1>4. PICK y : y = Append(v, x)
  OBVIOUS
<1>4a. ASSUME NEW z \in Seq(F), z = v
       PROVE  y \in Seq(F) /\ Len(y) = Len(z) + 1 /\ y[Len(z) + 1] = x
              /\ \A i \in 1 .. Len(z) : y[i] = z[i]
  BY ONLY <1>4, <1>4a, AppendFacts
<1>4b. /\ y \in Seq(F) /\ Len(y) = Len(v) + 1 /\ y[Len(v) + 1] = x
       /\ \A i \in 1 .. Len(v) : y[i] = v[i]
  BY <1>2a, <1>4a
<1>5. PICK j \in Nat, k \in Nat : j = Len(a) /\ k = Len(t)
  BY <1>1a, <1>2a
<1>5a. Len(u) = k + 1 /\ Len(v) = j + k /\ Len(w) = j + k + 1 /\ Len(y) = j + k + 1
  BY <1>1a, <1>2a, <1>3b, <1>4b, <1>5
<1>5b. \A i \in 1 .. j + k : v[i] = (IF i <= j THEN a[i] ELSE t[i - j]) /\ y[i] = v[i]
  BY <1>2a, <1>4b, <1>5, <1>5a
<1>5c. \A i \in 1 .. j + k + 1 : w[i] = IF i <= j THEN a[i] ELSE u[i - j]
  BY <1>3b, <1>5, <1>5a
<1>5d. y[j + k + 1] = x /\ u[k + 1] = x /\ \A i \in 1 .. k : u[i] = t[i]
  BY <1>1a, <1>4b, <1>5, <1>5a
<1>6. ASSUME NEW i \in 1 .. j + k + 1 PROVE w[i] = y[i]
  <2>1. CASE i <= j
    <3>1. i \in 1 .. j + k
      BY <2>1
    <3>2. y[i] = v[i] /\ v[i] = a[i]
      BY <1>5b, <2>1, <3>1
    <3>3. w[i] = a[i]
      BY <1>5c, <2>1
    <3> QED
      BY <3>2, <3>3
  <2>2. CASE i > j /\ i # j + k + 1
    <3>1. PICK m \in 1 .. k : m = i - j
      BY <2>2
    <3>2. u[m] = t[m] /\ w[i] = u[m] /\ v[i] = t[m] /\ y[i] = v[i]
      BY <1>5b, <1>5c, <1>5d, <2>2, <3>1
    <3> QED
      BY <3>2
  <2>3. CASE i = j + k + 1
    BY <1>5b, <1>5c, <1>5d, <2>3
  <2> QED
    BY <2>1, <2>2, <2>3
<1>7. w = y
  BY <1>3b, <1>4b, <1>5a, <1>6, SameEntries
<1> QED
  BY <1>1, <1>2, <1>3, <1>4, <1>7

-----------------------------------------------------------------------------
(***************************************************************************)
(* A queue and a part of it: the entries whose ids are in a set, in their  *)
(* order.                                                                  *)
(***************************************************************************)
WithIds(f, P) == EntriesAt(f, {i \in DOMAIN f : f[i].id \in P})

LEMMA WithIdsAppend ==
  ASSUME NEW E, NEW f \in Seq(E), NEW x \in E, NEW P
  PROVE  /\ WithIds(<<>>, P) = <<>>
         /\ WithIds(f, P) \in Seq(E)
         /\ WithIds(Append(f, x), P) = IF x.id \in P THEN Append(WithIds(f, P), x)
                                                     ELSE WithIds(f, P)
<1> DEFINE C == {i \in DOMAIN f : f[i].id \in P}
           g == Append(f, x)
           D == {i \in DOMAIN g : g[i].id \in P}
<1>1. /\ DOMAIN f = 1 .. Len(f) /\ Len(f) \in Nat /\ DOMAIN g = 1 .. Len(f) + 1
      /\ \A i \in 1 .. Len(f) : g[i] = f[i]
      /\ g[Len(f) + 1] = x
  OBVIOUS
<1>2. \A i \in 1 .. Len(f) : i \in C <=> i \in D
  BY <1>1
<1>3. Len(f) + 1 \in D <=> x.id \in P
  BY <1>1
<1> HIDE DEF C, D, g
<1>4. EntriesAt(Append(f, x), D) = IF Len(f) + 1 \in D THEN Append(EntriesAt(f, C), x)
                                                       ELSE EntriesAt(f, C)
  BY <1>2, EntriesAtAppend
<1>5. EntriesAt(f, C) \in Seq(E)
  BY EntriesAtPositions
<1> QED
  BY <1>3, <1>4, <1>5, EntriesAtEmpty DEF WithIds, C, D, g

LEMMA WithIdsAll ==
  ASSUME NEW E, NEW f \in Seq(E), NEW P, \A i \in 1 .. Len(f) : f[i].id \in P
  PROVE  WithIds(f, P) = f
<1>1. \A i \in 1 .. Len(f) : i \in {k \in DOMAIN f : f[k].id \in P}
  OBVIOUS
<1> QED
  BY <1>1, EntriesAtAll DEF WithIds

LEMMA WithIdsNone ==
  ASSUME NEW E, NEW f \in Seq(E), NEW P, \A i \in 1 .. Len(f) : f[i].id \notin P
  PROVE  WithIds(f, P) = <<>>
<1> DEFINE D == {i \in DOMAIN f : f[i].id \in P}
<1>1. \A i \in 1 .. Len(f) : i \notin D
  OBVIOUS
<1> HIDE DEF D
<1>2. PICK g, w : g = EntriesAt(f, D) /\ g \in Seq(E) /\ Positions(w, g, f, D, Len(f))
  BY EntriesAtPositions
<1>3. \A j \in 1 .. Len(g) : w[j] \in 1 .. Len(f) /\ w[j] \in D
  BY <1>2 DEF Positions
<1>4. Len(g) \in Nat /\ ~(1 \in 1 .. Len(g))
  BY <1>1, <1>2, <1>3
<1>5. g = <<>>
  BY <1>2, <1>4
<1> QED
  BY <1>2, <1>5 DEF WithIds, D

LEMMA WithIdsConcat ==
  ASSUME NEW E, NEW a \in Seq(E), NEW t \in Seq(E), NEW P
  PROVE  WithIds(a \o t, P) = WithIds(a, P) \o WithIds(t, P)
<1>a. ASSUME NEW z \in Seq(E), NEW x \in E
      PROVE  /\ WithIds(z, P) \in Seq(E)
             /\ WithIds(Append(z, x), P) = IF x.id \in P THEN Append(WithIds(z, P), x)
                                                         ELSE WithIds(z, P)
  <2>1. WithIds(z, P) \in Seq(E)
    BY WithIdsAppend
  <2>2. WithIds(Append(z, x), P) = IF x.id \in P THEN Append(WithIds(z, P), x)
                                                 ELSE WithIds(z, P)
    BY WithIdsAppend
  <2> QED
    BY <2>1, <2>2
<1> DEFINE G == {g \in Seq(E) : WithIds(a \o g, P) = WithIds(a, P) \o WithIds(g, P)}
<1>0. WithIds(a, P) \in Seq(E) /\ WithIds(<<>>, P) = <<>>
  BY WithIdsAppend
<1>1. <<>> \in G
  BY <1>0
<1>2. ASSUME NEW g \in Seq(E), NEW x \in E, g \in G PROVE Append(g, x) \in G
  <2>1. PICK h \in Seq(E) : h = a \o g
    <3>1. a \o g \in Seq(E)
      BY ConcatFacts
    <3> QED
      BY <3>1
  <2>2. a \o Append(g, x) = Append(h, x) /\ Append(g, x) \in Seq(E)
    <3>1. Append(g, x) \in Seq(E)
      BY AppendFacts
    <3> QED
      BY <2>1, <3>1, ConcatAppend
  <2>3. /\ WithIds(g, P) \in Seq(E)
        /\ WithIds(Append(g, x), P) = IF x.id \in P THEN Append(WithIds(g, P), x) ELSE WithIds(g, P)
    BY <1>a
  <2>4. WithIds(Append(h, x), P) = IF x.id \in P THEN Append(WithIds(h, P), x) ELSE WithIds(h, P)
    BY <1>a
  <2>5. WithIds(h, P) = WithIds(a, P) \o WithIds(g, P)
    BY <1>2, <2>1
  <2>6. WithIds(a, P) \o Append(WithIds(g, P), x) = Append(WithIds(a, P) \o WithIds(g, P), x)
    BY <1>0, <2>3, ConcatAppend
  <2>7. WithIds(a \o Append(g, x), P) = WithIds(a, P) \o WithIds(Append(g, x), P)
    <3>1. PICK e, c, d : e = WithIds(h, P) /\ c = WithIds(a, P) /\ d = WithIds(g, P)
      OBVIOUS
    <3> QED
      BY <2>2, <2>3, <2>4, <2>5, <2>6
  <2> QED
    BY <2>2, <2>7
<1> HIDE DEF G
<1>3. \A g \in Seq(E) : g \in G
  BY <1>1, <1>2, SeqInduction
<1> QED
  BY <1>3 DEF G

(* What a reduction of an order of y shares by n makes of a queue.         *)
Shrunk(f, id, n) ==
  [i \in DOMAIN f |-> IF f[i].id = id THEN [f[i] EXCEPT !.qty = @ - n] ELSE f[i]]

Lessened(f, id, n, y) == IF n >= y THEN WithoutId(f, id) ELSE Shrunk(f, id, n)

LEMMA ReduceIsLessened ==
  ASSUME NEW b, NEW id, NEW n, NEW s \in Side, NEW p \in Price
  PROVE  ReduceOrder(b, id, n)[s][p] = Lessened(b[s][p], id, n, GetOrderQty(b, id))
BY DEF ReduceOrder, CancelOrder, Lessened, Shrunk

LEMMA WithoutIsWithIds ==
  ASSUME NEW Ids, NEW f \in Seq(Entries(Ids)), NEW id
  PROVE  WithoutId(f, id) = WithIds(f, Ids \ {id})
<1>1. \A i \in 1 .. Len(f) : f[i].id \in Ids
  BY FifoShares
<1>2. {i \in DOMAIN f : f[i].id # id} = {i \in DOMAIN f : f[i].id \in Ids \ {id}}
  BY <1>1
<1> QED
  BY <1>2 DEF WithoutId, WithIds

LEMMA WithoutConcat ==
  ASSUME NEW Ids, NEW a \in Seq(Entries(Ids)), NEW t \in Seq(Entries(Ids)), NEW id
  PROVE  WithoutId(a \o t, id) = WithoutId(a, id) \o WithoutId(t, id)
<1>1. PICK E : E = Entries(Ids)
  OBVIOUS
<1>2. a \o t \in Seq(E)
  BY <1>1
<1>3. /\ WithoutId(a, id) = WithIds(a, Ids \ {id})
      /\ WithoutId(t, id) = WithIds(t, Ids \ {id})
      /\ WithoutId(a \o t, id) = WithIds(a \o t, Ids \ {id})
  BY <1>1, <1>2, WithoutIsWithIds
<1>4. a \in Seq(E) /\ t \in Seq(E)
  BY <1>1
<1>5. /\ WithIds(a \o t, Ids \ {id}) = WithIds(a, Ids \ {id}) \o WithIds(t, Ids \ {id})
      /\ WithIds(a, Ids \ {id}) \in Seq(E)
  <2>1. ASSUME NEW y \in Seq(E), NEW z \in Seq(E), y = a, z = t
        PROVE  WithIds(y \o z, Ids \ {id}) = WithIds(y, Ids \ {id}) \o WithIds(z, Ids \ {id})
    BY ONLY WithIdsConcat
  <2>2. WithIds(a, Ids \ {id}) \in Seq(E)
    BY <1>4, EntriesAtPositions DEF WithIds
  <2> QED
    BY <1>4, <2>1, <2>2
<1> QED
  BY <1>1, <1>3, <1>5

LEMMA ShrunkConcat ==
  ASSUME NEW Ids, NEW a \in Seq(Entries(Ids)), NEW t \in Seq(Entries(Ids)), NEW id, NEW n
  PROVE  Shrunk(a \o t, id, n) = Shrunk(a, id, n) \o Shrunk(t, id, n)
<1>1. PICK g, c, d, e : g = a \o t /\ c = Shrunk(a, id, n) /\ d = Shrunk(t, id, n) /\ e = Shrunk(g, id, n)
  OBVIOUS
<1>2. PICK j \in Nat, k \in Nat : j = Len(a) /\ k = Len(t)
  OBVIOUS
<1>3. DOMAIN a = 1 .. j /\ DOMAIN t = 1 .. k /\ DOMAIN g = 1 .. j + k
  BY <1>1, <1>2
<1>4. /\ c = [i \in 1 .. j |-> IF a[i].id = id THEN [a[i] EXCEPT !.qty = @ - n] ELSE a[i]]
      /\ d = [i \in 1 .. k |-> IF t[i].id = id THEN [t[i] EXCEPT !.qty = @ - n] ELSE t[i]]
      /\ e = [i \in 1 .. j + k |-> IF g[i].id = id THEN [g[i] EXCEPT !.qty = @ - n] ELSE g[i]]
  BY <1>1, <1>3 DEF Shrunk
<1>5. \A i \in 1 .. j + k : g[i] = IF i <= j THEN a[i] ELSE t[i - j]
  BY <1>1, <1>2
<1>6. PICK F : \A i \in 1 .. j + k : e[i] \in F
  <2>1. \A i \in 1 .. j + k : e[i] \in {e[x] : x \in 1 .. j + k}
    OBVIOUS
  <2> QED
    BY <2>1
<1>7. /\ \A i \in 1 .. j : e[i] = c[i]
      /\ \A i \in 1 .. k : e[j + i] = d[i]
  <2>1. ASSUME NEW i \in 1 .. j PROVE e[i] = c[i]
    <3>1. i \in 1 .. j + k /\ g[i] = a[i]
      BY <1>5
    <3> QED
      BY <1>4, <3>1
  <2>2. ASSUME NEW i \in 1 .. k PROVE e[j + i] = d[i]
    <3>1. PICK m \in 1 .. j + k : m = j + i /\ ~(m <= j) /\ m - j = i
      OBVIOUS
    <3>2. g[m] = t[i]
      BY <1>5, <3>1
    <3> QED
      BY <1>4, <3>1, <3>2
  <2> QED
    BY <2>1, <2>2
<1>8. \A i \in 1 .. j : c[i] \in F
  <2>1. \A i \in 1 .. j : i \in 1 .. j + k
    OBVIOUS
  <2> QED
    BY <1>6, <1>7, <2>1
<1>9. \A i \in 1 .. k : d[i] \in F
  <2>1. \A i \in 1 .. k : j + i \in 1 .. j + k
    OBVIOUS
  <2> QED
    BY <1>6, <1>7, <2>1
<1>10. c \in Seq(F) /\ Len(c) = j
  <2>1. c = [i \in 1 .. j |-> c[i]]
    BY <1>4
  <2> QED
    BY <1>8, <2>1, FunctionIsSeq
<1>11. d \in Seq(F) /\ Len(d) = k
  <2>1. d = [i \in 1 .. k |-> d[i]]
    BY <1>4
  <2> QED
    BY <1>9, <2>1, FunctionIsSeq
<1>12. e \in Seq(F) /\ Len(e) = j + k
  <2>1. PICK m \in Nat : m = j + k
    OBVIOUS
  <2>2. e = [i \in 1 .. m |-> e[i]] /\ \A i \in 1 .. m : e[i] \in F
    BY <1>4, <1>6, <2>1
  <2>3. e \in Seq(F) /\ Len(e) = m
    BY <2>2, FunctionIsSeq
  <2> QED
    BY <2>1, <2>3
<1>13. e = c \o d
  <2>1. ASSUME NEW u \in Seq(F), NEW v \in Seq(F), NEW w \in Seq(F), u = c, v = d, w = e
        PROVE  w = u \o v
    <3>1. /\ Len(w) = Len(u) + Len(v)
          /\ \A i \in 1 .. Len(u) : w[i] = u[i]
          /\ \A i \in 1 .. Len(v) : w[Len(u) + i] = v[i]
      BY <1>7, <1>10, <1>11, <1>12, <2>1
    <3> QED
      BY ONLY <3>1, ConcatIs
  <2> QED
    BY <1>10, <1>11, <1>12, <2>1
<1> QED
  BY <1>1, <1>13

LEMMA ShrunkLacking ==
  ASSUME NEW Ids, NEW f \in Seq(Entries(Ids)), NEW id, Lacks(f, id), NEW n
  PROVE  Shrunk(f, id, n) = f
BY DEF Shrunk, Lacks

(* What is taken of an order is taken where it is.                         *)
LEMMA LessenedConcat ==
  ASSUME NEW Ids, NEW a \in Seq(Entries(Ids)), NEW t \in Seq(Entries(Ids)),
         NEW id, NEW n, NEW y
  PROVE  Lessened(a \o t, id, n, y) = Lessened(a, id, n, y) \o Lessened(t, id, n, y)
<1>1. WithoutId(a \o t, id) = WithoutId(a, id) \o WithoutId(t, id)
  BY WithoutConcat
<1>2. Shrunk(a \o t, id, n) = Shrunk(a, id, n) \o Shrunk(t, id, n)
  BY ShrunkConcat
<1> QED
  BY <1>1, <1>2 DEF Lessened

LEMMA LessenedLacking ==
  ASSUME NEW Ids, NEW f \in Seq(Entries(Ids)), NEW id, Lacks(f, id), NEW n, NEW y
  PROVE  Lessened(f, id, n, y) = f
BY WithoutLacking, ShrunkLacking DEF Lessened

LEMMA OneEntry ==
  ASSUME NEW Ids, NEW x \in Entries(Ids)
  PROVE  <<x>> \in Seq(Entries(Ids)) /\ Len(<<x>>) = 1 /\ <<x>>[1] = x /\ Volume(<<x>>) = x.qty
<1>1. <<x>> \in Seq(Entries(Ids)) /\ Len(<<x>>) = 1 /\ <<x>>[1] = x
  OBVIOUS
<1>2. PICK f \in Seq(Entries(Ids)) : f = <<x>>
  BY <1>1
<1>3. Shares(f, 1) = x.qty
  <2>1. /\ Shares(f, 0) = 0 /\ \A k \in 1 .. Len(f) : Shares(f, k) = Shares(f, k - 1) + f[k].qty
        /\ \A i \in 1 .. Len(f) : f[i].qty \in Nat
    BY FifoShares
  <2>2. 1 \in 1 .. Len(f) /\ f[1] = x
    BY <1>1, <1>2
  <2>3. Shares(f, 1) = Shares(f, 0) + x.qty /\ x.qty \in Nat
    BY <2>1, <2>2
  <2> QED
    BY <2>1, <2>3
<1> QED
  BY <1>1, <1>2, <1>3 DEF Volume

LEMMA VolumeConcat ==
  ASSUME NEW Ids, NEW a \in Seq(Entries(Ids)), NEW t \in Seq(Entries(Ids))
  PROVE  Volume(a \o t) = Volume(a) + Volume(t)
<1> DEFINE E == Entries(Ids)
<1>a. ASSUME NEW z \in Seq(E), NEW x \in E
      PROVE  Volume(Append(z, x)) = Volume(z) + x.qty /\ x.qty \in Nat /\ Volume(z) \in Nat
  <2>1. x.qty \in Nat
    BY DEF Entries
  <2> QED
    BY <2>1, VolumeAppend, FifoShares
<1>b. ASSUME NEW z \in Seq(E), NEW x \in E
      PROVE  /\ a \o z \in Seq(E)
             /\ a \o Append(z, x) = Append(a \o z, x)
  <2>1. a \o z \in Seq(E)
    BY ConcatFacts
  <2>2. a \o Append(z, x) = Append(a \o z, x)
    BY ConcatAppend
  <2> QED
    BY <2>1, <2>2
<1>c. Volume(a) \in Nat /\ <<>> \in Seq(E) /\ a \o <<>> = a
  BY FifoShares, ConcatFacts
<1>d. Volume(<<>>) = 0
  BY <1>c, FifoShares
<1> DEFINE G == {g \in Seq(E) : Volume(a \o g) = Volume(a) + Volume(g)}
<1>1. <<>> \in G
  BY <1>c, <1>d
<1>2. ASSUME NEW g \in Seq(E), NEW x \in E, g \in G PROVE Append(g, x) \in G
  <2>1. Append(g, x) \in Seq(E)
    BY AppendFacts
  <2>2. PICK h \in Seq(E) : h = a \o g
    BY <1>b
  <2>3. a \o Append(g, x) = Append(h, x)
    BY <1>b, <2>2
  <2>4. Volume(h) = Volume(a) + Volume(g)
    BY <1>2, <2>2
  <2>5. Volume(Append(h, x)) = Volume(h) + x.qty
    BY <1>a
  <2>6. Volume(Append(g, x)) = Volume(g) + x.qty /\ x.qty \in Nat /\ Volume(g) \in Nat
    BY <1>a
  <2>7. Volume(a \o Append(g, x)) = Volume(a) + Volume(Append(g, x))
    <3>1. PICK u, v, w : u = Volume(h) /\ v = Volume(g) /\ w = Volume(a)
      OBVIOUS
    <3>2. Volume(Append(h, x)) = w + (v + x.qty)
      BY <1>c, <2>4, <2>5, <2>6, <3>1
    <3> QED
      BY <2>3, <2>6, <3>1, <3>2
  <2> QED
    BY <2>1, <2>7
<1> HIDE DEF G, E
<1>3. \A g \in Seq(E) : g \in G
  BY <1>1, <1>2, SeqInduction
<1> QED
  BY <1>3 DEF G, E

(* What is taken of an order, its queue has less.                          *)
LEMMA VolumeLessened ==
  ASSUME NEW Ids, NEW f \in Seq(Entries(Ids)), NEW k \in 1 .. Len(f), NEW id, f[k].id = id,
         \A i \in 1 .. Len(f) : f[i].id = id => i = k,
         NEW n \in Nat, n <= f[k].qty,
         NEW g, g = Lessened(f, id, n, f[k].qty)
  PROVE  g \in Seq(Entries(Ids)) /\ Volume(g) = Volume(f) - n
<1>1. /\ f[k].qty \in Nat \ {0} /\ DOMAIN f = 1 .. Len(f) /\ Len(f) \in Nat /\ Volume(f) \in Nat
      /\ \A i \in 1 .. Len(f) : f[i].qty \in Nat \ {0} /\ f[i].id \in Ids
  BY FifoShares
<1>2. CASE n >= f[k].qty
  <2>1. PICK C, D : /\ C = {i \in DOMAIN f : f[i].id # id}
                    /\ D = {i \in DOMAIN f : f[i].id = id}
    OBVIOUS
  <2>2. g = EntriesAt(f, C)
    BY <1>2, <2>1 DEF Lessened, WithoutId
  <2>3. g \in Seq(Entries(Ids))
    BY <2>2, EntriesAtPositions
  <2>4. \A i \in 1 .. Len(f) : i \in C <=> i \notin D
    BY <1>1, <2>1
  <2>5. PICK x, w : x = EntriesAt(f, D) /\ x \in Seq(Entries(Ids)) /\ Positions(w, x, f, D, Len(f))
    BY EntriesAtPositions
  <2>6a. \A i \in 1 .. Len(f) : i \in D <=> i = k
    BY <1>1, <2>1
  <2>6b. /\ \A j \in 1 .. Len(x) : x[j] = f[w[j]] /\ w[j] \in 1 .. Len(f) /\ w[j] \in D
         /\ \A i, j \in 1 .. Len(x) : i < j => w[i] < w[j]
         /\ \A i \in 1 .. Len(f) : i \in D => \E j \in 1 .. Len(x) : w[j] = i
    BY <2>5 DEF Positions
  <2>6. /\ \A j \in 1 .. Len(x) : x[j] = f[w[j]] /\ w[j] = k
        /\ \A i, j \in 1 .. Len(x) : i < j => w[i] < w[j]
        /\ \E j \in 1 .. Len(x) : w[j] = k
    BY <2>6a, <2>6b
  <2>7. Len(x) = 1 /\ x[1] = f[k]
    <3>1. Len(x) \in Nat /\ Len(x) # 0
      BY <2>5, <2>6
    <3>2. Len(x) < 2
      <4> SUFFICES ASSUME 2 <= Len(x) PROVE FALSE
        BY <3>1
      <4>1. 1 \in 1 .. Len(x) /\ 2 \in 1 .. Len(x)
        BY <3>1
      <4>2. w[1] < w[2] /\ w[1] = k /\ w[2] = k
        BY <2>6, <4>1
      <4> QED
        BY <1>1, <4>2
    <3>3. Len(x) = 1
      <4>1. PICK m : m = Len(x)
        OBVIOUS
      <4> QED
        BY <3>1, <3>2, <4>1
    <3> QED
      BY <2>6, <3>3
  <2>8. Volume(x) = f[k].qty
    <3>1. f[k] \in Entries(Ids)
      BY FifoEntries
    <3>2. x = <<f[k]>>
      BY <2>5, <2>7
    <3> QED
      BY <3>1, <3>2, OneEntry
  <2>9. Volume(f) = Volume(EntriesAt(f, C)) + Volume(x) /\ Volume(EntriesAt(f, C)) \in Nat
    BY <2>4, <2>5, VolumeSplit
  <2> QED
    BY <1>1, <1>2, <2>2, <2>3, <2>8, <2>9
<1>3. CASE n < f[k].qty
  <2>1. g = [i \in 1 .. Len(f) |-> IF f[i].id = id THEN [f[i] EXCEPT !.qty = @ - n] ELSE f[i]]
    BY <1>1, <1>3 DEF Lessened, Shrunk
  <2>2. \A i \in 1 .. Len(f) : f[i] \in Entries(Ids)
    BY FifoEntries
  <2>3. /\ \A i \in 1 .. Len(f) : i # k => g[i] = f[i]
        /\ g[k] = [f[k] EXCEPT !.qty = @ - n]
    BY <2>1
  <2>4. g[k] \in Entries(Ids) /\ g[k].qty = f[k].qty - n
    <3>1. PICK x : x = f[k] /\ g[k] = [x EXCEPT !.qty = @ - n]
      BY <2>3
    <3>2. x \in Entries(Ids) /\ n < x.qty
      BY <1>3, <2>2, <3>1
    <3>3. [x EXCEPT !.qty = @ - n] \in Entries(Ids) /\ [x EXCEPT !.qty = @ - n].qty = x.qty - n
      BY <3>2 DEF Entries
    <3> QED
      BY <3>1, <3>3
  <2>5. g \in Seq(Entries(Ids)) /\ Len(g) = Len(f)
    <3>1. \A i \in 1 .. Len(f) : g[i] \in Entries(Ids)
      BY <2>2, <2>3, <2>4
    <3>2. g = [i \in 1 .. Len(f) |-> g[i]]
      BY <2>1
    <3> QED
      BY <1>1, <3>1, <3>2, FunctionIsSeq
  <2>6. PICK S, u, v : /\ S = 1 .. Len(f) /\ u = [i \in 1 .. Len(f) |-> f[i].qty]
                       /\ v = [i \in 1 .. Len(g) |-> g[i].qty]
    OBVIOUS
  <2>7. IsFiniteSet(S) /\ DOMAIN u = S /\ DOMAIN v = S
    BY <1>1, <2>5, <2>6, FS_Interval
  <2>8. Volume(f) = SumFunctionOnSet(u, S) /\ Volume(g) = SumFunctionOnSet(v, S)
    BY <2>6, <2>7, TotalSame DEF Volume, Shares
  <2>9. /\ \A i \in S : u[i] \in Int
        /\ \A i \in S \ {k} : v[i] = u[i]
        /\ u[k] = f[k].qty /\ v[k] = f[k].qty - n /\ k \in S /\ v[k] \in Int
    <3>1. /\ \A i \in S : u[i] = f[i].qty
          /\ \A i \in S : v[i] = g[i].qty
      BY <2>5, <2>6
    <3>2. \A i \in S : i # k => g[i] = f[i]
      BY <2>3, <2>6
    <3>3. k \in S /\ \A i \in S : f[i].qty \in Nat
      BY <1>1, <2>6
    <3>4. v[k] = f[k].qty - n /\ v[k] \in Int /\ u[k] = f[k].qty
      BY <2>4, <3>1, <3>3
    <3>5. \A i \in S : u[i] \in Int
      BY <3>1, <3>3
    <3>6. \A i \in S \ {k} : v[i] = u[i]
      BY <3>1, <3>2
    <3> QED
      BY <3>3, <3>4, <3>5, <3>6
  <2>10. SumFunctionOnSet(v, S) = SumFunctionOnSet(u, S) + v[k] - u[k]
    <3>1. PICK z : z = k
      OBVIOUS
    <3>2. /\ \A i \in S : u[i] \in Int
          /\ \A i \in S \ {z} : v[i] = u[i]
          /\ z \in S /\ v[z] \in Int
      BY <2>9, <3>1
    <3>3. SumFunctionOnSet(v, S) = SumFunctionOnSet(u, S) + v[z] - u[z]
      BY <2>7, <3>2, SumChange
    <3> QED
      BY <3>1, <3>3
  <2> QED
    BY <1>1, <2>5, <2>8, <2>9, <2>10
<1> QED
  BY <1>1, <1>2, <1>3

-----------------------------------------------------------------------------
(* The mirrored book.                                                      *)

\* Ids of orders that rested before the window, and of those that came in it.
Before == MaxNewOrders + 1 .. SYNTHETIC_ID_BASE - 1
During == 0 .. MaxNewOrders

\* The stand-in for the orders of h.
StandIn(h, seed) == IF h = <<>> THEN <<>> ELSE <<[id |-> seed, qty |-> Volume(h)]>>

\* f reconstructs the venue's queue g.
LevelMirrors(f, g, seeded, seed) ==
  \E h \in Fifos(Before), t \in Fifos(During) :
    g = h \o t /\ f = StandIn(h, seed) \o t /\ (seeded <=> h # <<>>)

\* r reconstructs the book v, level by level.
Mirrors(r, v) ==
  \A s \in Side, p \in Price :
    LevelMirrors(r.book[s][p], v[s][p], <<s, p>> \in DOMAIN r.seeds, r.seeds[<<s, p>>])

\* An id of our own.
IsSeed(seed) == seed \in Nat /\ SYNTHETIC_ID_BASE <= seed

(* The three kinds of ids: before the window, introduced in it, ours.      *)
LEMMA IdBounds ==
  /\ MaxNewOrders \in Nat /\ SYNTHETIC_ID_BASE \in Nat /\ MaxNewOrders < SYNTHETIC_ID_BASE
  /\ Before \subseteq Nat /\ During \subseteq Nat
  /\ \A x \in Before : x > MaxNewOrders /\ ~IsSynthetic(x)
  /\ \A x \in During : ~(x > MaxNewOrders) /\ x <= MaxNewOrders /\ ~IsSynthetic(x)
BY VenueAssumption, ReplayAssumption DEF Before, During, IsSynthetic

LEMMA MoreFifos ==
  ASSUME NEW Ids, NEW More, Ids \subseteq More, NEW f \in Fifos(Ids)
  PROVE  f \in Fifos(More)
<1>1. Entries(Ids) \subseteq Entries(More)
  BY DEF Entries
<1> QED
  BY <1>1 DEF Fifos

(* A stand-in has the shares it stands for and an id of ours.              *)
LEMMA StandInFacts ==
  ASSUME NEW h \in Fifos(Before), NEW seed, h # <<>> => IsSeed(seed), NEW a, a = StandIn(h, seed)
  PROVE  /\ a \in Seq(Entries(Nat)) /\ Volume(a) = Volume(h) /\ Volume(h) \in Nat
         /\ a = <<>> <=> h = <<>>
         /\ \A i \in 1 .. Len(a) : i = 1 /\ a[i].id = seed /\ IsSynthetic(a[i].id)
         /\ h # <<>> => Len(a) = 1 /\ a[1].qty = Volume(h) /\ Volume(h) \in Nat \ {0}
<1>1. h \in Seq(Entries(Before))
  BY DEF Fifos
<1>2. Volume(h) \in Nat /\ (Volume(h) = 0 <=> h = <<>>)
  BY <1>1, FifoShares
<1>3. CASE h = <<>>
  <2>1. a = <<>>
    BY <1>3 DEF StandIn
  <2>2. <<>> \in Seq(Entries(Nat)) /\ \A i \in 1 .. Len(<<>>) : FALSE
    OBVIOUS
  <2>3. Volume(a) = Volume(h)
    BY <1>3, <2>1
  <2>4. a \in Seq(Entries(Nat)) /\ \A i \in 1 .. Len(a) : FALSE
    BY <2>1, <2>2
  <2> QED
    BY <1>2, <1>3, <2>1, <2>3, <2>4
<1>4. CASE h # <<>>
  <2>1. PICK x \in Entries(Nat) : x = [id |-> seed, qty |-> Volume(h)]
    BY <1>2, <1>4 DEF Entries, IsSeed
  <2>2. a = <<x>>
    BY <1>4, <2>1 DEF StandIn
  <2>3. a \in Seq(Entries(Nat)) /\ Len(a) = 1 /\ a[1] = x /\ Volume(a) = x.qty
    BY <2>2, OneEntry
  <2>4. a # <<>>
    BY <2>3
  <2> QED
    BY <1>2, <1>4, <2>1, <2>3, <2>4, ReplayAssumption DEF IsSeed, IsSynthetic
<1> QED
  BY <1>3, <1>4

LEMMA EmptyConcat ==
  ASSUME NEW E, NEW a \in Seq(E), NEW t \in Seq(E)
  PROVE  a \o t = <<>> <=> a = <<>> /\ t = <<>>
OBVIOUS

(* A mirrored queue has the shares of the venue's, and is empty when that  *)
(* is.                                                                     *)
LEMMA MirrorParts ==
  ASSUME NEW h \in Fifos(Before), NEW t \in Fifos(During), NEW seed, h # <<>> => IsSeed(seed),
         NEW a, a = StandIn(h, seed)
  PROVE  /\ a \in Seq(Entries(Nat)) /\ h \in Seq(Entries(Nat)) /\ t \in Seq(Entries(Nat))
         /\ Volume(a \o t) = Volume(h \o t)
         /\ a \o t = <<>> <=> h \o t = <<>>
<1>1. a \in Seq(Entries(Nat)) /\ Volume(a) = Volume(h) /\ (a = <<>> <=> h = <<>>)
  BY StandInFacts
<1>2. h \in Seq(Entries(Nat)) /\ t \in Seq(Entries(Nat))
  BY IdBounds, MoreFifos DEF Fifos
<1>3. Volume(a \o t) = Volume(a) + Volume(t)
  BY <1>1, <1>2, VolumeConcat
<1>4. Volume(h \o t) = Volume(h) + Volume(t)
  BY <1>1, <1>2, VolumeConcat
<1>5. a \o t = <<>> <=> a = <<>> /\ t = <<>>
  BY <1>1, <1>2, EmptyConcat
<1>6. h \o t = <<>> <=> h = <<>> /\ t = <<>>
  BY <1>1, <1>2, EmptyConcat
<1> QED
  BY <1>1, <1>2, <1>3, <1>4, <1>5, <1>6

(* The part of a queue that has ids of one kind.                           *)
LEMMA ConcatSplits ==
  ASSUME NEW Ids, NEW a \in Seq(Entries(Ids)), NEW t \in Seq(Entries(Ids)), NEW P,
         \A i \in 1 .. Len(a) : a[i].id \notin P, \A i \in 1 .. Len(t) : t[i].id \in P
  PROVE  WithIds(a \o t, P) = t
<1>1. WithIds(a, P) = <<>>
  BY WithIdsNone
<1>2. WithIds(t, P) = t
  BY WithIdsAll
<1>3. WithIds(a \o t, P) = WithIds(a, P) \o WithIds(t, P)
  BY WithIdsConcat
<1>4. <<>> \o t = t
  OBVIOUS
<1> QED
  BY <1>1, <1>2, <1>3, <1>4

LEMMA ConcatSplitsFirst ==
  ASSUME NEW Ids, NEW a \in Seq(Entries(Ids)), NEW t \in Seq(Entries(Ids)), NEW P,
         \A i \in 1 .. Len(a) : a[i].id \in P, \A i \in 1 .. Len(t) : t[i].id \notin P
  PROVE  WithIds(a \o t, P) = a
<1>1. WithIds(a, P) = a
  BY WithIdsAll
<1>2. WithIds(t, P) = <<>>
  BY WithIdsNone
<1>3. WithIds(a \o t, P) = WithIds(a, P) \o WithIds(t, P)
  BY WithIdsConcat
<1>4. a \o <<>> = a
  OBVIOUS
<1> QED
  BY <1>1, <1>2, <1>3, <1>4

\* The part of a queue that messages have introduced, and the rest.
Arrived(f) == EntriesAt(f, {i \in DOMAIN f : f[i].id <= MaxNewOrders})
Waiting(f) == EntriesAt(f, {i \in DOMAIN f : f[i].id > MaxNewOrders})

(* The orders that the venue told us of are those that messages have       *)
(* introduced, and the rest are what the stand-in stands for.              *)
LEMMA MirrorTold ==
  ASSUME NEW h \in Fifos(Before), NEW t \in Fifos(During), NEW seed, h # <<>> => IsSeed(seed),
         NEW a, a = StandIn(h, seed)
  PROVE  /\ Told(a \o t) = t
         /\ Arrived(h \o t) = t
         /\ Waiting(h \o t) = h
<1>1. PICK f, g : f = a \o t /\ g = h \o t
  OBVIOUS
<1>2. a \in Seq(Entries(Nat)) /\ h \in Seq(Entries(Nat)) /\ t \in Seq(Entries(Nat))
  BY <1>1, MirrorParts
<1>3. /\ \A i \in 1 .. Len(a) : IsSynthetic(a[i].id)
      /\ \A i \in 1 .. Len(h) : h[i].id > MaxNewOrders /\ ~(h[i].id <= MaxNewOrders)
      /\ \A i \in 1 .. Len(t) : /\ ~(t[i].id > MaxNewOrders) /\ t[i].id <= MaxNewOrders
                                /\ ~IsSynthetic(t[i].id)
  <2>1. \A i \in 1 .. Len(a) : IsSynthetic(a[i].id)
    BY <1>1, StandInFacts
  <2>2. \A i \in 1 .. Len(h) : h[i].id \in Before
    BY FifoShares DEF Fifos
  <2>3. \A i \in 1 .. Len(t) : t[i].id \in During
    BY FifoShares DEF Fifos
  <2>4. \A x \in Before : ~(x <= MaxNewOrders)
    BY IdBounds
  <2> QED
    BY <2>1, <2>2, <2>3, <2>4, IdBounds
<1>4. /\ f \in Seq(Entries(Nat)) /\ g \in Seq(Entries(Nat))
  BY <1>1, <1>2, ConcatFacts
<1>5. /\ \A i \in DOMAIN f : f[i].id \in Nat
      /\ \A i \in DOMAIN g : g[i].id \in Nat
      /\ \A i \in 1 .. Len(a) : a[i].id \in Nat
      /\ \A i \in 1 .. Len(h) : h[i].id \in Nat
      /\ \A i \in 1 .. Len(t) : t[i].id \in Nat
  BY <1>2, <1>4, FifoShares
<1>6. PICK P, Q, R : /\ P = {x \in Nat : ~IsSynthetic(x)}
                     /\ Q = {x \in Nat : x <= MaxNewOrders}
                     /\ R = {x \in Nat : x > MaxNewOrders}
  OBVIOUS
<1>7. Told(f) = WithIds(f, P)
  <2>1. {i \in DOMAIN f : ~IsSynthetic(f[i].id)} = {i \in DOMAIN f : f[i].id \in P}
    BY <1>5, <1>6
  <2> QED
    BY <2>1 DEF Told, WithIds
<1>8. Arrived(g) = WithIds(g, Q)
  <2>1. {i \in DOMAIN g : g[i].id <= MaxNewOrders} = {i \in DOMAIN g : g[i].id \in Q}
    BY <1>5, <1>6
  <2> QED
    BY <2>1 DEF WithIds, Arrived
<1>9. Waiting(g) = WithIds(g, R)
  <2>1. {i \in DOMAIN g : g[i].id > MaxNewOrders} = {i \in DOMAIN g : g[i].id \in R}
    BY <1>5, <1>6
  <2> QED
    BY <2>1 DEF WithIds, Waiting
<1>10. WithIds(a \o t, P) = t
  <2>1. \A i \in 1 .. Len(a) : a[i].id \notin P
    BY <1>3, <1>6
  <2>2. \A i \in 1 .. Len(t) : t[i].id \in P
    BY <1>3, <1>5, <1>6
  <2> QED
    BY <1>2, <2>1, <2>2, ConcatSplits
<1>11. WithIds(h \o t, Q) = t
  <2>1. \A i \in 1 .. Len(h) : h[i].id \notin Q
    BY <1>3, <1>6
  <2>2. \A i \in 1 .. Len(t) : t[i].id \in Q
    BY <1>3, <1>5, <1>6
  <2> QED
    BY <1>2, <2>1, <2>2, ConcatSplits
<1>12. WithIds(h \o t, R) = h
  <2>1. \A i \in 1 .. Len(h) : h[i].id \in R
    BY <1>3, <1>5, <1>6
  <2>2. \A i \in 1 .. Len(t) : t[i].id \notin R
    BY <1>3, <1>6
  <2> QED
    BY <1>2, <2>1, <2>2, ConcatSplitsFirst
<1> QED
  BY <1>1, <1>7, <1>8, <1>9, <1>10, <1>11, <1>12

SeedsOK(r) == \A k \in DOMAIN r.seeds : IsSeed(r.seeds[k])

LEMMA RecSeeds ==
  ASSUME NEW r, RecOK(r)
  PROVE  SeedsOK(r)
BY ReplayAssumption DEF RecOK, SeedsOK, IsSeed

(* A reconstruction that mirrors a book has its levels and their sizes.    *)
LEMMA MirrorSame ==
  ASSUME NEW r, SeedsOK(r), NEW v, Mirrors(r, v)
  PROVE  /\ \A s \in Side, p \in Price : /\ Volume(r.book[s][p]) = Volume(v[s][p])
                                         /\ r.book[s][p] = <<>> <=> v[s][p] = <<>>
         /\ \A s \in Side : Tracked(r.book, s) = Tracked(v, s)
<1>1. ASSUME NEW s \in Side, NEW p \in Price
      PROVE  /\ Volume(r.book[s][p]) = Volume(v[s][p])
             /\ r.book[s][p] = <<>> <=> v[s][p] = <<>>
  <2>1. PICK h \in Fifos(Before), t \in Fifos(During) :
          /\ v[s][p] = h \o t /\ r.book[s][p] = StandIn(h, r.seeds[<<s, p>>]) \o t
          /\ <<s, p>> \in DOMAIN r.seeds <=> h # <<>>
    BY DEF Mirrors, LevelMirrors
  <2>2. PICK seed : seed = r.seeds[<<s, p>>]
    OBVIOUS
  <2>3. h # <<>> => IsSeed(seed)
    BY <2>1, <2>2 DEF SeedsOK
  <2>4. /\ Volume(StandIn(h, seed) \o t) = Volume(h \o t)
        /\ StandIn(h, seed) \o t = <<>> <=> h \o t = <<>>
    BY <2>3, MirrorParts
  <2> QED
    BY <2>1, <2>2, <2>4
<1>2. \A s \in Side : Tracked(r.book, s) = Tracked(v, s)
  BY <1>1 DEF Tracked
<1> QED
  BY <1>1, <1>2

(* ... so the same rows, and the same room for a new order.                *)
LEMMA MirrorDepth ==
  ASSUME NEW r, SeedsOK(r), NEW v, Mirrors(r, v), NEW s \in Side, NEW n \in Nat
  PROVE  Depth(r.book, s, n) = Depth(v, s, n)
<1>1. PICK b : b = r.book
  OBVIOUS
<1>2. Tracked(b, s) = Tracked(v, s) /\ \A p \in Price : Volume(b[s][p]) = Volume(v[s][p])
  BY <1>1, MirrorSame
<1>3. Size(b, s) = Size(v, s) /\ \A i : PriceAt(b, s, i) = PriceAt(v, s, i)
  BY <1>2 DEF Size, PriceAt
<1>4. \A i \in 1 .. DepthLen(b, s, n) : LevelAt(b, s, i) = LevelAt(v, s, i)
  <2> SUFFICES ASSUME NEW i \in 1 .. DepthLen(b, s, n) PROVE LevelAt(b, s, i) = LevelAt(v, s, i)
    OBVIOUS
  <2>1. i \in 1 .. Size(b, s)
    <3>1. Size(b, s) \in Nat
      BY TrackedFinite
    <3> QED
      BY <3>1 DEF DepthLen
  <2>2. PriceAt(b, s, i) \in Tracked(b, s)
    BY <2>1, PriceAtRank
  <2>3. PriceAt(b, s, i) \in Price
    BY <2>2 DEF Tracked
  <2>4. Volume(b[s][PriceAt(b, s, i)]) = Volume(v[s][PriceAt(b, s, i)])
    BY <1>2, <2>3
  <2> QED
    BY <1>3, <2>4 DEF LevelAt
<1>5. DepthLen(b, s, n) = DepthLen(v, s, n)
  BY <1>3 DEF DepthLen
<1>6. /\ Depth(b, s, n) = [i \in 1 .. DepthLen(b, s, n) |-> LevelAt(b, s, i)]
      /\ Depth(v, s, n) = [i \in 1 .. DepthLen(v, s, n) |-> LevelAt(v, s, i)]
  BY DEF Depth, DepthLen
<1> QED
  BY <1>1, <1>4, <1>5, <1>6

LEMMA MirrorClear ==
  ASSUME NEW r, SeedsOK(r), NEW v, Mirrors(r, v), NEW s \in Side, NEW p
  PROVE  Clear(r.book, s, p) <=> Clear(v, s, p)
<1>1. Opposite(s) \in Side
  BY DEF Opposite, Side
<1>2. Tracked(r.book, Opposite(s)) = Tracked(v, Opposite(s))
  BY <1>1, MirrorSame
<1> QED
  BY <1>2 DEF Clear

\* The level that was at s and p of r and v is still there.
LevelKept(r, v, q, w, s, p) ==
  /\ q.book[s][p] = r.book[s][p] /\ w[s][p] = v[s][p]
  /\ <<s, p>> \in DOMAIN q.seeds <=> <<s, p>> \in DOMAIN r.seeds
  /\ <<s, p>> \in DOMAIN q.seeds => q.seeds[<<s, p>>] = r.seeds[<<s, p>>]

(* A step that keeps some levels and mirrors the others mirrors the book.  *)
LEMMA MirrorsStep ==
  ASSUME NEW r, NEW v, Mirrors(r, v), NEW q, NEW w,
         \A s \in Side, p \in Price :
           \/ LevelKept(r, v, q, w, s, p)
           \/ LevelMirrors(q.book[s][p], w[s][p], <<s, p>> \in DOMAIN q.seeds, q.seeds[<<s, p>>])
  PROVE  Mirrors(q, w)
<1> SUFFICES ASSUME NEW s \in Side, NEW p \in Price
             PROVE  LevelMirrors(q.book[s][p], w[s][p], <<s, p>> \in DOMAIN q.seeds,
                                 q.seeds[<<s, p>>])
  BY DEF Mirrors
<1>1. CASE LevelKept(r, v, q, w, s, p)
  <2>1. PICK h \in Fifos(Before), t \in Fifos(During) :
          /\ v[s][p] = h \o t /\ r.book[s][p] = StandIn(h, r.seeds[<<s, p>>]) \o t
          /\ <<s, p>> \in DOMAIN r.seeds <=> h # <<>>
    BY DEF Mirrors, LevelMirrors
  <2>2. StandIn(h, r.seeds[<<s, p>>]) = StandIn(h, q.seeds[<<s, p>>])
    BY <1>1, <2>1 DEF LevelKept, StandIn
  <2>3. /\ w[s][p] = h \o t /\ q.book[s][p] = StandIn(h, q.seeds[<<s, p>>]) \o t
        /\ <<s, p>> \in DOMAIN q.seeds <=> h # <<>>
    BY <1>1, <2>1, <2>2 DEF LevelKept
  <2> QED
    BY <2>3 DEF LevelMirrors
<1> QED
  BY <1>1

-----------------------------------------------------------------------------
(* When the rows show the whole book, each level is listed.                *)
LEMMA RowIsBook ==
  ASSUME PubIsVenue, WindowIsComplete, NEW s \in Side
  PROVE  /\ Published(s) = Tracked(venue, s)
         /\ Size(venue, s) <= FileLevels
<1>1. Tracked(venue, s) \subseteq Price /\ IsFiniteSet(Price)
  BY SlotsFinite DEF Tracked
<1>2. Size(venue, s) <= Cardinality(Price) /\ Size(venue, s) \in Nat /\ Cardinality(Price) \in Nat
  BY <1>1, FS_Subset, FS_CardinalityType DEF Size
<1>3. Size(venue, s) <= FileLevels /\ FileLevels \in Nat
  BY <1>2, VenueAssumption DEF WindowIsComplete
<1>4. pub[s] = Depth(venue, s, FileLevels)
  BY DEF PubIsVenue
<1>5. {pub[s][i].price : i \in DOMAIN pub[s]} = Tracked(venue, s)
  BY <1>3, <1>4, DepthSorts
<1> QED
  BY <1>3, <1>5 DEF Published

(* The repairs find nothing to repair.                                     *)
LEMMA PruneMirrored ==
  ASSUME PubIsVenue, WindowIsComplete, NEW r, RecOK(r), Mirrors(r, venue)
  PROVE  Mirrors(PrunePhantomLevels(r), venue)
<1>1. PICK q : q = PrunePhantomLevels(r)
  OBVIOUS
<1>2. \A s \in Side : Doomed(r.book, s) = {}
  <2> SUFFICES ASSUME NEW s \in Side, NEW p \in Doomed(r.book, s) PROVE FALSE
    OBVIOUS
  <2>1. p \in Top(r.book, s) /\ p \notin Published(s)
    BY DEF Doomed
  <2>2. p \in Tracked(r.book, s)
    <3>1. Levels \in Nat
      BY ReplayAssumption
    <3>2. PICK i \in DOMAIN Depth(r.book, s, Levels) : p = Depth(r.book, s, Levels)[i].price
      BY <2>1 DEF Top
    <3>3. i \in 1 .. DepthLen(r.book, s, Levels) /\ p = LevelAt(r.book, s, i).price
      BY <3>1, <3>2, DepthFacts
    <3>4. i \in 1 .. Size(r.book, s)
      <4>1. Size(r.book, s) \in Nat
        BY TrackedFinite
      <4> QED
        BY <3>1, <3>3, <4>1 DEF DepthLen
    <3>5. PriceAt(r.book, s, i) \in Tracked(r.book, s)
      BY <3>4, PriceAtRank
    <3> QED
      BY <3>3, <3>5 DEF LevelAt
  <2>3. Tracked(r.book, s) = Tracked(venue, s)
    BY MirrorSame, RecSeeds
  <2> QED
    BY <2>1, <2>2, <2>3, RowIsBook
<1>3. \A s \in Side, p \in Price : q.book[s][p] = r.book[s][p]
  BY <1>1, <1>2, PruneRec
<1>4. q.seeds = [k \in DOMAIN r.seeds |-> r.seeds[k]]
  <2>1. q.seeds = Without(r.seeds, {k \in DOMAIN r.seeds : k[2] \in Doomed(r.book, k[1])})
    BY <1>1 DEF PrunePhantomLevels
  <2>2. {k \in DOMAIN r.seeds : k[2] \in Doomed(r.book, k[1])} = {}
    <3>1. \A k \in DOMAIN r.seeds : k[1] \in Side
      BY DEF RecOK
    <3> QED
      BY <1>2, <3>1
  <2> QED
    BY <2>1, <2>2 DEF Without
<1>5. \A s \in Side, p \in Price : LevelKept(r, venue, q, venue, s, p)
  BY <1>3, <1>4 DEF LevelKept
<1> QED
  BY <1>1, <1>5, MirrorsStep

LEMMA RecoverMirrored ==
  ASSUME PubIsVenue, BookOK(venue, VenueIds), NEW r, RecOK(r), Mirrors(r, venue), NEW s \in Side
  PROVE  RecoverSide(r, s) = r
<1>1. /\ Lists(pub[s]) /\ Len(pub[s]) \in Nat
      /\ \A m \in 1 .. Len(pub[s]) : pub[s][m].price \in Tracked(venue, s)
  <2>1. Lists(pub[s]) /\ Published(s) \subseteq Tracked(venue, s)
    BY RowFacts
  <2>2. \A m \in 1 .. Len(pub[s]) : pub[s][m].price \in Published(s)
    BY RowFacts
  <2> QED
    BY <2>1, <2>2, ListsFacts
<1>2. PICK f : RecoveringRun(f, r, s)
  BY <1>1, RecoverSideSteps
<1>3. \A m \in 1 .. Len(pub[s]) : r.book[s][pub[s][m].price] # <<>>
  <2>1. Tracked(r.book, s) = Tracked(venue, s)
    BY MirrorSame, RecSeeds
  <2> QED
    BY <1>1, <2>1 DEF Tracked
<1> DEFINE G == {n \in Nat : n <= Len(pub[s]) => f[n] = r}
<1>4. 0 \in G
  BY <1>2 DEF RecoveringRun
<1>5. ASSUME NEW n \in Nat, n \in G PROVE n + 1 \in G
  <2> SUFFICES ASSUME n + 1 <= Len(pub[s]) PROVE f[n + 1] = r
    OBVIOUS
  <2>1. f[n] = r
    BY <1>1, <1>5
  <2>2. PICK m \in 1 .. Len(pub[s]) : m = n + 1 /\ m - 1 = n
    BY <1>1
  <2>3. f[m] = Adopt(f[m - 1], s, pub[s][m])
    BY <1>2 DEF RecoveringRun
  <2>4. Adopt(r, s, pub[s][m]) = r
    BY <1>3 DEF Adopt
  <2> QED
    BY <2>1, <2>2, <2>3, <2>4
<1> HIDE DEF G
<1>6. \A n \in Nat : n \in G
  BY <1>4, <1>5, NumberInduction
<1>7. f[Len(pub[s])] = r
  BY <1>1, <1>6 DEF G
<1> QED
  BY <1>2, <1>7 DEF RecoveringRun

LEMMA ResyncMirrored ==
  ASSUME PubIsVenue, BookOK(venue, VenueIds), NEW r, RecOK(r), Mirrors(r, venue), NEW s \in Side
  PROVE  ResyncSide(r, s) = r
<1>1. /\ Lists(pub[s]) /\ Len(Window(s)) \in Nat
      /\ \A m \in 1 .. Len(Window(s)) : /\ Window(s)[m] = pub[s][m] /\ m \in 1 .. Len(pub[s])
                                        /\ pub[s][m] \in Listed
                                        /\ pub[s][m].volume = Volume(venue[s][pub[s][m].price])
  <2>1. Lists(pub[s])
    BY RowFacts
  <2>2. /\ Lists(Window(s))
        /\ \A m \in 1 .. Len(Window(s)) : Window(s)[m] = pub[s][m] /\ m \in 1 .. Len(pub[s])
    BY <2>1, WindowFacts
  <2>3. \A m \in 1 .. Len(pub[s]) : pub[s][m].volume = Volume(venue[s][pub[s][m].price])
    BY RowFacts
  <2>4. Len(Window(s)) \in Nat /\ \A m \in 1 .. Len(pub[s]) : pub[s][m] \in Listed
    BY <2>1, <2>2, ListsFacts
  <2> QED
    BY <2>1, <2>2, <2>3, <2>4
<1>2. PICK f : ResyncingRun(f, r, s)
  BY <1>1, ResyncSideSteps
<1>3. \A m \in 1 .. Len(Window(s)) : Drift(r.book, s, Window(s)[m]) = 0
  <2> SUFFICES ASSUME NEW m \in 1 .. Len(Window(s)) PROVE Drift(r.book, s, Window(s)[m]) = 0
    OBVIOUS
  <2>1. PICK l \in Listed : l = Window(s)[m] /\ l.volume = Volume(venue[s][l.price])
    BY <1>1
  <2>2. l.price \in Price /\ l.volume \in Nat
    BY DEF Listed
  <2>3. Volume(r.book[s][l.price]) = l.volume
    BY <2>1, <2>2, MirrorSame, RecSeeds
  <2> QED
    BY <2>1, <2>2, <2>3 DEF Drift
<1> DEFINE G == {n \in Nat : n <= Len(Window(s)) => f[n] = r}
<1>4. 0 \in G
  BY <1>2 DEF ResyncingRun
<1>5. ASSUME NEW n \in Nat, n \in G PROVE n + 1 \in G
  <2> SUFFICES ASSUME n + 1 <= Len(Window(s)) PROVE f[n + 1] = r
    OBVIOUS
  <2>1. f[n] = r
    BY <1>1, <1>5
  <2>2. PICK m \in 1 .. Len(Window(s)) : m = n + 1 /\ m - 1 = n
    BY <1>1
  <2>3. f[m] = ResyncLevel(f[m - 1], s, Window(s)[m])
    BY <1>2 DEF ResyncingRun
  <2>4. ResyncLevel(r, s, Window(s)[m]) = r
    BY <1>3 DEF ResyncLevel
  <2> QED
    BY <2>1, <2>2, <2>3, <2>4
<1> HIDE DEF G
<1>6. \A n \in Nat : n \in G
  BY <1>4, <1>5, NumberInduction
<1>7. f[Len(Window(s))] = r
  BY <1>1, <1>6 DEF G
<1> QED
  BY <1>2, <1>7 DEF ResyncingRun

(* ... and the comparison nothing to report.                               *)
LEMMA ComparedMirrored ==
  ASSUME PubIsVenue, RecOK(rec), Mirrors(rec, venue)
  PROVE  Compared
<1>1. Levels \in Nat
  BY ReplayAssumption
<1>2. TopAgrees
  BY <1>1, MirrorDepth, RecSeeds DEF TopAgrees
<1> QED
  BY <1>2, ComparedIsTopAgrees

-----------------------------------------------------------------------------
(* What a message of the feed says happened to the venue's book.           *)
NewOrderRests(v, m, w) ==
  /\ m.event = "NEW_LIMIT" /\ m.side \in Side /\ m.price \in Price /\ m.size \in Nat \ {0}
  /\ m.order_id \in During /\ ~Holds(v, m.order_id) /\ Clear(v, m.side, m.price)
  /\ w = Stacked(v, m.side, m.price, m.order_id, m.size)

OrderShrinks(v, m, w) ==
  /\ Reduces(m.event)
  /\ w = ReduceOrder(v, m.order_id, m.size)
  /\ \E o \in Resting(v) :
       /\ m.order_id = o.id /\ m.price = o.price /\ m.side = o.side
       /\ m.size \in Nat \ {0} /\ m.size <= o.qty
       /\ m.event = "FULL_DELETE" => m.size = o.qty

NothingHappens(v, m, w) == m.event \in {"EXEC_HIDDEN", "CROSS", "HALT"} /\ w = v

\* m tells how v became w.
Follows(v, m, w) == NewOrderRests(v, m, w) \/ OrderShrinks(v, m, w) \/ NothingHappens(v, m, w)

(* What the venue does in a message is one of the three.                   *)
LEMMA MessageFollows ==
  ASSUME VenueOK, NEW m \in Messages, Happens(m)
  PROVE  Follows(venue, m, venue')
<1>1. CASE m \in NewLimits
  <2>1. PICK n \in Qty, p \in Price, s \in Side :
          m = Message("NEW_LIMIT", arrivals + 1, n, p, s)
    BY <1>1 DEF NewLimits
  <2>2. /\ m.event = "NEW_LIMIT" /\ m.order_id = arrivals + 1 /\ m.size = n
        /\ m.side = s /\ m.price = p
    BY <2>1 DEF Message
  <2>3. n \in Nat \ {0}
    BY BookAssumption DEF Qty
  <2>4. Clear(venue, m.side, m.price)
    BY <1>1 DEF NewLimits, Clear
  <2>5. arrivals < MaxNewOrders /\ arrivals \in Nat /\ MaxNewOrders \in Nat
    BY <2>2, VenueAssumption DEF Happens, VenueOK
  <2>6. ~Holds(venue, arrivals + 1) /\ arrivals + 1 \in During
    BY <2>5 DEF VenueOK, During
  <2>7. venue' = Stacked(venue, m.side, m.price, m.order_id, m.size)
    BY <2>2 DEF Happens, After, Stacked
  <2> QED
    BY <2>2, <2>3, <2>4, <2>6, <2>7 DEF Follows, NewOrderRests
<1>2. ASSUME NEW o \in Resting(venue), NEW n \in 1 .. o.qty, NEW event,
             event \in {"PARTIAL_CANCEL", "EXEC_VISIBLE", "FULL_DELETE"},
             event = "FULL_DELETE" => n = o.qty,
             m = Message(event, o.id, n, o.price, o.side)
      PROVE  OrderShrinks(venue, m, venue')
  <2>1. o.qty \in Nat
    BY RestingLevel DEF VenueOK
  <2>2. /\ m.event = event /\ m.order_id = o.id /\ m.size = n
        /\ m.side = o.side /\ m.price = o.price
    BY <1>2 DEF Message
  <2>3. n \in Nat \ {0} /\ n <= o.qty
    BY <2>1
  <2>4. venue' = ReduceOrder(venue, m.order_id, m.size)
    BY <1>2, <2>2 DEF Happens, After
  <2>5. Reduces(m.event)
    BY <1>2, <2>2 DEF Reduces
  <2> QED
    BY <1>2, <2>2, <2>3, <2>4, <2>5 DEF OrderShrinks
<1>3. CASE m \in Cancels
  <2>1. PICK o \in Resting(venue) : \E n \in 1 .. o.qty :
          m = Message(IF n = o.qty THEN "FULL_DELETE" ELSE "PARTIAL_CANCEL",
                      o.id, n, o.price, o.side)
    BY <1>3 DEF Cancels
  <2>2. PICK n \in 1 .. o.qty :
          m = Message(IF n = o.qty THEN "FULL_DELETE" ELSE "PARTIAL_CANCEL",
                      o.id, n, o.price, o.side)
    BY <2>1
  <2>3. PICK event : event = IF n = o.qty THEN "FULL_DELETE" ELSE "PARTIAL_CANCEL"
    OBVIOUS
  <2>4. /\ event \in {"PARTIAL_CANCEL", "EXEC_VISIBLE", "FULL_DELETE"}
        /\ event = "FULL_DELETE" => n = o.qty
    BY <2>3
  <2>5. m = Message(event, o.id, n, o.price, o.side)
    BY <2>2, <2>3
  <2>6. OrderShrinks(venue, m, venue')
    BY <1>2, <2>4, <2>5
  <2> QED
    BY <2>6 DEF Follows
<1>4. CASE m \in Executions
  <2>1. PICK o \in Resting(venue) : \E n \in 1 .. o.qty :
          m = Message("EXEC_VISIBLE", o.id, n, o.price, o.side)
    BY <1>4 DEF Executions
  <2>2. PICK n \in 1 .. o.qty : m = Message("EXEC_VISIBLE", o.id, n, o.price, o.side)
    BY <2>1
  <2>3. OrderShrinks(venue, m, venue')
    BY <1>2, <2>2
  <2> QED
    BY <2>3 DEF Follows
<1>5. CASE m \in OffBook
  <2>1. m.event \in {"EXEC_HIDDEN", "CROSS", "HALT"}
    BY <1>5 DEF OffBook, Message
  <2>2. venue' = venue
    BY <2>1 DEF Happens, After
  <2> QED
    BY <2>1, <2>2 DEF Follows, NothingHappens
<1> QED
  BY <1>1, <1>3, <1>4, <1>5 DEF Messages

-----------------------------------------------------------------------------
(* An order the messages have not introduced is ours or rests at the venue *)
(* too.                                                                    *)
LEMMA MirrorHolds ==
  ASSUME NEW r, SeedsOK(r), NEW v, Mirrors(r, v), NEW id, Holds(r.book, id)
  PROVE  IsSynthetic(id) \/ (id \in During /\ Holds(v, id))
<1>1. PICK s \in Side, p \in Price : \E i \in 1 .. Len(r.book[s][p]) : r.book[s][p][i].id = id
  BY DEF Holds
<1>2. PICK h \in Fifos(Before), t \in Fifos(During) :
        /\ v[s][p] = h \o t /\ r.book[s][p] = StandIn(h, r.seeds[<<s, p>>]) \o t
        /\ <<s, p>> \in DOMAIN r.seeds <=> h # <<>>
  BY DEF Mirrors, LevelMirrors
<1>3. PICK seed, a, f, g : /\ seed = r.seeds[<<s, p>>] /\ a = StandIn(h, seed)
                           /\ f = a \o t /\ g = h \o t
  OBVIOUS
<1>4. h # <<>> => IsSeed(seed)
  BY <1>2, <1>3 DEF SeedsOK
<1>5. a \in Seq(Entries(Nat)) /\ h \in Seq(Entries(Nat)) /\ t \in Seq(Entries(Nat))
  BY <1>3, <1>4, MirrorParts
<1>6. /\ Len(a) \in Nat /\ Len(t) \in Nat /\ Len(f) = Len(a) + Len(t)
      /\ \A i \in 1 .. Len(f) : f[i] = IF i <= Len(a) THEN a[i] ELSE t[i - Len(a)]
  BY <1>3, <1>5, ConcatFacts
<1>7. /\ Len(h) \in Nat /\ Len(g) = Len(h) + Len(t)
      /\ \A i \in 1 .. Len(t) : g[Len(h) + i] = t[i]
  BY <1>3, <1>5, ConcatFacts
<1>8. PICK i \in 1 .. Len(f) : f[i].id = id
  BY <1>1, <1>2, <1>3
<1>9. CASE i <= Len(a)
  <2>1. i \in 1 .. Len(a) /\ f[i] = a[i]
    BY <1>6, <1>9
  <2>2. IsSynthetic(a[i].id)
    BY <1>3, <1>4, <2>1, StandInFacts
  <2> QED
    BY <1>8, <2>1, <2>2
<1>10. CASE ~(i <= Len(a))
  <2>1. PICK j \in 1 .. Len(t) : j = i - Len(a) /\ f[i] = t[j]
    <3>1. PICK x \in Nat, y \in Nat : x = Len(a) /\ y = Len(t)
      BY <1>6
    <3>2. i \in 1 .. x + y /\ ~(i <= x)
      BY <1>6, <1>10, <3>1
    <3>3. i - x \in 1 .. y
      BY <3>2
    <3> QED
      BY <1>6, <1>10, <3>1, <3>3
  <2>2. t[j].id \in During
    BY FifoShares DEF Fifos
  <2>3. PICK k \in 1 .. Len(g) : g[k] = t[j]
    <3>1. PICK x \in Nat, y \in Nat : x = Len(h) /\ y = Len(t)
      BY <1>6, <1>7
    <3>2. x + j \in 1 .. x + y
      BY <3>1
    <3> QED
      BY <1>7, <3>1, <3>2
  <2>4. Holds(v, id)
    BY <1>2, <1>3, <1>8, <2>1, <2>3 DEF Holds
  <2> QED
    BY <1>8, <2>1, <2>2, <2>4
<1> QED
  BY <1>9, <1>10

(* A new order joins the queue at both.                                    *)
LEMMA NewOrderMirrored ==
  ASSUME NEW r, RecOK(r), NEW v, BookOK(v, VenueIds), Mirrors(r, v),
         NEW m, NEW w, NewOrderRests(v, m, w),
         NEW q, q = Insert(r, m.order_id, m.side, m.price, m.size)
  PROVE  Mirrors(q, w)
<1>1. PICK s \in Side, p \in Price, n \in Nat \ {0}, id \in During :
        s = m.side /\ p = m.price /\ n = m.size /\ id = m.order_id
  BY DEF NewOrderRests
<1>2. /\ ~Holds(v, id) /\ Clear(v, s, p) /\ w = Stacked(v, s, p, id, n)
  BY <1>1 DEF NewOrderRests
<1>3. /\ BookOK(r.book, 0 .. r.synthetic_id - 1) /\ id \in 0 .. r.synthetic_id - 1
      /\ SeedsOK(r) /\ id \in Nat
  <2>1. BookOK(r.book, 0 .. r.synthetic_id - 1) /\ r.synthetic_id \in Nat
        /\ SYNTHETIC_ID_BASE <= r.synthetic_id
    BY DEF RecOK
  <2>2. MaxNewOrders \in Nat /\ SYNTHETIC_ID_BASE \in Nat /\ MaxNewOrders < SYNTHETIC_ID_BASE
    BY IdBounds
  <2>3. id \in 0 .. r.synthetic_id - 1
    BY <2>1, <2>2 DEF During
  <2> QED
    BY <2>1, <2>3, RecSeeds
<1>4. Clear(r.book, s, p)
  BY <1>2, <1>3, MirrorClear
<1>5. ~Holds(r.book, id)
  <2>1. ~IsSynthetic(id)
    BY IdBounds
  <2> QED
    BY <1>2, <1>3, <2>1, MirrorHolds
<1>6. q.book = Stacked(r.book, s, p, id, n) /\ q.seeds = r.seeds
  <2>1. q.book = InsertOrder(r.book, id, s, p, n) /\ q.seeds = r.seeds
    <3>1. DOMAIN r = {"book", "seeds", "synthetic_id", "unexpected_trades"}
      BY DEF RecOK
    <3> QED
      BY <1>1, <3>1 DEF Insert
  <2>2. Insertable(r.book, id, p, n)
    BY <1>3, <1>5, CanInsert
  <2>3. InsertOrder(r.book, id, s, p, n) = Stacked(r.book, s, p, id, n)
    BY <1>3, <1>4, <2>2, QuietInsert
  <2> QED
    BY <2>1, <2>3
<1>7. PICK x \in Entries(During) : x = [id |-> id, qty |-> n]
  BY DEF Entries
<1>8. /\ q.book[s][p] = Append(r.book[s][p], x)
      /\ \A t \in Side, u \in Price : t # s \/ u # p => q.book[t][u] = r.book[t][u]
  <2>1. PICK Ids, b : b = r.book /\ BookOK(b, Ids)
    BY <1>3
  <2>2. /\ Stacked(b, s, p, id, n)[s][p] = Append(b[s][p], [id |-> id, qty |-> n])
        /\ \A t \in Side, u \in Price : t # s \/ u # p => Stacked(b, s, p, id, n)[t][u] = b[t][u]
    BY <2>1, StackedElsewhere
  <2> QED
    BY <1>6, <1>7, <2>1, <2>2
<1>9. /\ w[s][p] = Append(v[s][p], x)
      /\ \A t \in Side, u \in Price : t # s \/ u # p => w[t][u] = v[t][u]
  BY <1>2, <1>7, StackedElsewhere
<1>10. LevelMirrors(q.book[s][p], w[s][p], <<s, p>> \in DOMAIN q.seeds, q.seeds[<<s, p>>])
  <2>1. PICK h \in Fifos(Before), t \in Fifos(During) :
          /\ v[s][p] = h \o t /\ r.book[s][p] = StandIn(h, r.seeds[<<s, p>>]) \o t
          /\ <<s, p>> \in DOMAIN r.seeds <=> h # <<>>
    BY DEF Mirrors, LevelMirrors
  <2>2. PICK seed, a : seed = r.seeds[<<s, p>>] /\ a = StandIn(h, seed)
    OBVIOUS
  <2>3. a \in Seq(Entries(Nat)) /\ h \in Seq(Entries(Nat)) /\ t \in Seq(Entries(Nat))
    <3>1. h # <<>> => IsSeed(seed)
      BY <1>3, <2>1, <2>2 DEF SeedsOK
    <3> QED
      BY <2>2, <3>1, MirrorParts
  <2>4. x \in Entries(Nat)
    BY IdBounds DEF Entries
  <2>5. PICK z : z = Append(t, x)
    OBVIOUS
  <2>6. a \o z = Append(a \o t, x)
    BY <2>3, <2>4, <2>5, ConcatAppend
  <2>7. h \o z = Append(h \o t, x)
    BY <2>3, <2>4, <2>5, ConcatAppend
  <2>8. z \in Fifos(During)
    <3>1. t \in Seq(Entries(During))
      BY DEF Fifos
    <3>2. z \in Seq(Entries(During))
      BY <2>5, <3>1, AppendFacts
    <3> QED
      BY <3>2 DEF Fifos
  <2> QED
    BY <1>6, <1>8, <1>9, <2>1, <2>2, <2>6, <2>7, <2>8 DEF LevelMirrors
<1>11. \A t \in Side, u \in Price :
         \/ LevelKept(r, v, q, w, t, u)
         \/ LevelMirrors(q.book[t][u], w[t][u], <<t, u>> \in DOMAIN q.seeds, q.seeds[<<t, u>>])
  BY <1>6, <1>8, <1>9, <1>10 DEF LevelKept
<1> QED
  BY <1>11, MirrorsStep

-----------------------------------------------------------------------------
(* An entry of two queues in a row is in one of them and not in the other. *)
FoundIn(t, a, x) ==
  /\ Lacks(a, x.id)
  /\ \E j \in 1 .. Len(t) : t[j] = x /\ \A k \in 1 .. Len(t) : t[k].id = x.id => k = j

\* g has the entries of a and after them those of t.
Chains(g, a, t) ==
  /\ \A j \in 1 .. Len(a) : \E i \in 1 .. Len(g) : i = j /\ g[i] = a[j]
  /\ \A j \in 1 .. Len(t) : \E i \in 1 .. Len(g) : i = Len(a) + j /\ g[i] = t[j]
  /\ \A i \in 1 .. Len(g) : \/ \E j \in 1 .. Len(a) : i = j /\ g[i] = a[j]
                            \/ \E j \in 1 .. Len(t) : i = Len(a) + j /\ g[i] = t[j]

LEMMA EntryOfConcat ==
  ASSUME NEW E, NEW a \in Seq(E), NEW t \in Seq(E), NEW g, g = a \o t
  PROVE  Chains(g, a, t)
<1>1. /\ Len(a) \in Nat /\ Len(t) \in Nat /\ Len(g) = Len(a) + Len(t)
      /\ \A i \in 1 .. Len(a) : g[i] = a[i]
      /\ \A i \in 1 .. Len(t) : g[Len(a) + i] = t[i]
  BY ConcatFacts
<1>2. PICK x \in Nat, y \in Nat : x = Len(a) /\ y = Len(t) /\ Len(g) = x + y
  BY <1>1
<1>3. ASSUME NEW j \in 1 .. x PROVE \E i \in 1 .. x + y : i = j /\ g[i] = a[j]
  BY <1>1, <1>2
<1>4. ASSUME NEW j \in 1 .. y PROVE \E i \in 1 .. x + y : i = x + j /\ g[i] = t[j]
  <2>1. x + j \in 1 .. x + y
    OBVIOUS
  <2> QED
    BY <1>1, <1>2, <2>1
<1>5. ASSUME NEW i \in 1 .. x + y
      PROVE  \/ \E j \in 1 .. x : i = j /\ g[i] = a[j]
             \/ \E j \in 1 .. y : i = x + j /\ g[i] = t[j]
  <2>1. CASE i <= x
    BY <1>1, <1>2, <2>1
  <2>2. CASE ~(i <= x)
    <3>1. i - x \in 1 .. y /\ i = x + (i - x)
      BY <2>2
    <3>2. PICK j \in 1 .. y : i = x + j
      BY <3>1
    <3> QED
      BY <1>1, <1>2, <3>2
  <2> QED
    BY <2>1, <2>2
<1> QED
  BY <1>2, <1>3, <1>4, <1>5 DEF Chains

LEMMA EntryFound ==
  ASSUME NEW E, NEW a \in Seq(E), NEW t \in Seq(E), NEW g, g = a \o t,
         \A i, j \in 1 .. Len(g) : g[i].id = g[j].id => i = j,
         NEW i \in 1 .. Len(g)
  PROVE  FoundIn(a, t, g[i]) \/ FoundIn(t, a, g[i])
<1>1. PICK x \in Nat, y \in Nat : x = Len(a) /\ y = Len(t)
  OBVIOUS
<1>2. /\ \A j \in 1 .. x : \E k \in 1 .. Len(g) : k = j /\ g[k] = a[j]
      /\ \A j \in 1 .. y : \E k \in 1 .. Len(g) : k = x + j /\ g[k] = t[j]
      /\ \/ \E j \in 1 .. x : i = j /\ g[i] = a[j]
         \/ \E j \in 1 .. y : i = x + j /\ g[i] = t[j]
  <2>1. Chains(g, a, t)
    BY EntryOfConcat
  <2> QED
    BY <1>1, <2>1 DEF Chains
<1>3. ASSUME NEW j \in 1 .. x, i = j, g[i] = a[j] PROVE FoundIn(a, t, g[i])
  <2>1. ASSUME NEW k \in 1 .. x, a[k].id = g[i].id PROVE k = j
    <3>1. PICK z \in 1 .. Len(g) : z = k /\ g[z] = a[k]
      BY <1>2
    <3>2. z = i
      BY <2>1, <3>1
    <3> QED
      BY <1>3, <3>1, <3>2
  <2>2. ASSUME NEW k \in 1 .. y, t[k].id = g[i].id PROVE FALSE
    <3>1. PICK z \in 1 .. Len(g) : z = x + k /\ g[z] = t[k]
      BY <1>2
    <3>2. z = i
      BY <2>2, <3>1
    <3> QED
      BY <1>3, <3>1, <3>2
  <2> QED
    BY <1>1, <1>3, <2>1, <2>2 DEF FoundIn, Lacks
<1>4. ASSUME NEW j \in 1 .. y, i = x + j, g[i] = t[j] PROVE FoundIn(t, a, g[i])
  <2>1. ASSUME NEW k \in 1 .. y, t[k].id = g[i].id PROVE k = j
    <3>1. PICK z \in 1 .. Len(g) : z = x + k /\ g[z] = t[k]
      BY <1>2
    <3>2. z = i
      BY <2>1, <3>1
    <3> QED
      BY <1>4, <3>1, <3>2
  <2>2. ASSUME NEW k \in 1 .. x, a[k].id = g[i].id PROVE FALSE
    <3>1. PICK z \in 1 .. Len(g) : z = k /\ g[z] = a[k]
      BY <1>2
    <3>2. z = i
      BY <2>2, <3>1
    <3> QED
      BY <1>4, <3>1, <3>2
  <2> QED
    BY <1>1, <1>4, <2>1, <2>2 DEF FoundIn, Lacks
<1> QED
  BY <1>2, <1>3, <1>4

(* A reduction changes the one level where the order rests.                *)
ShrinksAt(b, c, o, n) ==
  /\ o.side \in Side /\ o.price \in Price
  /\ c[o.side][o.price] = Lessened(b[o.side][o.price], o.id, n, o.qty)
  /\ \A s \in Side, p \in Price : s # o.side \/ p # o.price => c[s][p] = b[s][p]

LEMMA ReduceLevel ==
  ASSUME NEW Ids, NEW b, BookOK(b, Ids), NEW o \in Resting(b), NEW n,
         NEW c, c = ReduceOrder(b, o.id, n)
  PROVE  ShrinksAt(b, c, o, n)
<1>1. /\ o.side \in Side /\ o.price \in Price /\ GetOrderQty(b, o.id) = o.qty
      /\ \A t \in Side, q \in Price : t # o.side \/ q # o.price => Lacks(b[t][q], o.id)
  BY RestingLevel
<1>2. c[o.side][o.price] = Lessened(b[o.side][o.price], o.id, n, o.qty)
  BY <1>1, ReduceIsLessened
<1>3. \A s \in Side, p \in Price : s # o.side \/ p # o.price => c[s][p] = b[s][p]
  BY <1>1, ReducedElsewhere
<1> QED
  BY <1>1, <1>2, <1>3 DEF ShrinksAt

\* An order that shrinks, with its queue at the venue and in the reconstruction.
Shrinking(r, v, m, w, o, h, t, a) ==
  /\ o \in Resting(v) /\ o.side \in Side /\ o.price \in Price
  /\ m.order_id = o.id /\ m.price = o.price /\ m.side = o.side
  /\ m.size \in Nat \ {0} /\ m.size <= o.qty /\ o.qty \in Nat \ {0}
  /\ m.event = "FULL_DELETE" => m.size = o.qty
  /\ v[o.side][o.price] = h \o t /\ r.book[o.side][o.price] = a \o t
  /\ <<o.side, o.price>> \in DOMAIN r.seeds <=> h # <<>>
  /\ a = StandIn(h, r.seeds[<<o.side, o.price>>])
  /\ h # <<>> => IsSeed(r.seeds[<<o.side, o.price>>])
  /\ w[o.side][o.price] = Lessened(h \o t, o.id, m.size, o.qty)
  /\ \A s \in Side, p \in Price : s # o.side \/ p # o.price => w[s][p] = v[s][p]
  /\ \/ FoundIn(h, t, [id |-> o.id, qty |-> o.qty]) /\ o.id \in Before
     \/ FoundIn(t, h, [id |-> o.id, qty |-> o.qty]) /\ o.id \in During

LEMMA ShrinkingFacts ==
  ASSUME NEW r, SeedsOK(r), NEW v, BookOK(v, VenueIds), Mirrors(r, v),
         NEW m, NEW w, OrderShrinks(v, m, w)
  PROVE  \E o, a : \E h \in Fifos(Before), t \in Fifos(During) : Shrinking(r, v, m, w, o, h, t, a)
<1>1. PICK o \in Resting(v) :
        /\ m.order_id = o.id /\ m.price = o.price /\ m.side = o.side
        /\ m.size \in Nat \ {0} /\ m.size <= o.qty
        /\ m.event = "FULL_DELETE" => m.size = o.qty
  BY DEF OrderShrinks
<1>2. w = ReduceOrder(v, o.id, m.size)
  BY <1>1 DEF OrderShrinks
<1>3. /\ o.side \in Side /\ o.price \in Price /\ o.qty \in Nat \ {0}
      /\ \E i \in 1 .. Len(v[o.side][o.price]) : /\ v[o.side][o.price][i].id = o.id
                                                 /\ v[o.side][o.price][i].qty = o.qty
  BY RestingLevel
<1>4. PICK h \in Fifos(Before), t \in Fifos(During) :
        /\ v[o.side][o.price] = h \o t
        /\ r.book[o.side][o.price] = StandIn(h, r.seeds[<<o.side, o.price>>]) \o t
        /\ <<o.side, o.price>> \in DOMAIN r.seeds <=> h # <<>>
  BY <1>3 DEF Mirrors, LevelMirrors
<1>5. PICK a, seed, g : /\ seed = r.seeds[<<o.side, o.price>>] /\ a = StandIn(h, seed)
                        /\ g = h \o t
  OBVIOUS
<1>6. h # <<>> => IsSeed(seed)
  BY <1>4, <1>5 DEF SeedsOK
<1>7. /\ w[o.side][o.price] = Lessened(h \o t, o.id, m.size, o.qty)
      /\ \A s \in Side, p \in Price : s # o.side \/ p # o.price => w[s][p] = v[s][p]
  <2>1. PICK n, c : n = m.size /\ c = ReduceOrder(v, o.id, n)
    OBVIOUS
  <2>2. ShrinksAt(v, c, o, n)
    BY <2>1, ReduceLevel
  <2> QED
    BY <1>2, <1>4, <2>1, <2>2 DEF ShrinksAt
<1>8. PICK x : x = [id |-> o.id, qty |-> o.qty]
  OBVIOUS
<1>9. h \in Seq(Entries(Nat)) /\ t \in Seq(Entries(Nat))
  BY IdBounds, MoreFifos DEF Fifos
<1>10. \A i, j \in 1 .. Len(g) : g[i].id = g[j].id => i = j
  <2>1. PICK s \in Side, p \in Price : s = o.side /\ p = o.price
    BY <1>3
  <2>2. g = v[s][p]
    BY <1>4, <1>5, <2>1
  <2>3. \A i, j \in 1 .. Len(v[s][p]) : v[s][p][i].id = v[s][p][j].id => i = j
    BY DEF BookOK, IdsUnique
  <2> QED
    BY <2>2, <2>3
<1>11. PICK i \in 1 .. Len(g) : g[i].id = o.id /\ g[i].qty = o.qty
  BY <1>3, <1>4, <1>5
<1>12. g[i] = x
  <2>1. g \in Seq(Entries(Nat))
    BY <1>5, <1>9, ConcatFacts
  <2>2. g[i] = [id |-> g[i].id, qty |-> g[i].qty]
    BY <2>1, FifoEntries
  <2> QED
    BY <1>8, <1>11, <2>2
<1>13. FoundIn(h, t, x) \/ FoundIn(t, h, x)
  BY <1>5, <1>9, <1>10, <1>12, EntryFound
<1>14. FoundIn(h, t, x) => o.id \in Before
  <2> SUFFICES ASSUME FoundIn(h, t, x) PROVE o.id \in Before
    OBVIOUS
  <2>1. PICK j \in 1 .. Len(h) : h[j] = x
    BY DEF FoundIn
  <2>2. h[j].id \in Before
    BY FifoShares DEF Fifos
  <2> QED
    BY <1>8, <2>1, <2>2
<1>15. FoundIn(t, h, x) => o.id \in During
  <2> SUFFICES ASSUME FoundIn(t, h, x) PROVE o.id \in During
    OBVIOUS
  <2>1. PICK j \in 1 .. Len(t) : t[j] = x
    BY DEF FoundIn
  <2>2. t[j].id \in During
    BY FifoShares DEF Fifos
  <2> QED
    BY <1>8, <2>1, <2>2
<1>16. Shrinking(r, v, m, w, o, h, t, a)
  BY <1>1, <1>3, <1>4, <1>5, <1>6, <1>7, <1>8, <1>13, <1>14, <1>15 DEF Shrinking
<1> QED
  BY <1>16

(* A reduction of the order at one position of a level.                    *)
LevelReduced(b, c, s, p, id, n, y) ==
  /\ GetOrderQty(b, id) = y
  /\ c[s][p] = Lessened(b[s][p], id, n, y)
  /\ \A t \in Side, u \in Price : t # s \/ u # p => c[t][u] = b[t][u]

LEMMA ReduceEntry ==
  ASSUME NEW Ids, NEW b, BookOK(b, Ids), NEW s \in Side, NEW p \in Price, NEW f, f = b[s][p],
         NEW i \in 1 .. Len(f), NEW id, NEW y, f[i].id = id, f[i].qty = y, NEW n,
         NEW c, c = ReduceOrder(b, id, n)
  PROVE  LevelReduced(b, c, s, p, id, n, y)
<1>1. PICK o \in Resting(b) : o = [id |-> id, qty |-> y, side |-> s, price |-> p]
  <2>1. EntriesRest(b)
    BY RestingEntries
  <2> QED
    BY <2>1 DEF EntriesRest
<1>2. o.id = id /\ o.qty = y /\ o.side = s /\ o.price = p
  BY <1>1
<1>3. ShrinksAt(b, c, o, n)
  BY <1>2, ReduceLevel
<1>4. GetOrderQty(b, id) = y
  BY <1>2, RestingLevel
<1> QED
  BY <1>2, <1>3, <1>4 DEF ShrinksAt, LevelReduced

(* A reduction of an order that a message introduced, at both.             *)
LEMMA ToldShrinks ==
  ASSUME NEW r, RecOK(r), NEW v, BookOK(v, VenueIds), Mirrors(r, v),
         NEW m, NEW w, OrderShrinks(v, m, w), m.order_id \in During,
         NEW q, q = [r EXCEPT !.book = IF m.event = "FULL_DELETE" THEN CancelOrder(@, m.order_id)
                                       ELSE ReduceOrder(@, m.order_id, m.size)]
  PROVE  GetOrderQty(r.book, m.order_id) # 0 /\ Mirrors(q, w)
<1>1. PICK o, a : \E h \in Fifos(Before), t \in Fifos(During) : Shrinking(r, v, m, w, o, h, t, a)
  BY RecSeeds, ShrinkingFacts
<1>2. PICK h \in Fifos(Before), t \in Fifos(During) : Shrinking(r, v, m, w, o, h, t, a)
  BY <1>1
<1>3. PICK s \in Side, p \in Price : s = o.side /\ p = o.price
  <2>1. o.side \in Side /\ o.price \in Price
    BY <1>2 DEF Shrinking
  <2> QED
    BY <2>1
<1>2a. PICK id, seed, b, n, y : /\ id = o.id /\ seed = r.seeds[<<s, p>>] /\ b = r.book
                               /\ n = m.size /\ y = o.qty
  OBVIOUS
<1>4. /\ m.order_id = id /\ n \in Nat \ {0} /\ y \in Nat \ {0} /\ n <= y /\ (m.event = "FULL_DELETE" => n = y)
      /\ v[s][p] = h \o t /\ b[s][p] = a \o t /\ a = StandIn(h, seed)
      /\ <<s, p>> \in DOMAIN r.seeds <=> h # <<>>
      /\ h # <<>> => IsSeed(seed)
  BY <1>2, <1>3, <1>2a DEF Shrinking
<1>5. /\ w[s][p] = Lessened(h \o t, id, n, y)
      /\ \A x \in Side, u \in Price : x # s \/ u # p => w[x][u] = v[x][u]
  BY <1>2, <1>3, <1>2a DEF Shrinking
<1>6. id \in During /\ ~IsSynthetic(id) /\ FoundIn(t, h, [id |-> id, qty |-> y])
  <2>1. id \in During /\ id \notin Before /\ ~IsSynthetic(id)
    BY <1>4, IdBounds
  <2> QED
    BY <1>2, <1>3, <1>2a, <2>1 DEF Shrinking
<1>7. a \in Seq(Entries(Nat)) /\ h \in Seq(Entries(Nat)) /\ t \in Seq(Entries(Nat))
  BY <1>4, MirrorParts
<1>8. PICK j \in 1 .. Len(t) : /\ t[j].id = id /\ t[j].qty = y
                               /\ \A k \in 1 .. Len(t) : t[k].id = id => k = j
  BY <1>6 DEF FoundIn
<1>9. PICK f : f = a \o t
  OBVIOUS
<1>10. PICK i \in 1 .. Len(f) : f[i] = t[j]
  <2>1. Chains(f, a, t)
    BY <1>7, <1>9, EntryOfConcat
  <2> QED
    BY <2>1 DEF Chains
<1>11. PICK c : c = ReduceOrder(b, id, n)
  OBVIOUS
<1>12. LevelReduced(b, c, s, p, id, n, y)
  <2>1. PICK Ids : BookOK(b, Ids)
    BY <1>3, <1>2a DEF RecOK
  <2>2. f = b[s][p] /\ f[i].id = id /\ f[i].qty = y
    BY <1>4, <1>8, <1>9, <1>10
  <2> QED
    BY <1>11, <2>1, <2>2, ReduceEntry
<1>13. q.book = c /\ q.seeds = r.seeds
  <2>1. GetOrderQty(b, id) = y
    BY <1>12 DEF LevelReduced
  <2>2. n = y => c = CancelOrder(b, id)
    <3> SUFFICES ASSUME n = y PROVE c = CancelOrder(b, id)
      OBVIOUS
    <3>1. n >= y
      BY <1>4
    <3>2. n >= GetOrderQty(b, id)
      BY <2>1, <3>1
    <3> QED
      BY <1>11, <3>2 DEF ReduceOrder
  <2>3. DOMAIN r = {"book", "seeds", "synthetic_id", "unexpected_trades"}
    BY DEF RecOK
  <2>4. /\ q.book = IF m.event = "FULL_DELETE" THEN CancelOrder(r.book, m.order_id)
                    ELSE ReduceOrder(r.book, m.order_id, m.size)
        /\ q.seeds = r.seeds
    BY <2>3
  <2> QED
    BY <1>3, <1>2a, <1>4, <1>11, <2>2, <2>4
<1>14. Lessened(a, id, n, y) = a /\ Lessened(h, id, n, y) = h
  <2>1. Lacks(a, id)
    BY <1>4, <1>6, StandInFacts DEF Lacks
  <2>2. Lacks(h, id)
    BY <1>6 DEF FoundIn
  <2> QED
    BY <1>7, <2>1, <2>2, LessenedLacking
<1>15. PICK z \in Fifos(During) : z = Lessened(t, id, n, y)
  <2>1. t \in Seq(Entries(During))
    BY DEF Fifos
  <2>2. Lessened(t, id, n, t[j].qty) \in Seq(Entries(During))
    BY <1>4, <1>8, <2>1, VolumeLessened
  <2> QED
    BY <1>8, <2>2 DEF Fifos
<1>16. /\ Lessened(a \o t, id, n, y) = a \o z
       /\ Lessened(h \o t, id, n, y) = h \o z
  <2>0. \A g \in Seq(Entries(Nat)), u \in Seq(Entries(Nat)) : \A x, k, l :
          Lessened(g \o u, x, k, l) = Lessened(g, x, k, l) \o Lessened(u, x, k, l)
    BY LessenedConcat
  <2>1. Lessened(a \o t, id, n, y) = Lessened(a, id, n, y) \o Lessened(t, id, n, y)
    BY <1>7, <2>0
  <2>2. Lessened(h \o t, id, n, y) = Lessened(h, id, n, y) \o Lessened(t, id, n, y)
    BY <1>7, <2>0
  <2> QED
    BY <1>14, <1>15, <2>1, <2>2
<1>17. q.book[s][p] = StandIn(h, q.seeds[<<s, p>>]) \o z /\ w[s][p] = h \o z
  BY <1>3, <1>2a, <1>4, <1>5, <1>12, <1>13, <1>16 DEF LevelReduced
<1>18. LevelMirrors(q.book[s][p], w[s][p], <<s, p>> \in DOMAIN q.seeds, q.seeds[<<s, p>>])
  BY <1>4, <1>13, <1>17 DEF LevelMirrors
<1>19. \A x \in Side, u \in Price :
         \/ LevelKept(r, v, q, w, x, u)
         \/ LevelMirrors(q.book[x][u], w[x][u], <<x, u>> \in DOMAIN q.seeds, q.seeds[<<x, u>>])
  <2> SUFFICES ASSUME NEW x \in Side, NEW u \in Price, x # s \/ u # p
               PROVE  LevelKept(r, v, q, w, x, u)
    BY <1>18
  <2>1. q.book[x][u] = r.book[x][u]
    BY <1>3, <1>2a, <1>12, <1>13 DEF LevelReduced
  <2> QED
    BY <1>5, <1>13, <2>1 DEF LevelKept
<1>20. Mirrors(q, w)
  BY <1>19, MirrorsStep
<1> QED
  BY <1>3, <1>2a, <1>4, <1>12, <1>20 DEF LevelReduced

(* The stand-in for a queue that has less stands in for what is left.      *)
LEMMA StandInShrinks ==
  ASSUME NEW h \in Fifos(Before), NEW seed, IsSeed(seed), NEW a, a = StandIn(h, seed), h # <<>>,
         NEW V, V = Volume(h), NEW k \in Fifos(Before), NEW n \in Nat, Volume(k) = V - n
  PROVE  Lessened(a, seed, n, V) = StandIn(k, seed)
<1>1. V \in Nat \ {0} /\ V = Volume(h)
  BY StandInFacts
<1>2. Volume(k) \in Nat /\ (Volume(k) = 0 <=> k = <<>>)
  BY FifoShares DEF Fifos
<1>3. n <= V /\ (n >= V <=> k = <<>>)
  BY <1>1, <1>2
<1>4. PICK x \in Entries(Nat) : x = [id |-> seed, qty |-> V]
  BY <1>1 DEF Entries, IsSeed
<1>5. a = <<x>> /\ a \in Seq(Entries(Nat)) /\ Len(a) = 1 /\ a[1] = x
  <2>1. a = <<x>>
    BY <1>1, <1>4 DEF StandIn
  <2> QED
    BY <2>1, OneEntry
<1>6. CASE k = <<>>
  <2>1. WithoutId(a, seed) = WithIds(a, Nat \ {seed})
    BY <1>5, WithoutIsWithIds
  <2>2. \A i \in 1 .. Len(a) : a[i].id \notin Nat \ {seed}
    BY <1>4, <1>5
  <2>3. WithIds(a, Nat \ {seed}) = <<>>
    BY <1>5, <2>2, WithIdsNone
  <2> QED
    BY <1>1, <1>3, <1>6, <2>1, <2>3 DEF Lessened, StandIn
<1>7. CASE k # <<>>
  <2>1. Lessened(a, seed, n, V) = Shrunk(a, seed, n)
    <3>1. ~(n >= V)
      BY <1>3, <1>7
    <3> QED
      BY <1>1, <3>1 DEF Lessened
  <2>2. PICK z \in Entries(Nat) : z = [id |-> seed, qty |-> V - n]
    <3>1. V - n \in Nat \ {0}
      BY <1>1, <1>3, <1>7
    <3>2. [id |-> seed, qty |-> V - n] \in Entries(Nat)
      BY <3>1 DEF Entries, IsSeed
    <3> QED
      BY <3>2
  <2>3. Shrunk(a, seed, n) = <<z>>
    <3>1. DOMAIN a = {1} /\ a[1].id = seed /\ [a[1] EXCEPT !.qty = @ - n] = z
      <4>1. DOMAIN a = {1}
        BY <1>5
      <4>2. [x EXCEPT !.qty = @ - n] = z
        BY <1>4, <2>2
      <4> QED
        BY <1>4, <1>5, <4>1, <4>2
    <3>2. Shrunk(a, seed, n) = [i \in {1} |-> z]
      BY <3>1 DEF Shrunk
    <3>3. <<z>> = [i \in {1} |-> z]
      <4>1. {1} = 1 .. 1
        OBVIOUS
      <4>2. <<z>> \in Seq(Entries(Nat)) /\ Len(<<z>>) = 1 /\ <<z>>[1] = z
        OBVIOUS
      <4>3. <<z>> = [i \in 1 .. 1 |-> <<z>>[i]]
        BY <4>2
      <4> QED
        BY <4>1, <4>2, <4>3
    <3> QED
      BY <3>2, <3>3
  <2> QED
    BY <1>1, <1>2, <1>7, <2>1, <2>2, <2>3 DEF StandIn
<1> QED
  BY <1>6, <1>7

(* A reduction of an order from before the window is one of its stand-in.  *)
LEMMA PreWindowShrinks ==
  ASSUME NEW r, RecOK(r), NEW v, BookOK(v, VenueIds), Mirrors(r, v),
         NEW w, OrderShrinks(v, msg, w), msg.order_id \notin During,
         NEW q, q = AttributeToSeed(r)
  PROVE  /\ GetOrderQty(r.book, msg.order_id) = 0
         /\ Key \in DOMAIN r.seeds /\ GetOrderQty(r.book, r.seeds[Key]) # 0
         /\ Mirrors(q, w)
<1>1. PICK o, a : \E h \in Fifos(Before), t \in Fifos(During) : Shrinking(r, v, msg, w, o, h, t, a)
  BY RecSeeds, ShrinkingFacts
<1>2. PICK h \in Fifos(Before), t \in Fifos(During) : Shrinking(r, v, msg, w, o, h, t, a)
  BY <1>1
<1>3. PICK s \in Side, p \in Price : s = o.side /\ p = o.price
  <2>1. o.side \in Side /\ o.price \in Price
    BY <1>2 DEF Shrinking
  <2> QED
    BY <2>1
<1>4. PICK id, seed, b, n, y, V : /\ id = o.id /\ seed = r.seeds[<<s, p>>] /\ b = r.book
                                  /\ n = msg.size /\ y = o.qty /\ V = Volume(h)
  OBVIOUS
<1>5. /\ msg.order_id = id /\ msg.side = s /\ msg.price = p
      /\ n \in Nat \ {0} /\ y \in Nat \ {0} /\ n <= y
      /\ v[s][p] = h \o t /\ b[s][p] = a \o t /\ a = StandIn(h, seed)
      /\ <<s, p>> \in DOMAIN r.seeds <=> h # <<>>
      /\ h # <<>> => IsSeed(seed)
  BY <1>2, <1>3, <1>4 DEF Shrinking
<1>6. /\ w[s][p] = Lessened(h \o t, id, n, y)
      /\ \A x \in Side, u \in Price : x # s \/ u # p => w[x][u] = v[x][u]
  BY <1>2, <1>3, <1>4 DEF Shrinking
<1>7. id \in Before /\ FoundIn(h, t, [id |-> id, qty |-> y])
  <2>1. id \notin During
    BY <1>5
  <2> QED
    BY <1>2, <1>3, <1>4, <2>1 DEF Shrinking
<1>8. PICK j \in 1 .. Len(h) : /\ h[j].id = id /\ h[j].qty = y
                               /\ \A k \in 1 .. Len(h) : h[k].id = id => k = j
  BY <1>7 DEF FoundIn
<1>9. h # <<>> /\ h \in Seq(Entries(Before))
  BY <1>8 DEF Fifos
<1>10. a \in Seq(Entries(Nat)) /\ h \in Seq(Entries(Nat)) /\ t \in Seq(Entries(Nat))
  BY <1>5, MirrorParts
<1>11. Len(a) = 1 /\ a[1].id = seed /\ a[1].qty = V /\ V \in Nat \ {0} /\ IsSynthetic(seed)
  <2>1. /\ Len(a) = 1 /\ a[1].qty = Volume(h) /\ Volume(h) \in Nat \ {0}
        /\ \A i \in 1 .. Len(a) : i = 1 /\ a[i].id = seed /\ IsSynthetic(a[i].id)
    BY <1>5, <1>9, StandInFacts
  <2>2. 1 \in 1 .. Len(a)
    BY <2>1
  <2> QED
    BY <1>4, <2>1, <2>2
<1>12. PICK k \in Fifos(Before) : k = Lessened(h, id, n, y) /\ Volume(k) = V - n
  <2>1. PICK k : k = Lessened(h, id, n, y)
    OBVIOUS
  <2>2. k \in Seq(Entries(Before)) /\ Volume(k) = Volume(h) - n
    BY <1>5, <1>8, <1>9, <2>1, VolumeLessened
  <2> QED
    BY <1>4, <2>1, <2>2 DEF Fifos
<1>13. Volume(k) \in Nat /\ (Volume(k) = 0 <=> k = <<>>)
  BY FifoShares DEF Fifos
<1>14. n <= V /\ (n = V <=> k = <<>>)
  BY <1>5, <1>11, <1>12, <1>13
<1>15. GetOrderQty(b, id) = 0
  <2>1. ~Holds(b, id)
    <3>1. ~IsSynthetic(id) /\ id \notin During
      BY <1>5, <1>7, IdBounds
    <3> QED
      BY <1>4, <3>1, RecSeeds, MirrorHolds
  <2>2. PICK Ids : BookOK(b, Ids)
    BY <1>4 DEF RecOK
  <2> QED
    BY <2>1, <2>2, OrderQty
<1>16. PICK f : f = a \o t
  OBVIOUS
<1>17. PICK i \in 1 .. Len(f) : f[i] = a[1]
  <2>1. Chains(f, a, t)
    BY <1>10, <1>16, EntryOfConcat
  <2>2. 1 \in 1 .. Len(a)
    BY <1>11
  <2> QED
    BY <2>1, <2>2 DEF Chains
<1>18. PICK c : c = ReduceOrder(b, seed, n)
  OBVIOUS
<1>19. LevelReduced(b, c, s, p, seed, n, V)
  <2>1. PICK Ids : BookOK(b, Ids)
    BY <1>4 DEF RecOK
  <2>2. f = b[s][p] /\ f[i].id = seed /\ f[i].qty = V
    BY <1>5, <1>11, <1>16, <1>17
  <2> QED
    BY <1>18, <2>1, <2>2, ReduceEntry
<1>20. Lessened(t, id, n, y) = t /\ Lessened(t, seed, n, V) = t
  <2>1. Lacks(t, id)
    BY <1>7 DEF FoundIn
  <2>2. Lacks(t, seed)
    <3>1. \A x \in 1 .. Len(t) : t[x].id \in During
      BY FifoShares DEF Fifos
    <3> QED
      BY <1>11, <3>1, IdBounds DEF Lacks
  <2> QED
    BY <1>10, <2>1, <2>2, LessenedLacking
<1>21. Lessened(a, seed, n, V) = StandIn(k, seed)
  BY <1>4, <1>5, <1>9, <1>12, StandInShrinks
<1>22. /\ c[s][p] = StandIn(k, seed) \o t
       /\ w[s][p] = k \o t
  <2>1. \A g \in Seq(Entries(Nat)), u \in Seq(Entries(Nat)) : \A x, z, l :
          Lessened(g \o u, x, z, l) = Lessened(g, x, z, l) \o Lessened(u, x, z, l)
    BY LessenedConcat
  <2>2. Lessened(a \o t, seed, n, V) = Lessened(a, seed, n, V) \o Lessened(t, seed, n, V)
    BY <1>10, <2>1
  <2>3. Lessened(h \o t, id, n, y) = Lessened(h, id, n, y) \o Lessened(t, id, n, y)
    BY <1>10, <2>1
  <2>4. c[s][p] = Lessened(a \o t, seed, n, V)
    BY <1>5, <1>19 DEF LevelReduced
  <2> QED
    BY <1>6, <1>12, <1>20, <1>21, <2>2, <2>3, <2>4
<1>23. GetOrderQty(c, seed) = 0 <=> k = <<>>
  <2>1. PICK Ids : BookOK(b, Ids)
    BY <1>4 DEF RecOK
  <2>2. BookOK(c, Ids)
    BY <1>5, <1>18, <2>1, ReduceBook
  <2>3. CASE k = <<>>
    <3>1. c = CancelOrder(b, seed)
      <4>1. n >= V
        BY <1>5, <1>11, <1>14, <2>3
      <4>2. n >= GetOrderQty(b, seed)
        BY <1>19, <4>1 DEF LevelReduced
      <4> QED
        BY <1>18, <4>2 DEF ReduceOrder
    <3>2. ~Holds(c, seed)
      BY <2>1, <3>1, CancelBook
    <3> QED
      BY <2>2, <2>3, <3>2, OrderQty
  <2>4. CASE k # <<>>
    <3>1. PICK e, z, g : e = StandIn(k, seed) /\ z = [id |-> seed, qty |-> Volume(k)] /\ g = c[s][p]
      OBVIOUS
    <3>2. e = <<z>>
      BY <2>4, <3>1 DEF StandIn
    <3>3. e \in Seq(Entries(Nat)) /\ Len(e) = 1
      BY <1>5, <1>9, <2>4, <3>1, StandInFacts
    <3>4. Chains(g, e, t)
      BY <1>10, <1>22, <3>1, <3>3, EntryOfConcat
    <3>5. PICK i1 \in 1 .. Len(g) : g[i1] = e[1]
      <4>1. 1 \in 1 .. Len(e)
        BY <3>3
      <4> QED
        BY <3>4, <4>1 DEF Chains
    <3>6. g[i1].id = seed /\ g[i1].qty = Volume(k)
      BY <3>1, <3>2, <3>5
    <3>7. GetOrderQty(c, seed) = Volume(k)
      <4>1. c[s][p][i1].id = seed /\ i1 \in 1 .. Len(c[s][p])
        BY <3>1, <3>6
      <4>2. GetOrderQty(c, seed) = c[s][p][i1].qty
        BY <2>2, <4>1, EntryQty
      <4> QED
        BY <3>1, <3>6, <4>2
    <3> QED
      BY <1>13, <2>4, <3>7
  <2> QED
    BY <2>3, <2>4
<1>24. /\ q.book = c
       /\ DOMAIN q.seeds = IF k = <<>> THEN DOMAIN r.seeds \ {<<s, p>>} ELSE DOMAIN r.seeds
       /\ \A x \in DOMAIN q.seeds : q.seeds[x] = r.seeds[x]
  <2>1. Key = <<s, p>>
    BY <1>5 DEF Key
  <2>2. PICK d : d = [r EXCEPT !.book = ReduceOrder(r.book, r.seeds[Key], msg.size)]
    OBVIOUS
  <2>3. DOMAIN r = {"book", "seeds", "synthetic_id", "unexpected_trades"}
    BY DEF RecOK
  <2>4. d.book = c /\ d.seeds = r.seeds /\ DOMAIN d = DOMAIN r
    BY <1>4, <1>18, <2>1, <2>2, <2>3
  <2>5. q = DropDeadSeed(d, <<s, p>>)
    BY <2>1, <2>2 DEF AttributeToSeed
  <2>6. q = IF k = <<>> THEN [d EXCEPT !.seeds = Without(d.seeds, {<<s, p>>})] ELSE d
    BY <1>4, <1>5, <1>9, <1>23, <2>4, <2>5 DEF DropDeadSeed
  <2>7. CASE k = <<>>
    <3>1. q.book = d.book /\ q.seeds = Without(r.seeds, {<<s, p>>})
      BY <2>3, <2>4, <2>6, <2>7
    <3>2. q.seeds = [x \in DOMAIN r.seeds \ {<<s, p>>} |-> r.seeds[x]]
      BY <3>1 DEF Without
    <3> QED
      BY <2>4, <2>7, <3>1, <3>2
  <2>8. CASE k # <<>>
    BY <2>4, <2>6, <2>8
  <2> QED
    BY <2>7, <2>8
<1>25. LevelMirrors(q.book[s][p], w[s][p], <<s, p>> \in DOMAIN q.seeds, q.seeds[<<s, p>>])
  <2>1. <<s, p>> \in DOMAIN q.seeds <=> k # <<>>
    BY <1>5, <1>9, <1>24
  <2>2. StandIn(k, q.seeds[<<s, p>>]) = StandIn(k, seed)
    <3>1. k # <<>> => q.seeds[<<s, p>>] = seed
      BY <1>4, <1>24, <2>1
    <3> QED
      BY <3>1 DEF StandIn
  <2> QED
    BY <1>22, <1>24, <2>1, <2>2 DEF LevelMirrors
<1>26. \A x \in Side, u \in Price :
         \/ LevelKept(r, v, q, w, x, u)
         \/ LevelMirrors(q.book[x][u], w[x][u], <<x, u>> \in DOMAIN q.seeds, q.seeds[<<x, u>>])
  <2> SUFFICES ASSUME NEW x \in Side, NEW u \in Price, x # s \/ u # p
               PROVE  LevelKept(r, v, q, w, x, u)
    BY <1>25
  <2>1. q.book[x][u] = r.book[x][u]
    BY <1>4, <1>19, <1>24 DEF LevelReduced
  <2>2. <<x, u>> \in DOMAIN q.seeds <=> <<x, u>> \in DOMAIN r.seeds
    BY <1>24
  <2> QED
    BY <1>6, <1>24, <2>1, <2>2 DEF LevelKept
<1>27. Mirrors(q, w)
  BY <1>26, MirrorsStep
<1>28. Key \in DOMAIN r.seeds /\ GetOrderQty(r.book, r.seeds[Key]) # 0
  BY <1>4, <1>5, <1>9, <1>11, <1>19 DEF Key, LevelReduced
<1> QED
  BY <1>4, <1>5, <1>15, <1>27, <1>28

-----------------------------------------------------------------------------
(***************************************************************************)
(* Seeding: the row after the first message, without what that message put *)
(* into it, lists the book that was there before, and each of its levels   *)
(* gets one stand-in.                                                      *)
(***************************************************************************)
\* Every order of v rested before the window.
Unseen(v) == \A id : Holds(v, id) => id > MaxNewOrders

\* The levels that are seeded are those of v.
SeedsFor(v, s) ==
  /\ Lists(SeedLevels(s)) /\ PricesDiffer(SeedLevels(s))
  /\ \A m \in 1 .. Len(SeedLevels(s)) :
       /\ SeedLevels(s)[m].price \in Tracked(v, s)
       /\ SeedLevels(s)[m].volume = Volume(v[s][SeedLevels(s)[m].price])
  /\ \A p \in Tracked(v, s) : \E m \in 1 .. Len(SeedLevels(s)) : SeedLevels(s)[m].price = p

\* The slots in P have been seeded.
Sown(r, v, P) ==
  \A s \in Side, p \in Price :
    /\ <<s, p>> \in DOMAIN r.seeds <=> <<s, p>> \in P /\ v[s][p] # <<>>
    /\ <<s, p>> \in P => r.book[s][p] = StandIn(v[s][p], r.seeds[<<s, p>>])
    /\ <<s, p>> \notin P => r.book[s][p] = <<>>

(* Nothing trades with a level that is about to be seeded.                 *)
LEMMA SownIsClear ==
  ASSUME NEW v, BookOK(v, VenueIds), NEW r, NEW P, Sown(r, v, P),
         NEW s \in Side, NEW p \in Tracked(v, s)
  PROVE  Clear(r.book, s, p)
<1>1. PICK T : T = [t \in Side |-> Tracked(v, t)]
  OBVIOUS
<1>2. Uncrossed(T)
  BY <1>1 DEF BookOK, NotCrossed, Uncrossed, Side
<1>3. ASSUME NEW t \in Side, NEW u \in Tracked(r.book, t) PROVE u \in T[t]
  <2>1. u \in Price /\ r.book[t][u] # <<>>
    BY <1>3 DEF Tracked
  <2>2. r.book[t][u] = StandIn(v[t][u], r.seeds[<<t, u>>])
    BY <2>1 DEF Sown
  <2>3. v[t][u] # <<>>
    BY <2>1, <2>2 DEF StandIn
  <2> QED
    BY <1>1, <2>1, <2>3 DEF Tracked
<1>4. Within(r.book, T)
  BY <1>3 DEF Within
<1>5. p \in T[s] /\ p \in Price
  BY <1>1 DEF Tracked
<1> QED
  BY <1>2, <1>4, <1>5, WithinIsClear

(* Seeding a level, the levels of a side, and both sides.                  *)
LEMMA SowLevel ==
  ASSUME NEW v, BookOK(v, VenueIds), NEW r, RecOK(r), NEW P, Sown(r, v, P),
         NEW s \in Side, NEW p \in Tracked(v, s), <<s, p>> \notin P,
         NEW q, q = AddStandIn(r, s, p, Volume(v[s][p]))
  PROVE  RecOK(q) /\ Sown(q, v, P \cup {<<s, p>>})
<1>1. Clear(r.book, s, p) /\ p \in Price /\ v[s][p] # <<>>
  BY SownIsClear DEF Tracked
<1>2. PICK n : n = Volume(v[s][p])
  OBVIOUS
<1>3. n \in Nat \ {0}
  <2>1. v[s][p] \in Seq(Entries(VenueIds))
    BY <1>1 DEF BookOK
  <2> QED
    BY <1>1, <1>2, <2>1, FifoShares
<1>4. PICK id, b : id = r.synthetic_id /\ b = r.book
  OBVIOUS
<1>5. RecOK(q) /\ q.book = Stacked(b, s, p, id, n) /\ q.seeds = Put(r.seeds, <<s, p>>, id)
  <2>1. n \in Nat /\ n > 0 /\ q = AddStandIn(r, s, p, n)
    BY <1>2, <1>3
  <2> QED
    BY <1>1, <1>4, <2>1, AddStandInRec
<1>6. /\ q.book[s][p] = Append(b[s][p], [id |-> id, qty |-> n])
      /\ \A t \in Side, u \in Price : t # s \/ u # p => q.book[t][u] = b[t][u]
  <2>1. PICK Ids : BookOK(b, Ids)
    BY <1>4 DEF RecOK
  <2> QED
    BY <1>1, <1>5, <2>1, StackedElsewhere
<1>7. q.book[s][p] = StandIn(v[s][p], id)
  <2>1. b[s][p] = <<>>
    BY <1>1, <1>4 DEF Sown
  <2>2. \A x : Append(<<>>, x) = <<x>>
    OBVIOUS
  <2>3. q.book[s][p] = <<[id |-> id, qty |-> n]>>
    BY <1>6, <2>1, <2>2
  <2> QED
    BY <1>1, <1>2, <2>3 DEF StandIn
<1>8. /\ DOMAIN q.seeds = DOMAIN r.seeds \cup {<<s, p>>}
      /\ q.seeds[<<s, p>>] = id
      /\ \A k \in DOMAIN r.seeds : k # <<s, p>> => q.seeds[k] = r.seeds[k]
  BY <1>5 DEF Put
<1>9. ASSUME NEW t \in Side, NEW u \in Price
      PROVE  /\ <<t, u>> \in DOMAIN q.seeds <=> <<t, u>> \in P \cup {<<s, p>>} /\ v[t][u] # <<>>
             /\ <<t, u>> \in P \cup {<<s, p>>} =>
                  q.book[t][u] = StandIn(v[t][u], q.seeds[<<t, u>>])
             /\ <<t, u>> \notin P \cup {<<s, p>>} => q.book[t][u] = <<>>
  <2>1. CASE <<t, u>> = <<s, p>>
    <3>1. t = s /\ u = p
      BY <2>1
    <3>2. <<t, u>> \in DOMAIN q.seeds /\ <<t, u>> \in P \cup {<<s, p>>} /\ v[t][u] # <<>>
      BY <1>1, <1>8, <3>1
    <3>3. q.book[t][u] = StandIn(v[t][u], q.seeds[<<t, u>>])
      BY <1>7, <1>8, <3>1
    <3> QED
      BY <3>2, <3>3
  <2>2. CASE <<t, u>> # <<s, p>>
    <3>1. t # s \/ u # p
      BY <2>2
    <3>2. q.book[t][u] = r.book[t][u]
      BY <1>4, <1>6, <3>1
    <3>3. /\ <<t, u>> \in DOMAIN q.seeds <=> <<t, u>> \in DOMAIN r.seeds
          /\ <<t, u>> \in P \cup {<<s, p>>} <=> <<t, u>> \in P
          /\ <<t, u>> \in DOMAIN r.seeds => q.seeds[<<t, u>>] = r.seeds[<<t, u>>]
      BY <1>8, <2>2
    <3>4. /\ <<t, u>> \in DOMAIN r.seeds <=> <<t, u>> \in P /\ v[t][u] # <<>>
          /\ <<t, u>> \in P => r.book[t][u] = StandIn(v[t][u], r.seeds[<<t, u>>])
          /\ <<t, u>> \notin P => r.book[t][u] = <<>>
      BY DEF Sown
    <3>5. <<t, u>> \in P => StandIn(v[t][u], r.seeds[<<t, u>>]) = StandIn(v[t][u], q.seeds[<<t, u>>])
      BY <3>3, <3>4 DEF StandIn
    <3> QED
      BY <3>2, <3>3, <3>4, <3>5
  <2> QED
    BY <2>1, <2>2
<1>10. Sown(q, v, P \cup {<<s, p>>})
  BY <1>9 DEF Sown
<1> QED
  BY <1>5, <1>10

LEMMA SowSide ==
  ASSUME NEW v, BookOK(v, VenueIds), NEW r, RecOK(r), NEW P, Sown(r, v, P),
         NEW s \in Side, SeedsFor(v, s), \A p \in Price : <<s, p>> \notin P,
         NEW q, q = SeedSide(r, s)
  PROVE  RecOK(q) /\ Sown(q, v, P \cup {<<s, p>> : p \in Price})
<1>1. PICK d : d = SeedLevels(s)
  OBVIOUS
<1>2. /\ Len(d) \in Nat /\ PricesDiffer(d)
      /\ \A m \in 1 .. Len(d) : d[m].price \in Tracked(v, s) /\ d[m].volume = Volume(v[s][d[m].price])
      /\ \A p \in Tracked(v, s) : \E m \in 1 .. Len(d) : d[m].price = p
  BY <1>1, ListsFacts DEF SeedsFor
<1>3. PICK f : SeedingRun(f, r, s)
  BY <1>1, <1>2, SeedSideSteps
<1>4. /\ f[0] = r
      /\ \A m \in 1 .. Len(d) : f[m] = AddStandIn(f[m - 1], s, d[m].price, d[m].volume)
      /\ q = f[Len(d)]
  BY <1>1, <1>3 DEF SeedingRun
<1> DEFINE Q(n) == P \cup {<<s, d[m].price>> : m \in 1 .. n}
           G == {n \in Nat : n <= Len(d) => RecOK(f[n]) /\ Sown(f[n], v, Q(n))}
<1>5. 0 \in G
  <2>1. Q(0) = P
    OBVIOUS
  <2> QED
    BY <1>4, <2>1
<1>6. ASSUME NEW n \in Nat, n \in G PROVE n + 1 \in G
  <2> SUFFICES ASSUME n + 1 <= Len(d) PROVE RecOK(f[n + 1]) /\ Sown(f[n + 1], v, Q(n + 1))
    OBVIOUS
  <2>1. RecOK(f[n]) /\ Sown(f[n], v, Q(n))
    BY <1>2, <1>6
  <2>2. PICK m \in 1 .. Len(d) : m = n + 1 /\ m - 1 = n
    BY <1>2
  <2>3. PICK t, c, R, p : t = f[n] /\ c = f[m] /\ R = Q(n) /\ p = d[m].price
    OBVIOUS
  <2>4. c = AddStandIn(t, s, p, Volume(v[s][p])) /\ p \in Tracked(v, s)
    BY <1>2, <1>4, <2>2, <2>3
  <2>5. <<s, p>> \notin R
    <3>1. \A k \in 1 .. n : d[k].price # p
      <4> SUFFICES ASSUME NEW k \in 1 .. n, d[k].price = p PROVE FALSE
        OBVIOUS
      <4>1. k \in 1 .. Len(d) /\ k # m
        BY <1>2, <2>2
      <4> QED
        BY <1>2, <2>3, <4>1 DEF PricesDiffer
    <3>2. <<s, p>> \notin P
      BY <2>4 DEF Tracked
    <3> QED
      BY <2>3, <3>1, <3>2
  <2>6. RecOK(c) /\ Sown(c, v, R \cup {<<s, p>>})
    BY <2>1, <2>3, <2>4, <2>5, SowLevel
  <2>7. R \cup {<<s, p>>} = Q(n + 1)
    <3>1. \A k : k \in 1 .. n + 1 <=> k \in 1 .. n \/ k = n + 1
      OBVIOUS
    <3> QED
      BY <2>2, <2>3, <3>1
  <2> QED
    BY <2>2, <2>3, <2>6, <2>7
<1> HIDE DEF G
<1>7. \A n \in Nat : n \in G
  BY <1>5, <1>6, NumberInduction
<1>8. RecOK(q) /\ Sown(q, v, Q(Len(d)))
  <2>1. Len(d) \in G
    BY <1>2, <1>7
  <2>2. RecOK(f[Len(d)]) /\ Sown(f[Len(d)], v, Q(Len(d)))
    BY <1>2, <2>1 DEF G
  <2> QED
    BY <1>4, <2>2
<1>9. PICK R : R = Q(Len(d))
  OBVIOUS
<1>10. \A t \in Side, p \in Price :
         <<t, p>> \in R <=> <<t, p>> \in P \/ (t = s /\ v[t][p] # <<>>)
  BY <1>2, <1>9 DEF Tracked
<1>11. PICK T : T = P \cup {<<s, p>> : p \in Price}
  OBVIOUS
<1>12. \A t \in Side, p \in Price : <<t, p>> \in T <=> <<t, p>> \in P \/ t = s
  BY <1>11
<1>13. Sown(q, v, T)
  <2> SUFFICES ASSUME NEW t \in Side, NEW p \in Price
               PROVE  /\ <<t, p>> \in DOMAIN q.seeds <=> <<t, p>> \in T /\ v[t][p] # <<>>
                      /\ <<t, p>> \in T => q.book[t][p] = StandIn(v[t][p], q.seeds[<<t, p>>])
                      /\ <<t, p>> \notin T => q.book[t][p] = <<>>
    BY DEF Sown
  <2>1. /\ <<t, p>> \in DOMAIN q.seeds <=> <<t, p>> \in R /\ v[t][p] # <<>>
        /\ <<t, p>> \in R => q.book[t][p] = StandIn(v[t][p], q.seeds[<<t, p>>])
        /\ <<t, p>> \notin R => q.book[t][p] = <<>>
    BY <1>8, <1>9 DEF Sown
  <2>2. v[t][p] = <<>> => StandIn(v[t][p], q.seeds[<<t, p>>]) = <<>>
    BY DEF StandIn
  <2> QED
    BY <1>10, <1>12, <2>1, <2>2
<1> QED
  BY <1>8, <1>11, <1>13

LEMMA SownMirrors ==
  ASSUME NEW v, BookOK(v, VenueIds), Unseen(v), NEW r, NEW P, Sown(r, v, P),
         \A s \in Side, p \in Price : <<s, p>> \in P
  PROVE  Mirrors(r, v)
<1> SUFFICES ASSUME NEW s \in Side, NEW p \in Price
             PROVE  LevelMirrors(r.book[s][p], v[s][p], <<s, p>> \in DOMAIN r.seeds,
                                 r.seeds[<<s, p>>])
  BY DEF Mirrors
<1>1. PICK h : h = v[s][p]
  OBVIOUS
<1>2. h \in Fifos(Before)
  <2>1. h \in Seq(Entries(VenueIds))
    BY <1>1 DEF BookOK
  <2>2. \A i \in 1 .. Len(h) : h[i].id \in VenueIds /\ h[i].id > MaxNewOrders
    <3>1. \A i \in 1 .. Len(h) : Holds(v, h[i].id)
      BY <1>1 DEF Holds
    <3> QED
      BY <2>1, <3>1, FifoShares DEF Unseen
  <2>3. \A i \in 1 .. Len(h) : h[i].id \in Before
    BY <2>2, IdBounds DEF VenueIds, Before
  <2>4. \A i \in 1 .. Len(h) : h[i] \in Entries(Before)
    <3> SUFFICES ASSUME NEW i \in 1 .. Len(h) PROVE h[i] \in Entries(Before)
      OBVIOUS
    <3>1. h[i] = [id |-> h[i].id, qty |-> h[i].qty]
      BY <2>1, FifoEntries
    <3>2. h[i].qty \in Nat \ {0} /\ h[i].id \in Before
      BY <2>1, <2>3, FifoShares
    <3>3. PICK x, y : x = h[i].id /\ y = h[i].qty
      OBVIOUS
    <3>4. [id |-> x, qty |-> y] \in Entries(Before)
      BY <3>2, <3>3 DEF Entries
    <3> QED
      BY <3>1, <3>3, <3>4
  <2> QED
    BY <2>1, <2>4 DEF Fifos
<1>3. PICK t \in Fifos(During) : t = <<>>
  <2>1. <<>> \in Seq(Entries(During))
    OBVIOUS
  <2> QED
    BY <2>1 DEF Fifos
<1>4. PICK seed, a : seed = r.seeds[<<s, p>>] /\ a = StandIn(h, seed)
  OBVIOUS
<1>5. r.book[s][p] = a /\ (<<s, p>> \in DOMAIN r.seeds <=> h # <<>>)
  BY <1>1, <1>4 DEF Sown
<1>6. h \o <<>> = h
  <2>1. h \in Seq(Entries(Before))
    BY <1>2 DEF Fifos
  <2> QED
    BY <2>1
<1>7. a \o <<>> = a
  <2>1. CASE h = <<>>
    BY <1>4, <2>1 DEF StandIn
  <2>2. CASE h # <<>>
    <3>1. \A x : <<x>> \o <<>> = <<x>>
      OBVIOUS
    <3> QED
      BY <1>4, <2>2, <3>1 DEF StandIn
  <2> QED
    BY <2>1, <2>2
<1>8. v[s][p] = h \o t /\ r.book[s][p] = StandIn(h, seed) \o t
  BY <1>1, <1>3, <1>4, <1>5, <1>6, <1>7
<1> QED
  BY <1>2, <1>3, <1>4, <1>5, <1>8 DEF LevelMirrors

\* What the message put into a level of its row.
OwnShares(s, p) ==
  IF msg.event = "NEW_LIMIT" /\ msg.side = s /\ msg.price = p THEN msg.size ELSE 0

(* A level of the row without what the first message put into it is the    *)
(* level before that message.                                              *)
LEMMA OwnSharesFacts ==
  ASSUME BookOK(venue, VenueIds), NEW v, BookOK(v, VenueIds), Follows(v, msg, venue),
         ~Reduces(msg.event), NEW s \in Side, NEW p \in Price
  PROVE  /\ Volume(v[s][p]) \in Nat /\ (Volume(v[s][p]) > 0 <=> v[s][p] # <<>>)
         /\ OwnShares(s, p) \in Nat /\ Volume(venue[s][p]) \in Nat
         /\ Volume(venue[s][p]) - OwnShares(s, p) = Volume(v[s][p])
         /\ v[s][p] # <<>> => venue[s][p] # <<>>
<1>1. /\ v[s][p] \in Seq(Entries(VenueIds)) /\ venue[s][p] \in Seq(Entries(VenueIds))
  BY DEF BookOK
<1>2. /\ Volume(v[s][p]) \in Nat /\ (Volume(v[s][p]) = 0 <=> v[s][p] = <<>>)
      /\ Volume(venue[s][p]) \in Nat /\ (Volume(venue[s][p]) = 0 <=> venue[s][p] = <<>>)
  BY <1>1, FifoShares
<1>3. CASE NewOrderRests(v, msg, venue)
  <2>1. PICK u \in Side, l \in Price, n \in Nat \ {0}, id \in During :
          u = msg.side /\ l = msg.price /\ n = msg.size /\ id = msg.order_id
    BY <1>3 DEF NewOrderRests
  <2>2. venue = Stacked(v, u, l, id, n) /\ msg.event = "NEW_LIMIT"
    BY <1>3, <2>1 DEF NewOrderRests
  <2>3. /\ venue[u][l] = Append(v[u][l], [id |-> id, qty |-> n])
        /\ s # u \/ p # l => venue[s][p] = v[s][p]
    BY <2>2, StackedElsewhere
  <2>4. CASE s = u /\ p = l
    <3>1. PICK e \in Entries(VenueIds) : e = [id |-> id, qty |-> n]
      <4>1. id \in VenueIds
        BY IdBounds DEF VenueIds, During
      <4>2. [id |-> id, qty |-> n] \in Entries(VenueIds)
        BY <4>1 DEF Entries
      <4> QED
        BY <4>2
    <3>2. venue[s][p] = Append(v[s][p], e) /\ e.qty = n
      BY <2>3, <2>4, <3>1
    <3>3. Volume(venue[s][p]) = Volume(v[s][p]) + n
      BY <1>1, <3>2, VolumeAppend
    <3>4. OwnShares(s, p) = n
      <4>1. msg.side = s /\ msg.price = p
        BY <2>1, <2>4
      <4>2. OwnShares(s, p) = msg.size
        BY <2>2, <4>1 DEF OwnShares
      <4> QED
        BY <2>1, <4>2
    <3>5. PICK x, y, z : x = Volume(v[s][p]) /\ y = Volume(venue[s][p]) /\ z = OwnShares(s, p)
      OBVIOUS
    <3>6. x \in Nat /\ y \in Nat /\ y = x + n /\ z = n
      BY <1>2, <3>3, <3>4, <3>5
    <3>7. y - z = x /\ z \in Nat /\ y # 0 /\ (x > 0 <=> x # 0)
      BY <3>6
    <3> QED
      BY <1>2, <3>5, <3>6, <3>7
  <2>5. CASE s # u \/ p # l
    <3>1. OwnShares(s, p) = 0
      BY <2>1, <2>5 DEF OwnShares
    <3>2. Volume(venue[s][p]) = Volume(v[s][p]) /\ venue[s][p] = v[s][p]
      BY <2>3, <2>5
    <3> QED
      BY <1>2, <3>1, <3>2
  <2> QED
    BY <2>4, <2>5
<1>4. CASE NothingHappens(v, msg, venue)
  <2>1. OwnShares(s, p) = 0
    BY <1>4 DEF NothingHappens, OwnShares
  <2>2. Volume(venue[s][p]) = Volume(v[s][p]) /\ venue[s][p] = v[s][p]
    BY <1>4 DEF NothingHappens
  <2> QED
    BY <1>2, <2>1, <2>2
<1> QED
  BY <1>3, <1>4 DEF Follows, OrderShrinks

LEMMA SeedsForBook ==
  ASSUME PubIsVenue, WindowIsComplete, BookOK(venue, VenueIds),
         NEW v, BookOK(v, VenueIds), Follows(v, msg, venue), ~Reduces(msg.event), NEW s \in Side
  PROVE  SeedsFor(v, s)
<1>1. /\ Lists(pub[s]) /\ PricesDiffer(pub[s]) /\ Published(s) = Tracked(venue, s)
      /\ \A m \in 1 .. Len(pub[s]) : pub[s][m].volume = Volume(venue[s][pub[s][m].price])
  BY RowFacts, RowPricesDiffer, RowIsBook
<1>2. PICK g : g = pub[s]
  OBVIOUS
<1>3. /\ g \in Seq(Listed) /\ Len(g) \in Nat /\ DOMAIN g = 1 .. Len(g)
      /\ \A m \in 1 .. Len(g) : g[m] \in Listed
  BY <1>1, <1>2, ListsFacts DEF Lists
<1>4. PICK left : left = [i \in DOMAIN g |-> [g[i] EXCEPT !.volume = @ - OwnShares(s, g[i].price)]]
  OBVIOUS
<1>5. \A m \in 1 .. Len(g) : left[m] = [price |-> g[m].price, volume |-> Volume(v[s][g[m].price])]
  <2> SUFFICES ASSUME NEW m \in 1 .. Len(g)
               PROVE  left[m] = [price |-> g[m].price, volume |-> Volume(v[s][g[m].price])]
    OBVIOUS
  <2>1. PICK l \in Listed : l = g[m] /\ l.volume = Volume(venue[s][l.price])
    BY <1>1, <1>2, <1>3
  <2>2. PICK p \in Price : p = l.price
    BY DEF Listed
  <2>3. PICK n, k : n = Volume(venue[s][p]) - OwnShares(s, p) /\ k = Volume(v[s][p])
    OBVIOUS
  <2>4. n = k
    BY <2>3, OwnSharesFacts
  <2>5. left[m] = [l EXCEPT !.volume = @ - OwnShares(s, p)]
    BY <1>3, <1>4, <2>1, <2>2
  <2>6. l = [price |-> l.price, volume |-> l.volume]
    BY DEF Listed
  <2>7. left[m] = [price |-> p, volume |-> n]
    BY <2>1, <2>2, <2>3, <2>5, <2>6
  <2> QED
    BY <2>1, <2>2, <2>3, <2>4, <2>7
<1>6. PICK E : E = [price : Price, volume : Nat]
  OBVIOUS
<1>7. \A m \in 1 .. Len(g) : left[m] \in E /\ g[m].price \in Price
  <2>1. \A m \in 1 .. Len(g) : g[m].price \in Price
    BY <1>3 DEF Listed
  <2>2. \A p \in Price : Volume(v[s][p]) \in Nat
    BY OwnSharesFacts
  <2> SUFFICES ASSUME NEW m \in 1 .. Len(g) PROVE left[m] \in E
    BY <2>1
  <2>3. PICK p \in Price, k \in Nat : p = g[m].price /\ k = Volume(v[s][p])
    BY <2>1, <2>2
  <2>4. left[m] = [price |-> p, volume |-> k]
    BY <1>5, <2>3
  <2> QED
    BY <1>6, <2>4
<1>8. left \in Seq(E) /\ Len(left) = Len(g)
  <2>1. left = [i \in 1 .. Len(g) |-> left[i]]
    BY <1>3, <1>4
  <2> QED
    BY <1>3, <1>7, <2>1, FunctionIsSeq
<1>9. PICK D : D = {i \in DOMAIN left : left[i].volume > 0}
  OBVIOUS
<1>10. PICK d : d = SeedLevels(s)
  OBVIOUS
<1>11. d = EntriesAt(left, D)
  <2>1. left = [i \in DOMAIN pub[s] |->
                  [pub[s][i] EXCEPT !.volume = @ -
                     (IF msg.event = "NEW_LIMIT" /\ msg.side = s /\ msg.price = pub[s][i].price
                      THEN msg.size ELSE 0)]]
    BY <1>2, <1>4 DEF OwnShares
  <2> QED
    BY <1>9, <1>10, <2>1 DEF SeedLevels
<1>12. d \in Seq(E) /\ \E u : Positions(u, d, left, D, Len(left))
  BY <1>8, <1>11, EntriesAtPositions
<1>13. PICK u : /\ u \in [1 .. Len(d) -> {i \in 1 .. Len(g) : i \in D}]
                /\ \A j \in 1 .. Len(d) : d[j] = left[u[j]]
                /\ \A i, j \in 1 .. Len(d) : i < j => u[i] < u[j]
                /\ \A i \in 1 .. Len(g) : i \in D => \E j \in 1 .. Len(d) : u[j] = i
  BY <1>8, <1>12 DEF Positions
<1>14. /\ Len(d) \in Nat
       /\ \A m \in 1 .. Len(d) : u[m] \in 1 .. Len(g) /\ u[m] \in D
       /\ \A i \in 1 .. Len(g) : i \in D <=> v[s][g[i].price] # <<>>
  <2>1. DOMAIN left = 1 .. Len(g)
    BY <1>3, <1>4
  <2>2. \A i \in 1 .. Len(g) : i \in D <=> Volume(v[s][g[i].price]) > 0
    BY <1>5, <1>9, <2>1
  <2>3. \A i \in 1 .. Len(g) : Volume(v[s][g[i].price]) > 0 <=> v[s][g[i].price] # <<>>
    BY <1>7, OwnSharesFacts
  <2>4. Len(d) \in Nat
    BY <1>12
  <2> QED
    BY <1>13, <2>2, <2>3, <2>4
<1>15. \A m \in 1 .. Len(d) :
         /\ d[m].price = g[u[m]].price /\ d[m].volume = Volume(v[s][d[m].price])
         /\ d[m].price \in Price /\ v[s][d[m].price] # <<>>
  <2> SUFFICES ASSUME NEW m \in 1 .. Len(d)
               PROVE  /\ d[m].price = g[u[m]].price /\ d[m].volume = Volume(v[s][d[m].price])
                      /\ d[m].price \in Price /\ v[s][d[m].price] # <<>>
    OBVIOUS
  <2>1. PICK i \in 1 .. Len(g) : i = u[m] /\ i \in D
    BY <1>14
  <2>2. d[m] = left[i]
    BY <1>13, <2>1
  <2>3. d[m].price = g[i].price /\ d[m].volume = Volume(v[s][g[i].price])
    <3>1. PICK x, y : x = g[i].price /\ y = Volume(v[s][g[i].price])
      OBVIOUS
    <3>2. d[m] = [price |-> x, volume |-> y]
      BY <1>5, <2>2, <3>1
    <3>3. d[m].price = x /\ d[m].volume = y
      BY <3>2
    <3> QED
      BY <3>1, <3>3
  <2> QED
    BY <1>7, <1>14, <2>1, <2>3
<1>16. Lists(d)
  <2>1. \A m \in 1 .. Len(d) : d[m] \in Listed
    <3> SUFFICES ASSUME NEW m \in 1 .. Len(d) PROVE d[m] \in Listed
      OBVIOUS
    <3>1. d[m] \in E /\ d[m].price \in Price
      BY <1>12, <1>15
    <3>2. d[m].volume \in Nat \ {0}
      <4>1. Volume(v[s][d[m].price]) \in Nat /\ Volume(v[s][d[m].price]) > 0
        BY <1>15, OwnSharesFacts
      <4> QED
        BY <1>15, <4>1
    <3> QED
      BY <1>6, <3>1, <3>2 DEF Listed
  <2> QED
    BY <1>12, <2>1 DEF Lists
<1>17. PricesDiffer(d)
  <2> SUFFICES ASSUME NEW i \in 1 .. Len(d), NEW j \in 1 .. Len(d), d[i].price = d[j].price
               PROVE  i = j
    BY DEF PricesDiffer
  <2>1. u[i] = u[j]
    <3>1. PICK a \in 1 .. Len(g), b \in 1 .. Len(g) : a = u[i] /\ b = u[j]
      BY <1>14
    <3>2. g[a].price = g[b].price
      BY <1>15, <3>1
    <3>3. a = b
      BY <1>1, <1>2, <3>2 DEF PricesDiffer
    <3> QED
      BY <3>1, <3>3
  <2>2. u[i] \in Nat
    BY <1>14
  <2>3. ~(i < j) /\ ~(j < i)
    BY <1>13, <2>1, <2>2
  <2> QED
    BY <1>14, <2>3
<1>18. \A p \in Tracked(v, s) : \E m \in 1 .. Len(d) : d[m].price = p
  <2> SUFFICES ASSUME NEW p \in Tracked(v, s) PROVE \E m \in 1 .. Len(d) : d[m].price = p
    OBVIOUS
  <2>1. p \in Price /\ v[s][p] # <<>>
    BY DEF Tracked
  <2>2. p \in Published(s)
    BY <1>1, <2>1, OwnSharesFacts DEF Tracked
  <2>3. PICK i \in 1 .. Len(g) : g[i].price = p
    BY <1>2, <1>3, <2>2 DEF Published
  <2>4. i \in D
    BY <1>14, <2>1, <2>3
  <2> QED
    BY <1>13, <1>15, <2>3, <2>4
<1> QED
  BY <1>10, <1>15, <1>16, <1>17, <1>18 DEF SeedsFor, Tracked

(* The book that is seeded mirrors what was there before the message.      *)
LEMMA SeedMirrors ==
  ASSUME PubIsVenue, WindowIsComplete, BookOK(venue, VenueIds),
         NEW v, BookOK(v, VenueIds), Unseen(v), Follows(v, msg, venue), ~Reduces(msg.event),
         RecOK(rec), rec.book = EmptyBook, DOMAIN rec.seeds = {},
         NEW q, q = SeedSide(SeedSide(rec, "buy"), "sell")
  PROVE  Mirrors(q, v)
<1>1. SeedsFor(v, "buy") /\ SeedsFor(v, "sell") /\ "buy" \in Side /\ "sell" \in Side
  BY SeedsForBook DEF Side
<1>2. Sown(rec, v, {})
  BY DEF Sown, EmptyBook
<1>3. PICK P, Q, t : /\ P = {} \cup {<<"buy", p>> : p \in Price}
                     /\ Q = P \cup {<<"sell", p>> : p \in Price}
                     /\ t = SeedSide(rec, "buy")
  OBVIOUS
<1>4. RecOK(t) /\ Sown(t, v, P)
  BY <1>1, <1>2, <1>3, SowSide
<1>5. \A p \in Price : <<"sell", p>> \notin P
  BY <1>3
<1>6. Sown(q, v, Q)
  BY <1>1, <1>3, <1>4, <1>5, SowSide
<1>7. \A s \in Side, p \in Price : <<s, p>> \in Q
  BY <1>3 DEF Side
<1> QED
  BY <1>6, <1>7, SownMirrors

-----------------------------------------------------------------------------
(***************************************************************************)
(* The inductive invariant for such a feed: before its first message, and  *)
(* from then on.                                                           *)
(***************************************************************************)
\* Between reading a message and applying it, the venue is one event ahead of us.
Synced ==
  /\ err \notin {"divergence", "trades"}
  /\ pc \notin {"passed", "failed"} => st.unknown_refs = 0 /\ st.first_divergence = 0
  /\ pc = "seed" => /\ DOMAIN rec.seeds = {} /\ msg.event = first
                    /\ \E v : Unseen(v) /\ BookOK(v, VenueIds) /\ Follows(v, msg, venue)
  /\ pc = "apply" => \E v : BookOK(v, VenueIds) /\ Mirrors(rec, v) /\ Follows(v, msg, venue)
  /\ pc \in {"read", "prune", "recover", "resync", "emit", "compare"} => Mirrors(rec, venue)

\* Before the first message: nothing is known of the orders that rest.
Unread ==
  /\ err \notin {"divergence", "trades"}
  /\ Unseen(venue) /\ DOMAIN rec.seeds = {}
  /\ st.unknown_refs = 0 /\ st.first_divergence = 0

\* What holds of such a feed before and after its first message.
CompleteInv ==
  WindowIsComplete =>
    /\ "unknown_refs" \in DOMAIN st
    /\ st.messages = 0 => Unread
    /\ st.messages > 0 /\ ~Reduces(first) => Synced

LEMMA CompleteInit == Init => CompleteInv
<1> SUFFICES ASSUME Init PROVE CompleteInv
  OBVIOUS
<1>1. Unseen(venue)
  BY VenueStarts DEF Init, Unseen
<1>2. /\ DOMAIN rec.seeds = {} /\ st.messages = 0
      /\ st.unknown_refs = 0 /\ st.first_divergence = 0 /\ "unknown_refs" \in DOMAIN st
      /\ err = "none"
  BY DEF Init
<1> QED
  BY <1>1, <1>2 DEF CompleteInv, Unread

\* What the other invariants say that is needed here.
LEMMA CompleteFacts ==
  ASSUME BookInv
  PROVE  /\ st.messages \in Nat /\ {"messages", "first_divergence"} \subseteq DOMAIN st
         /\ pc # "failed" => err = "none"
         /\ pc \in Working => st.messages > 0 /\ PubIsVenue /\ RecOK(rec)
         /\ VenueOK /\ BookOK(venue, VenueIds) /\ RecOK(rec)
         /\ st.messages = 0 \/ pc = "seed" => rec.book = EmptyBook /\ rec.unexpected_trades = 0
         /\ pc = "read" /\ st.first_divergence = 0 => rec.unexpected_trades = 0
<1>1. CountersOK /\ Judgement /\ RecInv /\ VenueOK
  BY DEF BookInv, ReplayInv, FeedInv
<1>2. /\ st.messages \in Nat /\ {"messages", "first_divergence"} \subseteq DOMAIN st
      /\ pc # "failed" => err = "none"
      /\ pc \in Working => st.messages > 0 /\ PubIsVenue
      /\ agreed \in Nat
  BY <1>1 DEF CountersOK, Judgement
<1>3. /\ RecOK(rec)
      /\ st.messages = 0 \/ pc = "seed" => rec.book = EmptyBook /\ rec.unexpected_trades = 0
  BY <1>1 DEF RecInv
<1>4. pc = "read" /\ st.first_divergence = 0 => rec.unexpected_trades = 0
  <2> SUFFICES ASSUME pc = "read", st.first_divergence = 0 PROVE rec.unexpected_trades = 0
    OBVIOUS
  <2>1. agreed = st.messages
    BY <1>1 DEF Judgement, JudgedTo
  <2>2. agreed >= st.messages - 1
    BY <1>2, <2>1
  <2> QED
    BY <1>1, <2>2 DEF RecInv
<1> QED
  BY <1>1, <1>2, <1>3, <1>4 DEF VenueOK

(* A step on a message that leaves the reconstruction in step.             *)
LEMMA SyncedStep ==
  ASSUME BookInv, CompleteInv, pc \in Working,
         pc' \in {"read", "prune", "recover", "resync", "emit", "compare"},
         st'.messages = st.messages, DOMAIN st' = DOMAIN st, UNCHANGED <<err, first>>,
         WindowIsComplete /\ Synced =>
           /\ Mirrors(rec', venue')
           /\ st'.unknown_refs = st.unknown_refs /\ st'.first_divergence = st.first_divergence
  PROVE  CompleteInv'
<1> SUFFICES ASSUME WindowIsComplete PROVE CompleteInv'
  BY DEF CompleteInv, WindowIsComplete
<1>1. /\ "unknown_refs" \in DOMAIN st' /\ st'.messages > 0 /\ ~(st'.messages = 0)
      /\ err' = "none" /\ pc \notin {"passed", "failed"}
  BY CompleteFacts DEF CompleteInv, Working
<1>2. ~Reduces(first)' => Synced'
  <2> SUFFICES ASSUME ~Reduces(first)' PROVE Synced'
    OBVIOUS
  <2>1. ~Reduces(first) /\ st.messages > 0
    BY CompleteFacts DEF Reduces
  <2>2. Synced
    BY <2>1 DEF CompleteInv
  <2>3. st.unknown_refs = 0 /\ st.first_divergence = 0
    BY <1>1, <2>2 DEF Synced
  <2> QED
    BY <1>1, <2>2, <2>3 DEF Synced
<1> QED
  BY <1>1, <1>2 DEF CompleteInv

(* The steps of the loop: reading a message.                               *)
LEMMA ReadCompletes ==
  ASSUME BookInv, CompleteInv, NEW m \in Messages, ReadMessage(m)
  PROVE  CompleteInv'
<1> SUFFICES ASSUME WindowIsComplete PROVE CompleteInv'
  BY DEF CompleteInv, WindowIsComplete
<1>1. /\ pc = "read" /\ st' = [st EXCEPT !.messages = @ + 1] /\ Happens(m) /\ msg' = m
      /\ pc' = IF st.messages = 0 THEN "seed" ELSE "apply"
      /\ first' = IF st.messages = 0 THEN m.event ELSE first
      /\ UNCHANGED <<rec, err>>
  BY DEF ReadMessage, Announced, Go
<1>2. Follows(venue, m, venue') /\ BookOK(venue, VenueIds)
  BY <1>1, CompleteFacts, MessageFollows
<1>3. /\ st'.messages = st.messages + 1 /\ st'.unknown_refs = st.unknown_refs
      /\ st'.first_divergence = st.first_divergence /\ "unknown_refs" \in DOMAIN st'
      /\ st.messages \in Nat /\ st'.messages # 0
  BY <1>1, CompleteFacts DEF CompleteInv
<1>4. err' = "none"
  BY <1>1, CompleteFacts
<1>5. CASE st.messages = 0
  <2>1. Unread
    BY <1>5 DEF CompleteInv
  <2>2. /\ pc' = "seed" /\ first' = m.event /\ msg'.event = first' /\ DOMAIN rec'.seeds = {}
        /\ st'.unknown_refs = 0 /\ st'.first_divergence = 0 /\ Unseen(venue)
    BY <1>1, <1>3, <1>5, <2>1 DEF Unread
  <2>3. \E v : Unseen(v) /\ BookOK(v, VenueIds) /\ Follows(v, msg', venue')
    BY <1>1, <1>2, <2>2
  <2>4. Synced'
    BY <1>4, <2>2, <2>3 DEF Synced
  <2> QED
    BY <1>3, <2>4 DEF CompleteInv
<1>6. CASE st.messages # 0
  <2>1. pc' = "apply" /\ first' = first /\ st.messages > 0
    BY <1>1, <1>3, <1>6
  <2>2. ASSUME ~Reduces(first)' PROVE Synced'
    <3>1. Synced
      BY <2>1, <2>2 DEF CompleteInv, Reduces
    <3>2. Mirrors(rec, venue) /\ st.unknown_refs = 0 /\ st.first_divergence = 0
      BY <1>1, <3>1 DEF Synced
    <3>3. \E v : BookOK(v, VenueIds) /\ Mirrors(rec', v) /\ Follows(v, msg', venue')
      BY <1>1, <1>2, <3>2
    <3> QED
      BY <1>3, <1>4, <2>1, <3>2, <3>3 DEF Synced
  <2> QED
    BY <1>3, <2>2 DEF CompleteInv
<1> QED
  BY <1>5, <1>6

(* Nothing happens out of sight of rows that show the whole book.          *)
LEMMA AllInWindow ==
  ASSUME WindowIsComplete, VenueOK, NEW m \in Messages
  PROVE  InWindow(m)
<1>1. CASE m \in OffBook
  BY <1>1 DEF InWindow
<1>2. CASE m \notin OffBook
  <2>1. m.price \in Price
    <3>1. CASE Takes(m)
      <4>1. PICK o \in Resting(venue) : m.price = o.price
        BY <3>1 DEF Takes
      <4>2. o.price \in Price
        BY RestingLevel DEF VenueOK
      <4> QED
        BY <4>1, <4>2
    <3> QED
      BY <1>2, <3>1, MessageFacts
  <2>2. PICK A : A = {q \in Tracked(venue, m.side) : Better(m.side, q, m.price)}
    OBVIOUS
  <2>3. A \subseteq Price \ {m.price}
    <3>1. ~Better(m.side, m.price, m.price)
      BY <2>1 DEF Better, Price
    <3> QED
      BY <2>2, <3>1 DEF Tracked
  <2>4. /\ IsFiniteSet(Price \ {m.price})
        /\ Cardinality(Price \ {m.price}) = Cardinality(Price) - 1
        /\ Cardinality(Price) \in Nat
    BY <2>1, SlotsFinite, FS_RemoveElement, FS_CardinalityType
  <2>5. Cardinality(A) \in Nat /\ Cardinality(A) <= Cardinality(Price \ {m.price})
    BY <2>3, <2>4, FS_Subset, FS_CardinalityType
  <2>6. Cardinality(A) < FileLevels
    BY <2>4, <2>5, VenueAssumption DEF WindowIsComplete
  <2> QED
    BY <2>2, <2>6 DEF InWindow
<1> QED
  BY <1>1, <1>2

(* Nor can the venue do anything between two messages.                     *)
LEMMA AloneCompletes ==
  ASSUME BookInv, CompleteInv, NEW m \in Messages, VenueAlone(m)
  PROVE  CompleteInv'
<1> SUFFICES ASSUME WindowIsComplete PROVE FALSE
  BY DEF CompleteInv, WindowIsComplete
<1> QED
  BY CompleteFacts, AllInWindow DEF VenueAlone, Unannounced

(* A replay that stops does so for its input or at the end of the feed,    *)
(* with no trade to report.                                                *)
LEMMA StopCompletes ==
  ASSUME BookInv, CompleteInv, RejectInput \/ EndOfFile \/ UNCHANGED vars
  PROVE  CompleteInv'
<1> SUFFICES ASSUME WindowIsComplete PROVE CompleteInv'
  BY DEF CompleteInv, WindowIsComplete
<1>1. CASE RejectInput
  <2>1. PICK n \in {0, 1} : st' = [st EXCEPT !.messages = @ + n]
    BY <1>1 DEF RejectInput
  <2>2. /\ st'.messages = st.messages + n /\ st'.unknown_refs = st.unknown_refs
        /\ st'.first_divergence = st.first_divergence /\ "unknown_refs" \in DOMAIN st'
        /\ st.messages \in Nat
    BY <2>1, CompleteFacts DEF CompleteInv
  <2>3. pc' = "failed" /\ err' \in BadInput /\ UNCHANGED <<venue, rec>>
    BY <1>1 DEF RejectInput, Go, venueVars, BadInput
  <2>4. err' \notin {"divergence", "trades"}
    BY <2>3 DEF BadInput
  <2>5. st'.messages = 0 => Unread'
    <3>1. st'.messages = 0 => Unread
      BY <2>2 DEF CompleteInv
    <3> QED
      BY <2>2, <2>3, <2>4, <3>1 DEF Unread
  <2>6. Synced'
    BY <2>3, <2>4 DEF Synced
  <2> QED
    BY <2>2, <2>5, <2>6 DEF CompleteInv
<1>2. CASE EndOfFile
  <2>1. pc = "read" /\ UNCHANGED <<venue, rec, st, first>>
    BY <1>2 DEF EndOfFile, venueVars
  <2>2. ASSUME rec.unexpected_trades = 0 PROVE pc' = "passed" /\ err' = "none"
    BY <1>2, <2>1, <2>2, CompleteFacts DEF EndOfFile, Go
  <2>3. st'.messages = 0 => Unread'
    BY <2>1, <2>2, CompleteFacts DEF CompleteInv, Unread
  <2>4. ASSUME st'.messages > 0, ~Reduces(first)' PROVE Synced'
    <3>1. Synced
      BY <2>1, <2>4 DEF CompleteInv, Reduces
    <3>2. st.first_divergence = 0
      BY <2>1, <3>1 DEF Synced
    <3>3. pc' = "passed" /\ err' = "none"
      BY <2>1, <2>2, <3>2, CompleteFacts
    <3> QED
      BY <3>3 DEF Synced
  <2> QED
    BY <2>1, <2>3, <2>4 DEF CompleteInv
<1>3. CASE UNCHANGED vars
  <2>1. UNCHANGED <<venue, msg, pc, rec, st, err, first>>
    BY <1>3 DEF vars, venueVars, replayVars
  <2>2. UNCHANGED Unread
    BY <2>1 DEF Unread
  <2>3. UNCHANGED Synced
    BY <2>1 DEF Synced
  <2> QED
    BY <2>1, <2>2, <2>3 DEF CompleteInv, Reduces
<1> QED
  BY <1>1, <1>2, <1>3

(* The seeding, in which the first message has not been applied yet.       *)
LEMMA SeedCompletes ==
  ASSUME BookInv, CompleteInv, SeedBook
  PROVE  CompleteInv'
<1> SUFFICES ASSUME WindowIsComplete PROVE CompleteInv'
  BY DEF CompleteInv, WindowIsComplete
<1>1. /\ pc = "seed" /\ pc' = "apply" /\ rec' = SeedSide(SeedSide(rec, "buy"), "sell")
      /\ UNCHANGED <<venue, msg, st, err, first>>
  BY DEF SeedBook, Go, venueVars
<1>2. /\ st.messages > 0 /\ PubIsVenue /\ RecOK(rec) /\ BookOK(venue, VenueIds)
      /\ rec.book = EmptyBook /\ st.messages # 0
  BY <1>1, CompleteFacts DEF Working
<1>3. ASSUME ~Reduces(first)' PROVE Synced'
  <2>1. Synced
    BY <1>1, <1>2, <1>3 DEF CompleteInv, Reduces
  <2>2. PICK v : Unseen(v) /\ BookOK(v, VenueIds) /\ Follows(v, msg, venue)
    BY <1>1, <2>1 DEF Synced
  <2>3. DOMAIN rec.seeds = {} /\ ~Reduces(msg.event)
    BY <1>1, <1>3, <2>1 DEF Synced, Reduces
  <2>4. Mirrors(rec', v)
    BY <1>1, <1>2, <2>2, <2>3, SeedMirrors
  <2>5. \E b : BookOK(b, VenueIds) /\ Mirrors(rec', b) /\ Follows(b, msg', venue')
    BY <1>1, <2>2, <2>4
  <2>6. st'.unknown_refs = 0 /\ st'.first_divergence = 0 /\ err' \notin {"divergence", "trades"}
    BY <1>1, <2>1 DEF Synced
  <2> QED
    BY <1>1, <2>5, <2>6 DEF Synced
<1> QED
  BY <1>1, <1>2, <1>3 DEF CompleteInv

(* Each message finds what it names.                                       *)
LEMMA ApplyMirrored ==
  ASSUME RecOK(rec), NEW v, BookOK(v, VenueIds), Mirrors(rec, v), Follows(v, msg, venue),
         ApplyNewLimit \/ ApplyToOrder \/ ApplyToSeed \/ ApplyUnknown \/ ApplySkipped
  PROVE  Mirrors(rec', venue) /\ ~ApplyUnknown
<1>1. CASE NewOrderRests(v, msg, venue)
  <2>1. msg.event = "NEW_LIMIT"
    BY <1>1 DEF NewOrderRests
  <2>2. rec' = Insert(rec, msg.order_id, msg.side, msg.price, msg.size) /\ ~ApplyUnknown
    BY <2>1 DEF ApplyNewLimit, ApplyToOrder, ApplyToSeed, ApplyUnknown, ApplySkipped, Reduces
  <2> QED
    BY <1>1, <2>2, NewOrderMirrored
<1>2. CASE OrderShrinks(v, msg, venue)
  <2>1. Reduces(msg.event) /\ ~ApplyNewLimit /\ ~ApplySkipped
    BY <1>2 DEF OrderShrinks, ApplyNewLimit, ApplySkipped, Reduces
  <2>2. CASE msg.order_id \in During
    <3>1. PICK q : q = [rec EXCEPT !.book = IF msg.event = "FULL_DELETE"
                                            THEN CancelOrder(@, msg.order_id)
                                            ELSE ReduceOrder(@, msg.order_id, msg.size)]
      OBVIOUS
    <3>2. GetOrderQty(rec.book, msg.order_id) # 0 /\ Mirrors(q, venue)
      BY <1>2, <2>2, <3>1, ToldShrinks
    <3>3. ~ApplyToSeed /\ ~ApplyUnknown
      BY <3>2 DEF ApplyToSeed, ApplyUnknown, Held
    <3>4. rec' = q
      BY <2>1, <3>1, <3>3 DEF ApplyToOrder
    <3> QED
      BY <3>2, <3>3, <3>4
  <2>3. CASE msg.order_id \notin During
    <3>1. PICK q : q = AttributeToSeed(rec)
      OBVIOUS
    <3>2. /\ GetOrderQty(rec.book, msg.order_id) = 0
          /\ Key \in DOMAIN rec.seeds /\ GetOrderQty(rec.book, rec.seeds[Key]) # 0
          /\ Mirrors(q, venue)
      BY <1>2, <2>3, <3>1, PreWindowShrinks
    <3>3. ~ApplyToOrder /\ ~ApplyUnknown
      BY <3>2 DEF ApplyToOrder, ApplyUnknown, Held, SeedHeld
    <3>4. rec' = q
      BY <2>1, <3>1, <3>3 DEF ApplyToSeed
    <3> QED
      BY <3>2, <3>3, <3>4
  <2> QED
    BY <2>2, <2>3
<1>3. CASE NothingHappens(v, msg, venue)
  <2>1. msg.event \in {"EXEC_HIDDEN", "CROSS", "HALT"} /\ venue = v
    BY <1>3 DEF NothingHappens
  <2>2. rec' = rec /\ ~ApplyUnknown
    BY <2>1 DEF ApplyNewLimit, ApplyToOrder, ApplyToSeed, ApplyUnknown, ApplySkipped, Reduces
  <2> QED
    BY <2>1, <2>2
<1> QED
  BY <1>1, <1>2, <1>3 DEF Follows

(* Applying a message, which puts the reconstruction in step with the      *)
(* venue.                                                                  *)
LEMMA ApplyCompletes ==
  ASSUME BookInv, CompleteInv,
         ApplyNewLimit \/ ApplyToOrder \/ ApplyToSeed \/ ApplyUnknown \/ ApplySkipped
  PROVE  CompleteInv'
<1>1. /\ pc = "apply" /\ pc' \in {"prune", "emit"} /\ UNCHANGED <<venue, msg, err, first>>
  BY DEF ApplyNewLimit, ApplyToOrder, ApplyToSeed, ApplyUnknown, ApplySkipped, Applied, Go, venueVars
<1>2. st'.messages = st.messages /\ DOMAIN st' = DOMAIN st
      /\ st'.first_divergence = st.first_divergence
  BY CompleteFacts
  DEF ApplyNewLimit, ApplyToOrder, ApplyToSeed, ApplyUnknown, ApplySkipped
<1>3. ASSUME WindowIsComplete, Synced
      PROVE  Mirrors(rec', venue') /\ st'.unknown_refs = st.unknown_refs
  <2>1. PICK v : BookOK(v, VenueIds) /\ Mirrors(rec, v) /\ Follows(v, msg, venue)
    BY <1>1, <1>3 DEF Synced
  <2>2. Mirrors(rec', venue) /\ ~ApplyUnknown
    BY <2>1, CompleteFacts, ApplyMirrored
  <2>3. "unknown_refs" \in DOMAIN st
    BY <1>3 DEF CompleteInv
  <2>4. st'.unknown_refs = st.unknown_refs
    BY <2>2, <2>3 DEF ApplyNewLimit, ApplyToOrder, ApplyToSeed, ApplySkipped
  <2> QED
    BY <1>1, <2>2, <2>4
<1> QED
  BY <1>1, <1>2, <1>3, SyncedStep DEF Working

(* The repairs change nothing.                                             *)
LEMMA RepairCompletes ==
  ASSUME BookInv, CompleteInv, Prune \/ Recover \/ Resync
  PROVE  CompleteInv'
<1>1. /\ pc \in {"prune", "recover", "resync"} /\ pc' \in {"recover", "resync", "emit"}
      /\ UNCHANGED <<venue, err, first>>
  BY DEF Prune, Recover, Resync, Go, venueVars
<1>2. /\ PubIsVenue /\ RecOK(rec) /\ BookOK(venue, VenueIds)
  BY <1>1, CompleteFacts DEF Working
<1>3. /\ st'.messages = st.messages /\ DOMAIN st' = DOMAIN st
      /\ st'.first_divergence = st.first_divergence
      /\ "unknown_refs" \in DOMAIN st => st'.unknown_refs = st.unknown_refs
  BY CompleteFacts DEF Prune, Recover, Resync
<1>4. ASSUME WindowIsComplete, Synced
      PROVE  Mirrors(rec', venue')
  <2>1. Mirrors(rec, venue)
    BY <1>1, <1>4 DEF Synced
  <2>2. CASE Prune
    BY <1>1, <1>2, <1>4, <2>1, <2>2, PruneMirrored DEF Prune
  <2>3. CASE Recover
    <3>1. RecoverSide(rec, "buy") = rec /\ RecoverSide(rec, "sell") = rec
      BY <1>2, <2>1, RecoverMirrored DEF Side
    <3> QED
      BY <1>1, <2>1, <2>3, <3>1 DEF Recover
  <2>4. CASE Resync
    <3>1. ResyncSide(rec, "buy") = rec /\ ResyncSide(rec, "sell") = rec
      BY <1>2, <2>1, ResyncMirrored DEF Side
    <3> QED
      BY <1>1, <2>1, <2>4, <3>1 DEF Resync
  <2> QED
    BY <2>2, <2>3, <2>4
<1>5. WindowIsComplete => "unknown_refs" \in DOMAIN st
  BY DEF CompleteInv
<1> QED
  BY <1>1, <1>3, <1>4, <1>5, SyncedStep DEF Working

(* Nor does the emission of features.                                      *)
LEMMA EmitCompletes ==
  ASSUME BookInv, CompleteInv, Emit
  PROVE  CompleteInv'
<1>1. pc = "emit" /\ pc' = "compare" /\ UNCHANGED <<venue, rec, st, err, first>>
  BY DEF Emit, Go, venueVars
<1>2. Synced => Mirrors(rec', venue')
  BY <1>1 DEF Synced
<1> QED
  BY <1>1, <1>2, SyncedStep DEF Working

(* The comparison succeeds.                                                *)
LEMMA JudgeCompletes ==
  ASSUME BookInv, CompleteInv, Accept \/ ContinuePast \/ Diverge
  PROVE  CompleteInv'
<1>1. pc = "compare" /\ UNCHANGED <<venue, rec, first>>
  BY DEF Accept, ContinuePast, Diverge, Judge, venueVars
<1>2. /\ PubIsVenue /\ RecOK(rec) /\ st.messages > 0 /\ st.messages # 0
  BY <1>1, CompleteFacts DEF Working
<1>3. CASE Accept
  <2>1. pc' = "read" /\ UNCHANGED <<st, err>>
    BY <1>3 DEF Accept, Go
  <2>2. Synced => Mirrors(rec', venue')
    BY <1>1 DEF Synced
  <2> QED
    BY <1>1, <2>1, <2>2, SyncedStep DEF Working
<1>4. CASE ~Compared
  <2> SUFFICES ASSUME WindowIsComplete PROVE CompleteInv'
    BY DEF CompleteInv, WindowIsComplete
  <2>1. st'.messages = st.messages /\ DOMAIN st' = DOMAIN st
    BY <1>4, CompleteFacts DEF Accept, ContinuePast, Diverge
  <2>2. ~Synced
    BY <1>1, <1>2, <1>4, ComparedMirrored DEF Synced
  <2>3. Reduces(first) /\ "unknown_refs" \in DOMAIN st
    BY <1>2, <2>2 DEF CompleteInv
  <2>4. Reduces(first)'
    BY <1>1, <2>3 DEF Reduces
  <2> QED
    BY <1>2, <2>1, <2>3, <2>4 DEF CompleteInv
<1> QED
  BY <1>3, <1>4 DEF Accept, ContinuePast, Diverge

LEMMA CompleteStep == BookInv /\ CompleteInv /\ [Next]_vars => CompleteInv'
<1> SUFFICES ASSUME BookInv, CompleteInv, [Next]_vars PROVE CompleteInv'
  OBVIOUS
<1>1. ASSUME NEW m \in Messages, ReadMessage(m) \/ VenueAlone(m) PROVE CompleteInv'
  BY <1>1, ReadCompletes, AloneCompletes
<1>2. CASE UNCHANGED vars \/ RejectInput \/ EndOfFile
  BY <1>2, StopCompletes
<1>3. CASE ReplayStep
  BY <1>3, SeedCompletes, ApplyCompletes, RepairCompletes, EmitCompletes, JudgeCompletes
  DEF ReplayStep
<1> QED
  BY <1>1, <1>2, <1>3 DEF Next, Running, Returned, Messages

(* The mirrored feed's inductive invariant.                                *)
THEOREM CompleteSafety == Spec => []CompleteInv
<1>1. BookInv /\ CompleteInv /\ BookInv' /\ [Next]_vars => CompleteInv'
  BY CompleteStep
<1> QED
  BY <1>1, CompleteInit, BookSafety, PTL DEF Spec

(* What the run lobster_complete checks follows from the mirroring of the  *)
(* levels.                                                                 *)
LEMMA MirrorsIsMirrored ==
  ASSUME RecOK(rec), Mirrors(rec, venue)
  PROVE  Mirrored
<1> SUFFICES ASSUME NEW s \in Side, NEW p \in Price
             PROVE  /\ Told(rec.book[s][p]) = Introduced(s, p)
                    /\ Unintroduced(s, p) =
                         IF <<s, p>> \in DOMAIN rec.seeds
                         THEN GetOrderQty(rec.book, rec.seeds[<<s, p>>]) ELSE 0
  BY DEF Mirrored
<1>1. PICK seed, f, g : seed = rec.seeds[<<s, p>>] /\ f = rec.book[s][p] /\ g = venue[s][p]
  OBVIOUS
<1>2. LevelMirrors(f, g, <<s, p>> \in DOMAIN rec.seeds, seed)
  BY <1>1 DEF Mirrors
<1>3. PICK h \in Fifos(Before), t \in Fifos(During) :
        g = h \o t /\ f = StandIn(h, seed) \o t /\ (<<s, p>> \in DOMAIN rec.seeds <=> h # <<>>)
  BY <1>2 DEF LevelMirrors
<1>4. h # <<>> => IsSeed(seed)
  BY <1>1, <1>3, RecSeeds DEF SeedsOK
<1>5. Told(f) = t /\ Introduced(s, p) = t /\ Unintroduced(s, p) = Volume(h)
  <2>1. Told(f) = t /\ Arrived(g) = t /\ Waiting(g) = h
    <3>1. PICK a : a = StandIn(h, seed)
      OBVIOUS
    <3>2. Told(a \o t) = t /\ Arrived(h \o t) = t /\ Waiting(h \o t) = h
      BY <1>4, <3>1, MirrorTold
    <3> QED
      BY <1>3, <3>1, <3>2
  <2>2. Introduced(s, p) = t
    BY <1>1, <2>1 DEF Introduced, Arrived
  <2>3. Unintroduced(s, p) = Volume(h)
    BY <1>1, <2>1 DEF Unintroduced, Waiting
  <2> QED
    BY <2>1, <2>2, <2>3
<1>6. CASE h = <<>>
  <2>1. Volume(h) = 0
    <3>1. h \in Seq(Entries(Before))
      BY DEF Fifos
    <3> QED
      BY <1>6, <3>1, FifoShares
  <2> QED
    BY <1>1, <1>3, <1>5, <1>6, <2>1
<1>7. CASE h # <<>>
  <2>1. PICK a : a = StandIn(h, seed)
    OBVIOUS
  <2>2. /\ a \in Seq(Entries(Nat)) /\ Len(a) = 1 /\ a[1].qty = Volume(h) /\ a[1].id = seed
    BY <1>4, <1>7, <2>1, StandInFacts
  <2>3. t \in Seq(Entries(Nat)) /\ f = a \o t
    BY <1>3, <2>1, MoreFifos, IdBounds DEF Fifos
  <2>4. PICK i \in 1 .. Len(f) : f[i] = a[1]
    <3>1. Chains(f, a, t)
      BY <2>2, <2>3, EntryOfConcat
    <3>2. 1 \in 1 .. Len(a)
      BY <2>2
    <3> QED
      BY <3>1, <3>2 DEF Chains
  <2>5. GetOrderQty(rec.book, seed) = Volume(h)
    <3>1. BookOK(rec.book, 0 .. rec.synthetic_id - 1)
      BY DEF RecOK
    <3>2. PICK c, y : c = ReduceOrder(rec.book, seed, 0) /\ y = Volume(h)
      OBVIOUS
    <3>3. f[i].id = seed /\ f[i].qty = y
      BY <2>2, <2>4, <3>2
    <3>4. LevelReduced(rec.book, c, s, p, seed, 0, y)
      BY <1>1, <3>1, <3>2, <3>3, ReduceEntry
    <3> QED
      BY <3>2, <3>4 DEF LevelReduced
  <2> QED
    BY <1>1, <1>3, <1>5, <1>7, <2>5
<1> QED
  BY <1>6, <1>7

(* When the feed shows the whole book and begins with a new order or an    *)
(* event off the book, the reconstruction has between two messages the     *)
(* venue's introduced orders in the venue's queue order and one stand-in   *)
(* for all that was there before, and every reference has been resolved    *)
(* and every row has matched, whatever the options, the depth, the sizes   *)
(* and the number of messages (LobsterReplay.hpp:180-188, 526-537).        *)
THEOREM CompleteFeedIsAlwaysMirrored == Spec => []CompleteFeedIsMirrored
<1>1. BookInv /\ CompleteInv => CompleteFeedIsMirrored
  <2> SUFFICES ASSUME BookInv, CompleteInv, WindowIsComplete, ~Reduces(first), st.messages > 0,
                      pc \in {"read", "emit", "compare"}
               PROVE  Mirrored /\ st.unknown_refs = 0 /\ st.first_divergence = 0
    BY DEF CompleteFeedIsMirrored
  <2>1. Synced /\ RecOK(rec)
    BY CompleteFacts DEF CompleteInv
  <2> QED
    BY <2>1, MirrorsIsMirrored DEF Synced
<1> QED
  BY <1>1, BookSafety, CompleteSafety, PTL

(* Such a replay fails only for its input.                                 *)
CompleteFeedPasses ==
  WindowIsComplete /\ ~Reduces(first) /\ pc = "failed" => err \in BadInput

(* A replay of such a feed never reports a divergence or an unexpected     *)
(* trade, in any mode: if it fails, a file ended early or a line was not   *)
(* understood (LobsterReplay.hpp:657-688).                                 *)
THEOREM CompleteFeedReconciles == Spec => []CompleteFeedPasses
<1>1. BookInv /\ CompleteInv => CompleteFeedPasses
  <2> SUFFICES ASSUME BookInv, CompleteInv, WindowIsComplete, ~Reduces(first), pc = "failed"
               PROVE  err \in BadInput
    BY DEF CompleteFeedPasses
  <2>1. err \in {"none", "divergence", "trades"} \cup BadInput /\ err # "none"
    BY DEF BookInv, ReplayInv, CountersOK
  <2>2. err \notin {"divergence", "trades"}
    BY CompleteFacts DEF CompleteInv, Unread, Synced
  <2> QED
    BY <2>1, <2>2
<1> QED
  BY <1>1, BookSafety, CompleteSafety, PTL
=============================================================================
