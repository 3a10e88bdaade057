------------------------ MODULE LobsterReplayProofs -------------------------
(***************************************************************************)
(* The reconciliation of a replay for files of any length, any depth, any  *)
(* prices and any events outside the window.                               *)
(*                                                                         *)
(* First what the replay does to the reconstructed book, operation by      *)
(* operation; then the bookkeeping of the reconciliation (ReplayInv); then *)
(* the two books that it compares (BookInv) and what its repairs achieve   *)
(* (RepairInv); at last what the program around it makes of a command line *)
(* and of how a replay ended (RunInv).                                     *)
(***************************************************************************)
EXTENDS RunLobster, BookCallsProofs

(***************************************************************************)
(* The reconstruction: a book in good order of ids below the next stand-in *)
(* id, and seeds that name ids of our own.                                 *)
(***************************************************************************)
RecOK(r) ==
  /\ DOMAIN r = {"book", "seeds", "synthetic_id", "unexpected_trades"}
  /\ r.synthetic_id \in Nat /\ SYNTHETIC_ID_BASE <= r.synthetic_id
  /\ BookOK(r.book, 0 .. r.synthetic_id - 1)
  /\ DOMAIN r.seeds \subseteq Side \X Price
  /\ \A k \in DOMAIN r.seeds : r.seeds[k] \in SYNTHETIC_ID_BASE .. r.synthetic_id - 1

LEMMA MoreIds ==
  ASSUME NEW Ids, NEW More, Ids \subseteq More, NEW b, BookOK(b, Ids)
  PROVE  BookOK(b, More)
<1>1. Entries(Ids) \subseteq Entries(More)
  BY DEF Entries
<1>2. \A f \in Seq(Entries(Ids)) : f \in Seq(Entries(More))
  BY <1>1
<1>3. b \in [Side -> [Price -> Seq(Entries(More))]]
  <2>1. b \in [Side -> [Price -> Seq(Entries(Ids))]]
    BY DEF BookOK
  <2> HIDE DEF Entries
  <2> QED
    BY <1>2, <2>1
<1> QED
  BY <1>3 DEF BookOK

LEMMA InsertRec ==
  ASSUME NEW r, RecOK(r), NEW s \in Side, NEW p, NEW qty \in Nat,
         NEW id \in 0 .. r.synthetic_id - 1
  PROVE  /\ RecOK(Insert(r, id, s, p, qty))
         /\ Clear(r.book, s, p) /\ r.unexpected_trades = 0 =>
              /\ Insert(r, id, s, p, qty).unexpected_trades = 0
              /\ Insert(r, id, s, p, qty).book =
                   IF Insertable(r.book, id, p, qty) THEN Stacked(r.book, s, p, id, qty)
                   ELSE r.book
<1> DEFINE t == Insert(r, id, s, p, qty)
           Ids == 0 .. r.synthetic_id - 1
<1>1. /\ DOMAIN t = DOMAIN r
      /\ t.book = InsertOrder(r.book, id, s, p, qty)
      /\ t.seeds = r.seeds /\ t.synthetic_id = r.synthetic_id
      /\ t.unexpected_trades = r.unexpected_trades
                                 + Cardinality(Fills(r.book, id, s, p, qty))
  BY DEF Insert, RecOK
<1>2. BookOK(r.book, Ids)
  BY DEF RecOK
<1> HIDE DEF t, Ids
<1>3. id \in Ids
  BY DEF Ids
<1>4. BookOK(t.book, Ids)
  BY <1>1, <1>2, <1>3, InsertBook
<1>5. RecOK(t)
  BY <1>1, <1>4 DEF RecOK, Ids
<1>6. ASSUME Clear(r.book, s, p), r.unexpected_trades = 0
      PROVE  /\ t.unexpected_trades = 0
             /\ t.book = IF Insertable(r.book, id, p, qty) THEN Stacked(r.book, s, p, id, qty)
                         ELSE r.book
  <2>1. /\ t.book = IF Insertable(r.book, id, p, qty) THEN Stacked(r.book, s, p, id, qty)
                    ELSE r.book
        /\ Fills(r.book, id, s, p, qty) = {}
    BY <1>1, <1>2, <1>3, <1>6, QuietInsert
  <2>2. Cardinality({}) = 0
    BY FS_EmptySet
  <2> QED
    BY <1>1, <1>6, <2>1, <2>2
<1> QED
  BY <1>5, <1>6 DEF t

LEMMA AddStandInRec ==
  ASSUME NEW r, RecOK(r), NEW s \in Side, NEW p \in Price, NEW qty \in Nat
  PROVE  /\ RecOK(AddStandIn(r, s, p, qty))
         /\ AddStandIn(r, s, p, qty).synthetic_id = r.synthetic_id + 1
         /\ AddStandIn(r, s, p, qty).seeds = Put(r.seeds, <<s, p>>, r.synthetic_id)
         /\ Clear(r.book, s, p) =>
              /\ r.unexpected_trades = 0 => AddStandIn(r, s, p, qty).unexpected_trades = 0
              /\ qty > 0 => AddStandIn(r, s, p, qty).book =
                              Stacked(r.book, s, p, r.synthetic_id, qty)
<1> DEFINE n == r.synthetic_id
           t == AddStandIn(r, s, p, qty)
<1>1. n \in Nat /\ SYNTHETIC_ID_BASE <= n /\ SYNTHETIC_ID_BASE \in Nat
  BY ReplayAssumption DEF RecOK
<1>2. /\ DOMAIN t = DOMAIN r
      /\ t.book = InsertOrder(r.book, n, s, p, qty)
      /\ t.seeds = Put(r.seeds, <<s, p>>, n) /\ t.synthetic_id = n + 1
      /\ t.unexpected_trades = r.unexpected_trades + Cardinality(Fills(r.book, n, s, p, qty))
  BY DEF AddStandIn, Insert, RecOK
<1>3. BookOK(r.book, 0 .. n - 1)
  BY DEF RecOK
<1>4. BookOK(r.book, 0 .. n) /\ n \in 0 .. n
  BY <1>1, <1>3, MoreIds
<1>5. ~Holds(r.book, n)
  <2>1. \A u \in Side, q \in Price : \A i \in 1 .. Len(r.book[u][q]) :
          r.book[u][q][i].id \in 0 .. n - 1
    BY <1>3, OrderQty
  <2> QED
    BY <1>1, <2>1 DEF Holds
<1> HIDE DEF t, n
<1>6. BookOK(t.book, 0 .. n)
  BY <1>2, <1>4, InsertBook
<1>7. DOMAIN t.seeds \subseteq Side \X Price
  BY <1>2 DEF Put, RecOK
<1>8. \A k \in DOMAIN t.seeds : t.seeds[k] \in SYNTHETIC_ID_BASE .. n
  <2>1. \A k \in DOMAIN t.seeds : t.seeds[k] = n \/ (k \in DOMAIN r.seeds
                                                      /\ t.seeds[k] = r.seeds[k])
    BY <1>2 DEF Put
  <2>2. \A k \in DOMAIN r.seeds : r.seeds[k] \in SYNTHETIC_ID_BASE .. n - 1
    BY DEF RecOK, n
  <2> QED
    BY <1>1, <2>1, <2>2
<1>9. t.synthetic_id - 1 = n /\ t.synthetic_id \in Nat
  BY <1>1, <1>2
<1>10. RecOK(t)
  BY <1>1, <1>2, <1>6, <1>7, <1>8, <1>9 DEF RecOK
<1>11. ASSUME Clear(r.book, s, p)
       PROVE  /\ r.unexpected_trades = 0 => t.unexpected_trades = 0
              /\ qty > 0 => t.book = Stacked(r.book, s, p, n, qty)
  <2>1. /\ InsertOrder(r.book, n, s, p, qty) =
             IF Insertable(r.book, n, p, qty) THEN Stacked(r.book, s, p, n, qty) ELSE r.book
        /\ Fills(r.book, n, s, p, qty) = {}
    BY <1>4, <1>11, QuietInsert
  <2>2. qty > 0 => Insertable(r.book, n, p, qty)
    BY <1>4, <1>5, RestingIds DEF Insertable
  <2>3. Cardinality({}) = 0
    BY FS_EmptySet
  <2> QED
    BY <1>2, <1>11, <2>1, <2>2, <2>3
<1> QED
  BY <1>2, <1>10, <1>11 DEF t, n

LEMMA DropDeadSeedRec ==
  ASSUME NEW r, RecOK(r), NEW k
  PROVE  /\ RecOK(DropDeadSeed(r, k))
         /\ DropDeadSeed(r, k).book = r.book
         /\ DropDeadSeed(r, k).synthetic_id = r.synthetic_id
         /\ DropDeadSeed(r, k).unexpected_trades = r.unexpected_trades
<1>1. CASE k \in DOMAIN r.seeds /\ GetOrderQty(r.book, r.seeds[k]) = 0
  <2> DEFINE t == DropDeadSeed(r, k)
  <2>1. /\ DOMAIN t = DOMAIN r /\ t.book = r.book /\ t.synthetic_id = r.synthetic_id
        /\ t.unexpected_trades = r.unexpected_trades
        /\ t.seeds = Without(r.seeds, {k})
    BY <1>1 DEF DropDeadSeed, RecOK
  <2>2. /\ DOMAIN t.seeds \subseteq DOMAIN r.seeds
        /\ \A l \in DOMAIN t.seeds : t.seeds[l] = r.seeds[l]
    BY <2>1 DEF Without
  <2> HIDE DEF t
  <2>3. RecOK(t)
    BY <2>1, <2>2 DEF RecOK
  <2> QED
    BY <2>1, <2>3 DEF t
<1>2. CASE ~(k \in DOMAIN r.seeds /\ GetOrderQty(r.book, r.seeds[k]) = 0)
  BY <1>2 DEF DropDeadSeed
<1> QED
  BY <1>1, <1>2

(* A reconstruction whose book has only been thinned.                      *)
LEMMA ThinnedRec ==
  ASSUME NEW r, RecOK(r), NEW t, DOMAIN t = DOMAIN r,
         BookOK(t.book, 0 .. r.synthetic_id - 1),
         t.synthetic_id = r.synthetic_id, DOMAIN t.seeds \subseteq DOMAIN r.seeds,
         \A k \in DOMAIN t.seeds : t.seeds[k] = r.seeds[k]
  PROVE  RecOK(t)
BY DEF RecOK

(* What the messages name of an order: taken from it, or all of it.        *)
LEMMA CancelRec ==
  ASSUME NEW r, RecOK(r), NEW id
  PROVE  /\ RecOK([r EXCEPT !.book = CancelOrder(@, id)])
         /\ [r EXCEPT !.book = CancelOrder(@, id)].unexpected_trades = r.unexpected_trades
<1> DEFINE t == [r EXCEPT !.book = CancelOrder(@, id)]
<1>1. /\ DOMAIN t = DOMAIN r /\ t.book = CancelOrder(r.book, id)
      /\ t.synthetic_id = r.synthetic_id /\ t.seeds = r.seeds
      /\ t.unexpected_trades = r.unexpected_trades
  BY DEF RecOK
<1>2. BookOK(CancelOrder(r.book, id), 0 .. r.synthetic_id - 1)
  BY CancelBook DEF RecOK
<1> HIDE DEF t
<1>3. RecOK(t)
  BY <1>1, <1>2, ThinnedRec
<1> QED
  BY <1>1, <1>3 DEF t

LEMMA ReduceRec ==
  ASSUME NEW r, RecOK(r), NEW id, NEW n \in Nat
  PROVE  /\ RecOK([r EXCEPT !.book = ReduceOrder(@, id, n)])
         /\ [r EXCEPT !.book = ReduceOrder(@, id, n)].unexpected_trades = r.unexpected_trades
<1> DEFINE t == [r EXCEPT !.book = ReduceOrder(@, id, n)]
<1>1. /\ DOMAIN t = DOMAIN r /\ t.book = ReduceOrder(r.book, id, n)
      /\ t.synthetic_id = r.synthetic_id /\ t.seeds = r.seeds
      /\ t.unexpected_trades = r.unexpected_trades
  BY DEF RecOK
<1>2. BookOK(ReduceOrder(r.book, id, n), 0 .. r.synthetic_id - 1)
  BY ReduceBook DEF RecOK
<1> HIDE DEF t
<1>3. RecOK(t)
  BY <1>1, <1>2, ThinnedRec
<1> QED
  BY <1>1, <1>3 DEF t

(* Pruning empties levels.                                                 *)
LEMMA PruneRec ==
  ASSUME NEW r, RecOK(r)
  PROVE  /\ RecOK(PrunePhantomLevels(r))
         /\ PrunePhantomLevels(r).unexpected_trades = r.unexpected_trades
         /\ PrunePhantomLevels(r).synthetic_id = r.synthetic_id
         /\ \A s \in Side, p \in Price : PrunePhantomLevels(r).book[s][p] =
              IF p \in Doomed(r.book, s) THEN <<>> ELSE r.book[s][p]
<1> DEFINE t == PrunePhantomLevels(r)
           Ids == 0 .. r.synthetic_id - 1
<1>1. /\ DOMAIN t = DOMAIN r /\ t.synthetic_id = r.synthetic_id
      /\ t.unexpected_trades = r.unexpected_trades
      /\ t.book = [s \in Side |-> [p \in Price |->
                     IF p \in Doomed(r.book, s) THEN <<>> ELSE r.book[s][p]]]
      /\ DOMAIN t.seeds \subseteq DOMAIN r.seeds
      /\ \A k \in DOMAIN t.seeds : t.seeds[k] = r.seeds[k]
  BY DEF RecOK, PrunePhantomLevels, Without
<1> HIDE DEF t, Ids
<1>2. BookOK(r.book, Ids)
  BY DEF RecOK, Ids
<1>3. ASSUME NEW s \in Side, NEW p \in Price
      PROVE  /\ t.book[s][p] = IF p \in Doomed(r.book, s) THEN <<>> ELSE r.book[s][p]
             /\ t.book[s][p] \in Seq(Entries(Ids)) /\ Thins(t.book[s][p], r.book[s][p])
  <2>1. PICK f \in Seq(Entries(Ids)) : f = r.book[s][p]
    BY <1>2 DEF BookOK
  <2>2. t.book[s][p] = IF p \in Doomed(r.book, s) THEN <<>> ELSE f
    BY <1>1, <2>1
  <2>3. <<>> \in Seq(Entries(Ids)) /\ Thins(<<>>, f) /\ Thins(f, f)
    BY ThinsSelf
  <2> QED
    BY <2>1, <2>2, <2>3
<1>4. t.book \in [Side -> [Price -> Seq(Entries(Ids))]]
  <2>1. t.book = [s \in Side |-> [p \in Price |-> t.book[s][p]]]
    BY <1>1
  <2> QED
    BY <1>3, <2>1
<1>5. BookOK(t.book, Ids)
  BY <1>2, <1>3, <1>4, ThinnedBook
<1>6. RecOK(t)
  BY <1>1, <1>5, ThinnedRec DEF Ids
<1> QED
  BY <1>1, <1>3, <1>6 DEF t

-----------------------------------------------------------------------------
(* What is retired at a level leaves orders of that level, each in its     *)
(* place and none with more than it had.                                   *)
LEMMA RetireThins ==
  ASSUME NEW Ids, NEW f \in Seq(Entries(Ids)), NEW n \in Nat,
         \A i, j \in 1 .. Len(f) : f[i].id = f[j].id => i = j
  PROVE  Retire(f, n) \in Seq(Entries(Ids)) /\ Thins(Retire(f, n), f)
<1> DEFINE C == {i \in DOMAIN f : IsSynthetic(f[i].id)}
           D == {i \in DOMAIN f : ~IsSynthetic(f[i].id)}
           h == Ours(f) \o Told(f)
           left == TakeFront(h, n)
           at(x) == {j \in DOMAIN left : left[j].id = x.id}
           K == {i \in DOMAIN f : at(f[i]) # {}}
           kept == EntriesAt(f, K)
           g == Retire(f, n)
<1>1. /\ DOMAIN f = 1 .. Len(f)
      /\ \A i \in 1 .. Len(f) : f[i].qty \in Nat \ {0} /\ f[i].id \in Ids
  BY FifoShares
<1>2. PICK a, c : a = Ours(f) /\ c = Told(f)
  OBVIOUS
<1>3. /\ a \in Seq(Entries(Ids)) /\ c \in Seq(Entries(Ids))
      /\ \E w : Positions(w, a, f, C, Len(f))
      /\ \E w : Positions(w, c, f, D, Len(f))
  <2>1. a = EntriesAt(f, C) /\ c = EntriesAt(f, D)
    BY <1>2 DEF Ours, Told
  <2> HIDE DEF C, D
  <2> QED
    BY <2>1, EntriesAtPositions
<1>4. /\ \A i \in 1 .. Len(a) : \E k \in 1 .. Len(f) : a[i] = f[k]
      /\ \A i \in 1 .. Len(c) : \E k \in 1 .. Len(f) : c[i] = f[k]
  <2>1. PICK v, w : Positions(v, a, f, C, Len(f)) /\ Positions(w, c, f, D, Len(f))
    BY <1>3
  <2> HIDE DEF C, D
  <2>2. /\ \A i \in 1 .. Len(a) : v[i] \in 1 .. Len(f) /\ a[i] = f[v[i]]
        /\ \A i \in 1 .. Len(c) : w[i] \in 1 .. Len(f) /\ c[i] = f[w[i]]
    BY <2>1 DEF Positions
  <2> QED
    BY <2>2
<1>5. h \in Seq(Entries(Ids)) /\ \A i \in 1 .. Len(h) : \E k \in 1 .. Len(f) : h[i] = f[k]
  <2>1. h = a \o c
    BY <1>2
  <2>2. /\ a \o c \in Seq(Entries(Ids)) /\ Len(a \o c) = Len(a) + Len(c)
        /\ Len(a) \in Nat /\ Len(c) \in Nat
        /\ \A i \in 1 .. Len(a \o c) : (a \o c)[i] = IF i <= Len(a) THEN a[i] ELSE c[i - Len(a)]
    BY <1>3
  <2> HIDE DEF h
  <2>3. ASSUME NEW i \in 1 .. Len(h) PROVE \E k \in 1 .. Len(f) : h[i] = f[k]
    <3>1. i \in 1 .. Len(a) \/ i - Len(a) \in 1 .. Len(c)
      BY <2>1, <2>2
    <3>2. h[i] = IF i <= Len(a) THEN a[i] ELSE c[i - Len(a)]
      BY <2>1, <2>2
    <3>3. CASE i <= Len(a)
      <4>1. i \in 1 .. Len(a) /\ h[i] = a[i]
        BY <2>2, <3>2, <3>3
      <4> QED
        BY <1>4, <4>1
    <3>4. CASE ~(i <= Len(a))
      <4>1. i - Len(a) \in 1 .. Len(c) /\ h[i] = c[i - Len(a)]
        BY <2>2, <3>1, <3>2, <3>4
      <4> QED
        BY <1>4, <4>1
    <3> QED
      BY <3>3, <3>4
  <2> QED
    BY <2>1, <2>2, <2>3
<1> HIDE DEF h
<1>6. left \in Seq(Entries(Ids)) /\ Thins(left, h)
  BY <1>5, TakeFrontThins
<1> HIDE DEF left
<1>7. DOMAIN left = 1 .. Len(left) /\ \A j \in 1 .. Len(left) : left[j] \in Entries(Ids)
  BY <1>6
<1>8. ASSUME NEW j \in 1 .. Len(left)
      PROVE  \E k \in 1 .. Len(f) : left[j].id = f[k].id /\ left[j].qty <= f[k].qty
  <2>1. PICK i \in 1 .. Len(h) : left[j].id = h[i].id /\ left[j].qty <= h[i].qty
    BY <1>6 DEF Thins
  <2>2. PICK k \in 1 .. Len(f) : h[i] = f[k]
    BY <1>5
  <2> QED
    BY <2>1, <2>2
<1>9. PICK w : kept \in Seq(Entries(Ids)) /\ Positions(w, kept, f, K, Len(f))
  <2> HIDE DEF K
  <2> QED
    BY EntriesAtPositions
<1>10. g = [i \in DOMAIN kept |-> left[CHOOSE j \in at(kept[i]) : TRUE]]
  BY DEF Retire, left, h
<1> HIDE DEF kept, g
<1>11. ASSUME NEW i \in 1 .. Len(kept)
       PROVE  /\ g[i] \in Entries(Ids) /\ w[i] \in 1 .. Len(f)
              /\ g[i].id = f[w[i]].id /\ g[i].qty <= f[w[i]].qty
  <2>1. kept[i] = f[w[i]] /\ w[i] \in K /\ w[i] \in 1 .. Len(f)
    <3> HIDE DEF K
    <3> QED
      BY <1>9 DEF Positions
  <2>2. at(kept[i]) # {}
    BY <2>1
  <2>3. PICK j : j = CHOOSE y \in at(kept[i]) : TRUE
    OBVIOUS
  <2>4. j \in at(kept[i])
    <3> HIDE DEF at
    <3> QED
      BY <2>2, <2>3
  <2>5. DOMAIN kept = 1 .. Len(kept)
    BY <1>9
  <2>6. g[i] = left[j]
    BY <1>10, <2>3, <2>5
  <2>7. j \in 1 .. Len(left) /\ left[j].id = f[w[i]].id
    BY <1>7, <2>1, <2>4
  <2>8. PICK k \in 1 .. Len(f) : left[j].id = f[k].id /\ left[j].qty <= f[k].qty
    BY <1>8, <2>7
  <2>9. k = w[i]
    BY <2>1, <2>7, <2>8
  <2> QED
    BY <1>7, <2>1, <2>6, <2>7, <2>8, <2>9
<1>12. g \in Seq(Entries(Ids)) /\ Len(g) = Len(kept)
  <2>1. DOMAIN kept = 1 .. Len(kept) /\ Len(kept) \in Nat
    BY <1>9
  <2>2. DOMAIN g = 1 .. Len(kept) /\ g = [i \in 1 .. Len(kept) |-> g[i]]
    BY <1>10, <2>1
  <2> QED
    BY <1>11, <2>1, <2>2
<1>13. \A i, j \in 1 .. Len(g) : i < j => w[i] < w[j]
  BY <1>9, <1>12 DEF Positions
<1>14. w \in [1 .. Len(g) -> 1 .. Len(f)]
  BY <1>9, <1>11, <1>12 DEF Positions
<1>15. Thins(g, f)
  BY <1>11, <1>12, <1>13, <1>14 DEF Thins
<1> QED
  BY <1>12, <1>15 DEF g

-----------------------------------------------------------------------------
(***************************************************************************)
(* The loops over the levels of a row: each is a chain of reconstructions  *)
(* from the one before it to the one it leaves.                            *)
(***************************************************************************)
\* f is what the recursion of SeedSide defines for its first n levels.
Seeding(f, r, s, n) ==
  f = [m \in 0 .. n |-> IF m = 0 THEN r ELSE AddStandIn(f[m - 1], s, SeedLevels(s)[m].price, SeedLevels(s)[m].volume)]

LEMMA SeedingExists ==
  ASSUME NEW r, NEW s
  PROVE  \A n \in Nat : \E f : Seeding(f, r, s, n)
<1> DEFINE G == {n \in Nat : \E f : Seeding(f, r, s, n)}
<1>1. 0 \in G
  <2>1. Seeding([m \in {0} |-> r], r, s, 0)
    BY DEF Seeding
  <2> QED
    BY <2>1
<1>2. ASSUME NEW n \in Nat, n \in G PROVE n + 1 \in G
  <2>1. PICK f : Seeding(f, r, s, n)
    BY <1>2
  <2> DEFINE h == [m \in 0 .. n + 1 |-> IF m = 0 THEN r ELSE AddStandIn(f[m - 1], s, SeedLevels(s)[m].price, SeedLevels(s)[m].volume)]
  <2>2. /\ \A m \in 0 .. n : m \in 0 .. n + 1
        /\ \A m \in 0 .. n + 1 : m # 0 => m - 1 \in 0 .. n
    OBVIOUS
  <2>3. \A m \in 0 .. n : f[m] = IF m = 0 THEN r ELSE AddStandIn(f[m - 1], s, SeedLevels(s)[m].price, SeedLevels(s)[m].volume)
    BY <2>1, Zenon DEF Seeding
  <2>4. \A m \in 0 .. n : h[m] = f[m]
    BY <2>2, <2>3, Zenon
  <2>5. \A m \in 0 .. n + 1 : IF m = 0 THEN TRUE ELSE h[m - 1] = f[m - 1]
    BY <2>2, <2>4, Zenon
  <2>6. Seeding(h, r, s, n + 1)
    BY <2>5, Zenon DEF Seeding
  <2> QED
    BY <2>6
<1> HIDE DEF G
<1>3. \A n \in Nat : n \in G
  BY <1>1, <1>2, NumberInduction
<1> QED
  BY <1>3 DEF G

SeedingRun(f, r, s) ==
  /\ f[0] = r
  /\ \A m \in 1 .. Len(SeedLevels(s)) : f[m] = AddStandIn(f[m - 1], s, SeedLevels(s)[m].price, SeedLevels(s)[m].volume)
  /\ SeedSide(r, s) = f[Len(SeedLevels(s))]

LEMMA SeedSideSteps ==
  ASSUME NEW r, NEW s, Len(SeedLevels(s)) \in Nat
  PROVE  \E f : SeedingRun(f, r, s)
<1>1. \E f : Seeding(f, r, s, Len(SeedLevels(s)))
  BY SeedingExists
<1>2. SeedSide(r, s) = (CHOOSE f : Seeding(f, r, s, Len(SeedLevels(s))))[Len(SeedLevels(s))]
  BY Zenon DEF SeedSide, Seeding
<1>3. PICK f : Seeding(f, r, s, Len(SeedLevels(s))) /\ SeedSide(r, s) = f[Len(SeedLevels(s))]
  BY <1>1, <1>2, Zenon
<1>4. \A m \in 0 .. Len(SeedLevels(s)) : f[m] = IF m = 0 THEN r ELSE AddStandIn(f[m - 1], s, SeedLevels(s)[m].price, SeedLevels(s)[m].volume)
  BY <1>3, Zenon DEF Seeding
<1>5. 0 \in 0 .. Len(SeedLevels(s))
      /\ \A m \in 1 .. Len(SeedLevels(s)) : m \in 0 .. Len(SeedLevels(s)) /\ m # 0
  OBVIOUS
<1>6. f[0] = r
  BY <1>4, <1>5, Zenon
<1>7. \A m \in 1 .. Len(SeedLevels(s)) : f[m] = AddStandIn(f[m - 1], s, SeedLevels(s)[m].price, SeedLevels(s)[m].volume)
  BY <1>4, <1>5, Zenon
<1> QED
  BY <1>3, <1>6, <1>7, Zenon DEF SeedingRun

\* f is what the recursion of RecoverSide defines for its first n levels.
Recovering(f, r, s, n) ==
  f = [m \in 0 .. n |-> IF m = 0 THEN r ELSE Adopt(f[m - 1], s, pub[s][m])]

LEMMA RecoveringExists ==
  ASSUME NEW r, NEW s
  PROVE  \A n \in Nat : \E f : Recovering(f, r, s, n)
<1> DEFINE G == {n \in Nat : \E f : Recovering(f, r, s, n)}
<1>1. 0 \in G
  <2>1. Recovering([m \in {0} |-> r], r, s, 0)
    BY DEF Recovering
  <2> QED
    BY <2>1
<1>2. ASSUME NEW n \in Nat, n \in G PROVE n + 1 \in G
  <2>1. PICK f : Recovering(f, r, s, n)
    BY <1>2
  <2> DEFINE h == [m \in 0 .. n + 1 |-> IF m = 0 THEN r ELSE Adopt(f[m - 1], s, pub[s][m])]
  <2>2. /\ \A m \in 0 .. n : m \in 0 .. n + 1
        /\ \A m \in 0 .. n + 1 : m # 0 => m - 1 \in 0 .. n
    OBVIOUS
  <2>3. \A m \in 0 .. n : f[m] = IF m = 0 THEN r ELSE Adopt(f[m - 1], s, pub[s][m])
    BY <2>1, Zenon DEF Recovering
  <2>4. \A m \in 0 .. n : h[m] = f[m]
    BY <2>2, <2>3, Zenon
  <2>5. \A m \in 0 .. n + 1 : IF m = 0 THEN TRUE ELSE h[m - 1] = f[m - 1]
    BY <2>2, <2>4, Zenon
  <2>6. Recovering(h, r, s, n + 1)
    BY <2>5, Zenon DEF Recovering
  <2> QED
    BY <2>6
<1> HIDE DEF G
<1>3. \A n \in Nat : n \in G
  BY <1>1, <1>2, NumberInduction
<1> QED
  BY <1>3 DEF G

RecoveringRun(f, r, s) ==
  /\ f[0] = r
  /\ \A m \in 1 .. Len(pub[s]) : f[m] = Adopt(f[m - 1], s, pub[s][m])
  /\ RecoverSide(r, s) = f[Len(pub[s])]

LEMMA RecoverSideSteps ==
  ASSUME NEW r, NEW s, Len(pub[s]) \in Nat
  PROVE  \E f : RecoveringRun(f, r, s)
<1>1. \E f : Recovering(f, r, s, Len(pub[s]))
  BY RecoveringExists
<1>2. RecoverSide(r, s) = (CHOOSE f : Recovering(f, r, s, Len(pub[s])))[Len(pub[s])]
  BY Zenon DEF RecoverSide, Recovering
<1>3. PICK f : Recovering(f, r, s, Len(pub[s])) /\ RecoverSide(r, s) = f[Len(pub[s])]
  BY <1>1, <1>2, Zenon
<1>4. \A m \in 0 .. Len(pub[s]) : f[m] = IF m = 0 THEN r ELSE Adopt(f[m - 1], s, pub[s][m])
  BY <1>3, Zenon DEF Recovering
<1>5. 0 \in 0 .. Len(pub[s])
      /\ \A m \in 1 .. Len(pub[s]) : m \in 0 .. Len(pub[s]) /\ m # 0
  OBVIOUS
<1>6. f[0] = r
  BY <1>4, <1>5, Zenon
<1>7. \A m \in 1 .. Len(pub[s]) : f[m] = Adopt(f[m - 1], s, pub[s][m])
  BY <1>4, <1>5, Zenon
<1> QED
  BY <1>3, <1>6, <1>7, Zenon DEF RecoveringRun

\* f is what the recursion of ResyncSide defines for its first n levels.
Resyncing(f, r, s, n) ==
  f = [m \in 0 .. n |-> IF m = 0 THEN r ELSE ResyncLevel(f[m - 1], s, Window(s)[m])]

LEMMA ResyncingExists ==
  ASSUME NEW r, NEW s
  PROVE  \A n \in Nat : \E f : Resyncing(f, r, s, n)
<1> DEFINE G == {n \in Nat : \E f : Resyncing(f, r, s, n)}
<1>1. 0 \in G
  <2>1. Resyncing([m \in {0} |-> r], r, s, 0)
    BY DEF Resyncing
  <2> QED
    BY <2>1
<1>2. ASSUME NEW n \in Nat, n \in G PROVE n + 1 \in G
  <2>1. PICK f : Resyncing(f, r, s, n)
    BY <1>2
  <2> DEFINE h == [m \in 0 .. n + 1 |-> IF m = 0 THEN r ELSE ResyncLevel(f[m - 1], s, Window(s)[m])]
  <2>2. /\ \A m \in 0 .. n : m \in 0 .. n + 1
        /\ \A m \in 0 .. n + 1 : m # 0 => m - 1 \in 0 .. n
    OBVIOUS
  <2>3. \A m \in 0 .. n : f[m] = IF m = 0 THEN r ELSE ResyncLevel(f[m - 1], s, Window(s)[m])
    BY <2>1, Zenon DEF Resyncing
  <2>4. \A m \in 0 .. n : h[m] = f[m]
    BY <2>2, <2>3, Zenon
  <2>5. \A m \in 0 .. n + 1 : IF m = 0 THEN TRUE ELSE h[m - 1] = f[m - 1]
    BY <2>2, <2>4, Zenon
  <2>6. Resyncing(h, r, s, n + 1)
    BY <2>5, Zenon DEF Resyncing
  <2> QED
    BY <2>6
<1> HIDE DEF G
<1>3. \A n \in Nat : n \in G
  BY <1>1, <1>2, NumberInduction
<1> QED
  BY <1>3 DEF G

ResyncingRun(f, r, s) ==
  /\ f[0] = r
  /\ \A m \in 1 .. Len(Window(s)) : f[m] = ResyncLevel(f[m - 1], s, Window(s)[m])
  /\ ResyncSide(r, s) = f[Len(Window(s))]

LEMMA ResyncSideSteps ==
  ASSUME NEW r, NEW s, Len(Window(s)) \in Nat
  PROVE  \E f : ResyncingRun(f, r, s)
<1>1. \E f : Resyncing(f, r, s, Len(Window(s)))
  BY ResyncingExists
<1>2. ResyncSide(r, s) = (CHOOSE f : Resyncing(f, r, s, Len(Window(s))))[Len(Window(s))]
  BY Zenon DEF ResyncSide, Resyncing
<1>3. PICK f : Resyncing(f, r, s, Len(Window(s))) /\ ResyncSide(r, s) = f[Len(Window(s))]
  BY <1>1, <1>2, Zenon
<1>4. \A m \in 0 .. Len(Window(s)) : f[m] = IF m = 0 THEN r ELSE ResyncLevel(f[m - 1], s, Window(s)[m])
  BY <1>3, Zenon DEF Resyncing
<1>5. 0 \in 0 .. Len(Window(s))
      /\ \A m \in 1 .. Len(Window(s)) : m \in 0 .. Len(Window(s)) /\ m # 0
  OBVIOUS
<1>6. f[0] = r
  BY <1>4, <1>5, Zenon
<1>7. \A m \in 1 .. Len(Window(s)) : f[m] = ResyncLevel(f[m - 1], s, Window(s)[m])
  BY <1>4, <1>5, Zenon
<1> QED
  BY <1>3, <1>6, <1>7, Zenon DEF ResyncingRun

(* The guard of an adoption is that nothing would trade with it.           *)
LEMMA WouldCrossFacts ==
  ASSUME NEW b, NEW s \in Side, NEW p \in Price
  PROVE  WouldCross(b, s, p) <=> ~Clear(b, s, p)
<1>1. p \in Int /\ p < NO_ASK /\ p > 0 /\ NO_ASK \in Int
  BY BookAssumption DEF Price
<1>2. /\ BestAsk(b) \in Int /\ BestBid(b) \in Int
      /\ Tracked(b, "buy") \subseteq Int /\ Tracked(b, "sell") \subseteq Int
  BY TouchFacts, BookAssumption DEF Tracked, Price
<1>3. CASE s = "buy"
  <2>1. Clear(b, s, p) <=> \A q \in Tracked(b, "sell") : ~(q <= p)
    BY <1>3 DEF Clear, Opposite, Crosses
  <2>2. WouldCross(b, s, p) <=> p >= BestAsk(b)
    BY <1>3 DEF WouldCross
  <2>3. /\ \A q \in Tracked(b, "sell") : BestAsk(b) <= q
        /\ BestAsk(b) \in Tracked(b, "sell") \/ (Tracked(b, "sell") = {} /\ BestAsk(b) = NO_ASK)
    BY TouchFacts
  <2> QED
    BY <1>1, <1>2, <2>1, <2>2, <2>3
<1>4. CASE s = "sell"
  <2>1. Clear(b, s, p) <=> \A q \in Tracked(b, "buy") : ~(q >= p)
    BY <1>4 DEF Clear, Opposite, Crosses
  <2>2. WouldCross(b, s, p) <=> p <= BestBid(b)
    BY <1>4 DEF WouldCross
  <2>3. /\ \A q \in Tracked(b, "buy") : q <= BestBid(b)
        /\ BestBid(b) \in Tracked(b, "buy") \/ (Tracked(b, "buy") = {} /\ BestBid(b) = 0)
    BY TouchFacts
  <2> QED
    BY <1>1, <1>2, <2>1, <2>2, <2>3
<1> QED
  BY <1>3, <1>4 DEF Side

(* Nothing trades with an order that joins a level.                        *)
LEMMA JoiningIsClear ==
  ASSUME NEW b, NotCrossed(b), NEW s \in Side, NEW p \in Tracked(b, s)
  PROVE  Clear(b, s, p)
<1>1. p \in Int /\ \A t \in Side : Tracked(b, t) \subseteq Int
  BY BookAssumption DEF Tracked, Price
<1> QED
  BY <1>1 DEF Clear, Opposite, Crosses, NotCrossed, Side

-----------------------------------------------------------------------------
\* A level as a row lists it.
Listed == [price : Price, volume : Nat \ {0}]

Lists(levels) == levels \in Seq(Listed)

LEMMA ListsFacts ==
  ASSUME NEW levels, Lists(levels)
  PROVE  /\ Len(levels) \in Nat /\ DOMAIN levels = 1 .. Len(levels)
         /\ \A m \in 1 .. Len(levels) : levels[m] \in Listed
BY DEF Lists

LEMMA AdoptRec ==
  ASSUME NEW r, RecOK(r), NEW s \in Side, NEW l \in Listed
  PROVE  /\ RecOK(Adopt(r, s, l))
         /\ r.unexpected_trades = 0 => Adopt(r, s, l).unexpected_trades = 0
         /\ Adopt(r, s, l) = r \/ Adopt(r, s, l).synthetic_id = r.synthetic_id + 1
         /\ Adopt(r, s, l).book = r.book \/
              /\ r.book[s][l.price] = <<>> /\ Clear(r.book, s, l.price)
              /\ Adopt(r, s, l).book =
                   Stacked(r.book, s, l.price, r.synthetic_id, l.volume)
         /\ r.book[s][l.price] # <<>> \/ ~Clear(r.book, s, l.price) => Adopt(r, s, l) = r
         /\ r.book[s][l.price] = <<>> /\ Clear(r.book, s, l.price) =>
              Adopt(r, s, l).book = Stacked(r.book, s, l.price, r.synthetic_id, l.volume)
<1>1. l.price \in Price /\ l.volume \in Nat /\ l.volume > 0
  BY DEF Listed
<1>2. WouldCross(r.book, s, l.price) <=> ~Clear(r.book, s, l.price)
  BY <1>1, WouldCrossFacts
<1>3. CASE r.book[s][l.price] # <<>> \/ WouldCross(r.book, s, l.price)
  <2>1. Adopt(r, s, l) = r
    BY <1>3 DEF Adopt
  <2> QED
    BY <1>2, <1>3, <2>1
<1>4. CASE ~(r.book[s][l.price] # <<>> \/ WouldCross(r.book, s, l.price))
  <2>1. Adopt(r, s, l) = AddStandIn(r, s, l.price, l.volume)
    BY <1>4 DEF Adopt
  <2>2. Clear(r.book, s, l.price) /\ r.book[s][l.price] = <<>>
    BY <1>2, <1>4
  <2>3. PICK p \in Price, n \in Nat : p = l.price /\ n = l.volume /\ n > 0
    BY <1>1
  <2>4. /\ RecOK(AddStandIn(r, s, p, n))
        /\ AddStandIn(r, s, p, n).synthetic_id = r.synthetic_id + 1
        /\ r.unexpected_trades = 0 => AddStandIn(r, s, p, n).unexpected_trades = 0
        /\ AddStandIn(r, s, p, n).book = Stacked(r.book, s, p, r.synthetic_id, n)
    BY <2>2, <2>3, AddStandInRec
  <2> QED
    BY <2>1, <2>2, <2>3, <2>4
<1> QED
  BY <1>3, <1>4

(* Adoption only adds levels.                                              *)
\* Every level but one is as it was.
Elsewhere(b, c, s, p) == \A t \in Side, q \in Price : t # s \/ q # p => c[t][q] = b[t][q]

LEMMA StackedLevels ==
  ASSUME NEW Ids, NEW b, BookOK(b, Ids), NEW s \in Side, NEW p \in Price, NEW id, NEW n
  PROVE  /\ Elsewhere(b, Stacked(b, s, p, id, n), s, p)
         /\ Stacked(b, s, p, id, n)[s][p] # <<>>
<1> DEFINE e == [id |-> id, qty |-> n]
<1>1. /\ Stacked(b, s, p, id, n)[s][p] = Append(b[s][p], e)
      /\ Elsewhere(b, Stacked(b, s, p, id, n), s, p)
  BY StackedElsewhere DEF Elsewhere
<1>2. PICK f \in Seq(Entries(Ids)) : f = b[s][p]
  BY DEF BookOK
<1>3. Append(f, e) # <<>>
  <2> HIDE DEF e
  <2>1. Len(Append(f, e)) = Len(f) + 1 /\ Len(f) \in Nat
    OBVIOUS
  <2> QED
    BY <2>1
<1> QED
  BY <1>1, <1>2, <1>3

(* Orders that rest where a book had orders already.                       *)
Keeps(b, c) == \A s \in Side, p \in Price : b[s][p] # <<>> => c[s][p] = b[s][p]

LEMMA AdoptKeeps ==
  ASSUME NEW r, RecOK(r), NEW s \in Side, NEW l \in Listed
  PROVE  Keeps(r.book, Adopt(r, s, l).book)
<1>0. PICK v \in Price : v = l.price
  BY DEF Listed
<1>1. PICK y, z, Ids, b : /\ v = l.price /\ y = l.volume
                          /\ z = r.synthetic_id /\ BookOK(b, Ids) /\ b = r.book
  BY <1>0 DEF RecOK
<1>2. Adopt(r, s, l).book = b \/ (b[s][v] = <<>> /\ Adopt(r, s, l).book = Stacked(b, s, v, z, y))
  BY <1>1, AdoptRec
<1>3. Elsewhere(b, Stacked(b, s, v, z, y), s, v)
  BY <1>1, StackedLevels
<1> QED
  BY <1>1, <1>2, <1>3 DEF Keeps, Elsewhere

LEMMA RecoverSideRec ==
  ASSUME NEW r, RecOK(r), NEW s \in Side, Lists(pub[s])
  PROVE  /\ RecOK(RecoverSide(r, s))
         /\ r.unexpected_trades = 0 => RecoverSide(r, s).unexpected_trades = 0
         /\ Keeps(r.book, RecoverSide(r, s).book)
<1> DEFINE L == Len(pub[s])
<1>1. L \in Nat /\ \A m \in 1 .. L : pub[s][m] \in Listed
  BY ListsFacts
<1>2. PICK f : RecoveringRun(f, r, s)
  BY <1>1, RecoverSideSteps
<1>3. /\ f[0] = r
      /\ \A m \in 1 .. L : f[m] = Adopt(f[m - 1], s, pub[s][m])
      /\ RecoverSide(r, s) = f[L]
  BY <1>2 DEF RecoveringRun
<1> DEFINE Good(x) == /\ RecOK(x)
                      /\ r.unexpected_trades = 0 => x.unexpected_trades = 0
                      /\ Keeps(r.book, x.book)
           G == {m \in Nat : m <= L => Good(f[m])}
<1>4. 0 \in G
  BY <1>3 DEF Keeps
<1>5. ASSUME NEW m \in Nat, m \in G PROVE m + 1 \in G
  <2> SUFFICES ASSUME m + 1 <= L PROVE Good(f[m + 1])
    OBVIOUS
  <2>1. Good(f[m]) /\ m + 1 \in 1 .. L /\ m + 1 - 1 = m
    BY <1>1, <1>5
  <2>2. PICK x, l : x = f[m] /\ l = pub[s][m + 1]
    OBVIOUS
  <2>3. f[m + 1] = Adopt(x, s, l) /\ l \in Listed
    BY <1>1, <1>3, <2>1, <2>2
  <2>4. RecOK(x) /\ (r.unexpected_trades = 0 => x.unexpected_trades = 0) /\ Keeps(r.book, x.book)
    BY <2>1, <2>2
  <2> HIDE DEF Good
  <2>5. /\ RecOK(Adopt(x, s, l)) /\ Keeps(x.book, Adopt(x, s, l).book)
        /\ x.unexpected_trades = 0 => Adopt(x, s, l).unexpected_trades = 0
    BY <2>3, <2>4, AdoptRec, AdoptKeeps
  <2>6. Keeps(r.book, Adopt(x, s, l).book)
    BY <2>4, <2>5 DEF Keeps
  <2> QED
    BY <2>3, <2>4, <2>5, <2>6 DEF Good
<1> HIDE DEF G
<1>6. \A m \in Nat : m \in G
  BY <1>4, <1>5, NumberInduction
<1>7. Good(f[L])
  BY <1>1, <1>6 DEF G
<1> QED
  BY <1>3, <1>7

-----------------------------------------------------------------------------
(* Seeding: the levels it adds are of the row, and those of the two sides  *)
(* do not cross.                                                           *)
Within(b, P) == \A t \in Side : Tracked(b, t) \subseteq P[t]
Uncrossed(P) == \A p \in P["buy"], q \in P["sell"] : p < q

LEMMA WithinIsClear ==
  ASSUME NEW P, Uncrossed(P), NEW b, Within(b, P), NEW s \in Side, NEW p \in Price, p \in P[s]
  PROVE  Clear(b, s, p)
<1>1. p \in Int /\ \A t \in Side : Tracked(b, t) \subseteq Int
  BY BookAssumption DEF Tracked, Price
<1> QED
  BY <1>1 DEF Clear, Opposite, Crosses, Within, Uncrossed, Side

LEMMA SeedLevelsFacts ==
  ASSUME NEW s \in Side, Lists(pub[s]), msg.size \in Int
  PROVE  /\ Lists(SeedLevels(s))
         /\ \A m \in 1 .. Len(SeedLevels(s)) : SeedLevels(s)[m].price \in Published(s)
<1> DEFINE own(l) == IF msg.event = "NEW_LIMIT" /\ msg.side = s /\ msg.price = l.price
                     THEN msg.size ELSE 0
           left == [i \in DOMAIN pub[s] |-> [pub[s][i] EXCEPT !.volume = @ - own(pub[s][i])]]
           D == {i \in DOMAIN left : left[i].volume > 0}
           E == [price : Price, volume : Int]
           N == Len(pub[s])
           g == SeedLevels(s)
<1>1. N \in Nat /\ DOMAIN pub[s] = 1 .. N /\ \A i \in 1 .. N : pub[s][i] \in Listed
  BY ListsFacts
<1>2. \A l : own(l) \in Int
  OBVIOUS
<1>3. ASSUME NEW i \in 1 .. N
      PROVE  left[i] \in E /\ left[i].price = pub[s][i].price
  <2>1. PICK l \in Listed, n \in Int : l = pub[s][i] /\ n = own(l)
    BY <1>1, <1>2
  <2> HIDE DEF own
  <2>2. left[i] = [l EXCEPT !.volume = @ - n]
    BY <1>1, <2>1
  <2> HIDE DEF left
  <2>3. l.price \in Price /\ l.volume \in Int /\ l = [price |-> l.price, volume |-> l.volume]
    BY DEF Listed
  <2>4. left[i] = [price |-> l.price, volume |-> l.volume - n] /\ l.volume - n \in Int
    BY <2>2, <2>3
  <2> QED
    BY <2>1, <2>3, <2>4
<1>4. left \in Seq(E) /\ Len(left) = N /\ DOMAIN left = 1 .. N
  <2>1. left = [i \in 1 .. N |-> left[i]] /\ DOMAIN left = 1 .. N
    BY <1>1
  <2> HIDE DEF left, E
  <2> QED
    BY <1>1, <1>3, <2>1
<1>5. g = EntriesAt(left, D)
  BY DEF SeedLevels
<1> HIDE DEF left, g, E
<1>6. PICK w : g \in Seq(E) /\ Positions(w, g, left, D, N)
  <2> HIDE DEF D
  <2> QED
    BY <1>4, <1>5, EntriesAtPositions
<1>7. ASSUME NEW m \in 1 .. Len(g)
      PROVE  g[m] \in Listed /\ g[m].price \in Published(s)
  <2>1. w[m] \in 1 .. N /\ w[m] \in D /\ g[m] = left[w[m]]
    <3> HIDE DEF D
    <3> QED
      BY <1>6 DEF Positions
  <2>2. g[m] \in E /\ g[m].price = pub[s][w[m]].price /\ g[m].volume > 0
    BY <1>3, <2>1
  <2>3. g[m] \in Listed
    BY <2>2 DEF E, Listed
  <2> QED
    BY <1>1, <2>1, <2>2, <2>3 DEF Published
<1>8. g \in Seq(Listed)
  <2>1. Len(g) \in Nat /\ DOMAIN g = 1 .. Len(g) /\ g = [m \in 1 .. Len(g) |-> g[m]]
    BY <1>6
  <2> QED
    BY <1>7, <2>1
<1> QED
  BY <1>7, <1>8 DEF Lists, g

LEMMA StandInWithin ==
  ASSUME NEW P, Uncrossed(P), NEW r, RecOK(r), Within(r.book, P), r.unexpected_trades = 0,
         NEW s \in Side, NEW l \in Listed, l.price \in P[s]
  PROVE  LET t == AddStandIn(r, s, l.price, l.volume) IN
         RecOK(t) /\ Within(t.book, P) /\ t.unexpected_trades = 0
<1>1. PICK v \in Price, n \in Nat : v = l.price /\ n = l.volume /\ n > 0
  BY DEF Listed
<1>2. Clear(r.book, s, v)
  BY <1>1, WithinIsClear
<1>3. PICK z, Ids, b : z = r.synthetic_id /\ b = r.book /\ BookOK(b, Ids)
  BY DEF RecOK
<1>4. /\ RecOK(AddStandIn(r, s, v, n))
      /\ AddStandIn(r, s, v, n).unexpected_trades = 0
      /\ AddStandIn(r, s, v, n).book = Stacked(b, s, v, z, n)
  BY <1>1, <1>2, <1>3, AddStandInRec
<1>5. Elsewhere(b, Stacked(b, s, v, z, n), s, v)
  BY <1>3, StackedLevels
<1>6. Within(Stacked(b, s, v, z, n), P)
  BY <1>1, <1>3, <1>5 DEF Within, Elsewhere, Tracked
<1> QED
  BY <1>1, <1>4, <1>6

LEMMA SeedSideRec ==
  ASSUME NEW P, Uncrossed(P), NEW r, RecOK(r), Within(r.book, P), r.unexpected_trades = 0,
         NEW s \in Side, Lists(SeedLevels(s)),
         \A m \in 1 .. Len(SeedLevels(s)) : SeedLevels(s)[m].price \in P[s]
  PROVE  /\ RecOK(SeedSide(r, s)) /\ Within(SeedSide(r, s).book, P)
         /\ SeedSide(r, s).unexpected_trades = 0
<1> DEFINE L == Len(SeedLevels(s))
<1>1. L \in Nat /\ \A m \in 1 .. L : SeedLevels(s)[m] \in Listed
  BY ListsFacts
<1>2. PICK f : SeedingRun(f, r, s)
  BY <1>1, SeedSideSteps
<1>3. /\ f[0] = r
      /\ \A m \in 1 .. L :
           f[m] = AddStandIn(f[m - 1], s, SeedLevels(s)[m].price, SeedLevels(s)[m].volume)
      /\ SeedSide(r, s) = f[L]
  BY <1>2 DEF SeedingRun
<1> DEFINE Good(x) == RecOK(x) /\ Within(x.book, P) /\ x.unexpected_trades = 0
           G == {m \in Nat : m <= L => Good(f[m])}
<1>4. 0 \in G
  BY <1>3
<1>5. ASSUME NEW m \in Nat, m \in G PROVE m + 1 \in G
  <2> SUFFICES ASSUME m + 1 <= L PROVE Good(f[m + 1])
    OBVIOUS
  <2>1. Good(f[m]) /\ m + 1 \in 1 .. L /\ m + 1 - 1 = m
    BY <1>1, <1>5
  <2>2. PICK x, l : x = f[m] /\ l = SeedLevels(s)[m + 1]
    OBVIOUS
  <2>3. f[m + 1] = AddStandIn(x, s, l.price, l.volume) /\ l \in Listed /\ l.price \in P[s]
    BY <1>1, <1>3, <2>1, <2>2
  <2>4. RecOK(x) /\ Within(x.book, P) /\ x.unexpected_trades = 0
    BY <2>1, <2>2
  <2> HIDE DEF Good
  <2>5. LET t == AddStandIn(x, s, l.price, l.volume) IN
        RecOK(t) /\ Within(t.book, P) /\ t.unexpected_trades = 0
    BY <2>3, <2>4, StandInWithin
  <2> QED
    BY <2>3, <2>5 DEF Good
<1> HIDE DEF G
<1>6. \A m \in Nat : m \in G
  BY <1>4, <1>5, NumberInduction
<1>7. Good(f[L])
  BY <1>1, <1>6 DEF G
<1> QED
  BY <1>3, <1>7

-----------------------------------------------------------------------------
(* One level thinned, the others as they were.                             *)
Fifos(Ids) == Seq(Entries(Ids))

\* The book with g at a level.
Replaced(b, s, p, g) == [b EXCEPT ![s][p] = g]

LEMMA ThinnedLevel ==
  ASSUME NEW Ids, NEW b, BookOK(b, Ids), NEW s \in Side, NEW p \in Price,
         NEW g \in Fifos(Ids), Thins(g, b[s][p]),
         NEW c, c = Replaced(b, s, p, g)
  PROVE  BookOK(c, Ids) /\ Elsewhere(b, c, s, p) /\ c[s][p] = g
<1>1. PICK F : F = Seq(Entries(Ids)) /\ F = Fifos(Ids)
  BY DEF Fifos
<1>2. /\ c \in [Side -> [Price -> Seq(Entries(Ids))]] /\ c[s][p] = g
      /\ \A t \in Side, q \in Price : t # s \/ q # p => c[t][q] = b[t][q]
  <2>1. b \in [Side -> [Price -> F]] /\ g \in F
    BY <1>1 DEF BookOK
  <2>2. PICK h : h = [b[s] EXCEPT ![p] = g]
    OBVIOUS
  <2>3. h \in [Price -> F] /\ h[p] = g /\ \A q \in Price : q # p => h[q] = b[s][q]
    BY <2>1, <2>2, Zenon
  <2>4. c = [b EXCEPT ![s] = h]
    BY <2>2 DEF Replaced
  <2>5. c \in [Side -> [Price -> F]] /\ c[s] = h /\ \A t \in Side : t # s => c[t] = b[t]
    BY <2>1, <2>3, <2>4, Zenon
  <2>6. \A t \in Side, q \in Price : t # s \/ q # p => c[t][q] = b[t][q]
    BY <2>3, <2>5, Zenon
  <2> QED
    BY <1>1, <2>3, <2>5, <2>6, Zenon
<1>3. ASSUME NEW t \in Side, NEW q \in Price PROVE Thins(c[t][q], b[t][q])
  <2>1. PICK f \in Seq(Entries(Ids)) : f = b[t][q]
    BY DEF BookOK
  <2>2. Thins(f, f)
    BY ThinsSelf
  <2> QED
    BY <1>2, <2>1, <2>2
<1>4. BookOK(c, Ids)
  <2>1. c \in [Side -> [Price -> Seq(Entries(Ids))]]
    BY <1>2, Zenon
  <2>2. \A t \in Side, q \in Price : Thins(c[t][q], b[t][q])
    BY <1>3, Zenon
  <2>3. PICK u \in [Side -> [Price -> Seq(Entries(Ids))]] : u = c
    BY <2>1, Zenon
  <2>4. \A t \in Side, q \in Price : Thins(u[t][q], b[t][q])
    BY <2>2, <2>3, Zenon
  <2>5. BookOK(u, Ids)
    BY <2>4, ThinnedBook, Zenon
  <2> QED
    BY <2>3, <2>5, Zenon
<1> QED
  BY <1>2, <1>4 DEF Elsewhere

\* What a resync makes of a level.
ResyncLevelFacts(r, s, l, t) ==
  /\ RecOK(t) /\ Elsewhere(r.book, t.book, s, l.price)
  /\ r.unexpected_trades = 0 => t.unexpected_trades = 0
  /\ r.book[s][l.price] = <<>> => t = r
  /\ r.book[s][l.price] # <<>> /\ Drift(r.book, s, l) >= 0 =>
       \/ t.book[s][l.price] = r.book[s][l.price] /\ Drift(r.book, s, l) = 0
       \/ t.book[s][l.price] = Append(r.book[s][l.price],
                                     [id |-> r.synthetic_id, qty |-> Drift(r.book, s, l)])
  /\ r.book[s][l.price] # <<>> /\ Drift(r.book, s, l) < 0 =>
       t.book[s][l.price] = Retire(r.book[s][l.price], -Drift(r.book, s, l))

LEMMA ResyncLevelRec ==
  ASSUME NEW r, RecOK(r), NEW s \in Side, NEW l \in Listed
  PROVE  ResyncLevelFacts(r, s, l, ResyncLevel(r, s, l))
<1> DEFINE Ids == 0 .. r.synthetic_id - 1
<1>0. PICK v \in Price, y \in Nat : v = l.price /\ y = l.volume
  BY DEF Listed
<1>1. PICK b, z : v = l.price /\ y = l.volume /\ b = r.book /\ z = r.synthetic_id
  BY <1>0
<1>2. PICK d : d = Drift(b, s, l)
  OBVIOUS
<1>3. BookOK(b, Ids)
  BY <1>1 DEF RecOK
<1>4. d \in Int
  <2>1. PICK f \in Seq(Entries(Ids)) : f = b[s][v]
    BY <1>3 DEF BookOK
  <2>2. Volume(f) \in Nat
    BY FifoShares
  <2> QED
    BY <1>1, <1>2, <2>1, <2>2 DEF Drift
<1> HIDE DEF Ids
<1>6. CASE b[s][v] = <<>> \/ d = 0
  <2>1. ResyncLevel(r, s, l) = r
    BY <1>1, <1>2, <1>6 DEF ResyncLevel
  <2>2. Elsewhere(r.book, r.book, s, v)
    BY DEF Elsewhere
  <2> QED
    BY <1>1, <1>2, <1>4, <1>6, <2>1, <2>2 DEF ResyncLevelFacts
<1>7. CASE b[s][v] # <<>> /\ d > 0
  <2> DEFINE t == AddStandIn(r, s, v, d)
  <2>1. ResyncLevel(r, s, l) = t
    BY <1>1, <1>2, <1>4, <1>7 DEF ResyncLevel
  <2>2. d \in Nat /\ v \in Tracked(b, s) /\ NotCrossed(b)
    BY <1>3, <1>4, <1>7 DEF Tracked, BookOK
  <2>3. Clear(b, s, v)
    BY <2>2, JoiningIsClear
  <2>4. /\ RecOK(t) /\ (r.unexpected_trades = 0 => t.unexpected_trades = 0)
        /\ t.book = Stacked(b, s, v, z, d)
    BY <1>1, <1>7, <2>2, <2>3, AddStandInRec
  <2>5. Elsewhere(b, Stacked(b, s, v, z, d), s, v)
    BY <1>3, StackedLevels
  <2>6. Stacked(b, s, v, z, d)[s][v] = Append(b[s][v], [id |-> z, qty |-> d])
    BY <1>3, StackedElsewhere
  <2> HIDE DEF t
  <2> QED
    <3>1. RecOK(t) /\ (r.unexpected_trades = 0 => t.unexpected_trades = 0)
      BY <2>4
    <3>2. Elsewhere(r.book, t.book, s, l.price)
      BY <1>1, <2>4, <2>5
    <3>3. t.book[s][l.price] = Append(r.book[s][l.price], [id |-> r.synthetic_id, qty |-> d])
      BY <1>1, <2>4, <2>6
    <3>4. r.book[s][l.price] # <<>> /\ Drift(r.book, s, l) = d /\ d >= 0 /\ ~(d < 0)
      BY <1>1, <1>2, <1>4, <1>7
    <3> QED
      BY <2>1, <3>1, <3>2, <3>3, <3>4 DEF ResyncLevelFacts
<1>8. CASE b[s][v] # <<>> /\ d < 0
  <2> DEFINE x == [r EXCEPT !.book[s][v] = Retire(@, -d)]
             t == DropDeadSeed(x, <<s, v>>)
  <2>1. ResyncLevel(r, s, l) = t
    BY <1>1, <1>2, <1>4, <1>8 DEF ResyncLevel
  <2>2a. PICK n \in Nat : n = -d
    <3>1. -d \in Nat
      BY <1>4, <1>8
    <3> QED
      BY <3>1
  <2>2. PICK g : g = Retire(b[s][v], n) /\ n = -d
    BY <2>2a
  <2>3. g \in Seq(Entries(Ids)) /\ Thins(g, b[s][v])
    <3>1. PICK f \in Seq(Entries(Ids)) : f = b[s][v]
      BY <1>3 DEF BookOK
    <3>2. \A i, j \in 1 .. Len(f) : f[i].id = f[j].id => i = j
      BY <1>3, <3>1 DEF BookOK, IdsUnique
    <3> QED
      BY <2>2, <3>1, <3>2, RetireThins
  <2>4. /\ DOMAIN x = DOMAIN r /\ x.book = [b EXCEPT ![s][v] = g]
        /\ x.synthetic_id = r.synthetic_id /\ x.seeds = r.seeds
        /\ x.unexpected_trades = r.unexpected_trades
    BY <1>1, <2>2 DEF RecOK
  <2> HIDE DEF x, t
  <2>5. BookOK(x.book, Ids) /\ Elsewhere(b, x.book, s, v) /\ x.book[s][v] = g
    <3>1. PICK c : c = x.book /\ c = Replaced(b, s, v, g)
      BY <2>4 DEF Replaced
    <3>2. g \in Fifos(Ids) /\ Thins(g, b[s][v])
      BY <2>3 DEF Fifos
    <3>3. BookOK(c, Ids) /\ Elsewhere(b, c, s, v) /\ c[s][v] = g
      BY <1>3, <3>1, <3>2, ThinnedLevel
    <3> QED
      BY <3>1, <3>3
  <2>6. RecOK(x)
    BY <2>4, <2>5, ThinnedRec DEF Ids
  <2>7. RecOK(t) /\ t.book = x.book /\ t.unexpected_trades = r.unexpected_trades
    BY <2>4, <2>6, DropDeadSeedRec DEF t
  <2> QED
    <3>1. RecOK(t) /\ (r.unexpected_trades = 0 => t.unexpected_trades = 0)
      BY <2>7
    <3>2. Elsewhere(r.book, t.book, s, l.price)
      BY <1>1, <2>5, <2>7
    <3>3. t.book[s][l.price] = Retire(r.book[s][l.price], -d)
      BY <1>1, <2>2, <2>5, <2>7
    <3>4. r.book[s][l.price] # <<>> /\ Drift(r.book, s, l) = d /\ d < 0 /\ ~(d >= 0)
      BY <1>1, <1>2, <1>4, <1>8
    <3> QED
      BY <2>1, <3>1, <3>2, <3>3, <3>4 DEF ResyncLevelFacts
<1> QED
  BY <1>4, <1>6, <1>7, <1>8

LEMMA WindowFacts ==
  ASSUME NEW s \in Side, Lists(pub[s])
  PROVE  /\ Lists(Window(s))
         /\ Len(Window(s)) = IF Len(pub[s]) < Levels THEN Len(pub[s]) ELSE Levels
         /\ \A m \in 1 .. Len(Window(s)) : Window(s)[m] = pub[s][m] /\ m \in 1 .. Len(pub[s])
<1>1. Levels \in Nat
  BY ReplayAssumption
<1>2. PICK k \in Nat : k = IF Len(pub[s]) < Levels THEN Len(pub[s]) ELSE Levels
  BY <1>1, ListsFacts
<1>3. Window(s) = SubSeq(pub[s], 1, k)
  BY <1>2 DEF Window
<1>4. PICK a \in Seq(Listed) : a = pub[s]
  BY DEF Lists
<1>5. k <= Len(a) /\ Len(a) \in Nat
  BY <1>1, <1>2, <1>4
<1>6. /\ SubSeq(a, 1, k) \in Seq(Listed) /\ Len(SubSeq(a, 1, k)) = k
      /\ \A m \in 1 .. k : SubSeq(a, 1, k)[m] = a[m] /\ m \in 1 .. Len(a)
  BY <1>5
<1> QED
  BY <1>2, <1>3, <1>4, <1>6 DEF Lists

LEMMA ResyncSideRec ==
  ASSUME NEW r, RecOK(r), NEW s \in Side, Lists(pub[s])
  PROVE  /\ RecOK(ResyncSide(r, s))
         /\ r.unexpected_trades = 0 => ResyncSide(r, s).unexpected_trades = 0
<1> DEFINE L == Len(Window(s))
<1>1. L \in Nat /\ \A m \in 1 .. L : Window(s)[m] \in Listed
  BY WindowFacts, ListsFacts
<1>2. PICK f : ResyncingRun(f, r, s)
  BY <1>1, ResyncSideSteps
<1>3. /\ f[0] = r
      /\ \A m \in 1 .. L : f[m] = ResyncLevel(f[m - 1], s, Window(s)[m])
      /\ ResyncSide(r, s) = f[L]
  BY <1>2 DEF ResyncingRun
<1> DEFINE Good(x) == RecOK(x) /\ (r.unexpected_trades = 0 => x.unexpected_trades = 0)
           G == {m \in Nat : m <= L => Good(f[m])}
<1>4. 0 \in G
  BY <1>3
<1>5. ASSUME NEW m \in Nat, m \in G PROVE m + 1 \in G
  <2> SUFFICES ASSUME m + 1 <= L PROVE Good(f[m + 1])
    OBVIOUS
  <2>1. Good(f[m]) /\ m + 1 \in 1 .. L /\ m + 1 - 1 = m
    BY <1>1, <1>5
  <2>2. PICK x, l : x = f[m] /\ l = Window(s)[m + 1]
    OBVIOUS
  <2>3. f[m + 1] = ResyncLevel(x, s, l) /\ l \in Listed
    BY <1>1, <1>3, <2>1, <2>2
  <2>4. RecOK(x)
    BY <2>1, <2>2
  <2>5. ResyncLevelFacts(x, s, l, ResyncLevel(x, s, l))
    BY <2>3, <2>4, ResyncLevelRec
  <2> QED
    BY <2>1, <2>2, <2>3, <2>5 DEF ResyncLevelFacts
<1> HIDE DEF G
<1>6. \A m \in Nat : m \in G
  BY <1>4, <1>5, NumberInduction
<1>7. Good(f[L])
  BY <1>1, <1>6 DEF G
<1> QED
  BY <1>3, <1>7

-----------------------------------------------------------------------------
LEMMA SameTouchAtAnyDepth ==
  ASSUME NEW book, NEW s, NEW n \in Nat \ {0}, NEW m \in Nat \ {0}
  PROVE  Touch(Depth(book, s, n)) = Touch(Depth(book, s, m))
<1>1. CASE Size(book, s) = 0
  <2>1. Depth(book, s, n) = Depth(book, s, m)
    BY <1>1 DEF Depth
  <2> QED BY <2>1
<1>2. CASE Size(book, s) # 0
  <2>1. 1 \in 1 .. DepthLen(book, s, n) /\ 1 \in 1 .. DepthLen(book, s, m)
    BY <1>2, TrackedFinite DEF DepthLen
  <2>2. /\ Depth(book, s, n)[1] = LevelAt(book, s, 1)
        /\ Depth(book, s, m)[1] = LevelAt(book, s, 1)
    BY <2>1, DepthFacts
  <2>3. Depth(book, s, n) # <<>> /\ Depth(book, s, m) # <<>>
    BY <2>1, DepthFacts
  <2> QED BY <2>2, <2>3 DEF Touch
<1> QED BY <1>1, <1>2

\* The row of the orderbook file is the venue's book after the message.
PubIsVenue == pub = [s \in Side |-> Depth(venue, s, FileLevels)] /\ Levels <= FileLevels

(* The comparison, which walks the row and our snapshot entry by entry and *)
(* expects one to end where the other does, succeeds exactly when our top  *)
(* levels are the venue's (LobsterReplay.hpp:87-125).                      *)
LEMMA CompareSideIsExact ==
  ASSUME PubIsVenue, NEW s \in Side
  PROVE  CompareSide(s) <=> Depth(rec.book, s, Levels) = Depth(venue, s, Levels)
<1> DEFINE ours == Depth(rec.book, s, Levels)
           theirs == Depth(venue, s, Levels)
           r == DepthLen(rec.book, s, Levels)
           v == DepthLen(venue, s, Levels)
           w == DepthLen(venue, s, FileLevels)
<1>1. Levels \in Nat /\ FileLevels \in Nat /\ Levels <= FileLevels
  BY ReplayAssumption, VenueAssumption DEF PubIsVenue
<1>2. /\ r \in Nat /\ v \in Nat /\ w \in Nat
      /\ \A i \in 1 .. Levels : i \in 1 .. w <=> i \in 1 .. v
      /\ r <= Levels /\ v <= Levels
  BY <1>1, TrackedFinite DEF DepthLen
<1>3. /\ DOMAIN ours = 1 .. r /\ DOMAIN theirs = 1 .. v /\ DOMAIN pub[s] = 1 .. w
      /\ \A i \in 1 .. v : theirs[i] = LevelAt(venue, s, i)
      /\ \A i \in 1 .. w : pub[s][i] = LevelAt(venue, s, i)
  BY <1>1, DepthFacts DEF PubIsVenue
<1>4. CompareSide(s) <=>
        \A i \in 1 .. Levels : IF i \in 1 .. v THEN i \in 1 .. r /\ ours[i] = theirs[i]
                                               ELSE i \notin 1 .. r
  BY <1>1, <1>2, <1>3 DEF CompareSide
<1>5. ASSUME CompareSide(s) PROVE ours = theirs
  <2>1. \A i \in 1 .. Levels : i \in 1 .. v <=> i \in 1 .. r
    BY <1>4, <1>5
  <2>2. r = v
    BY <1>1, <1>2, <2>1
  <2>3. \A i \in 1 .. v : ours[i] = theirs[i]
    BY <1>1, <1>2, <1>4, <1>5
  <2>4. ours = [i \in 1 .. r |-> ours[i]] /\ theirs = [i \in 1 .. v |-> theirs[i]]
    BY <1>3 DEF Depth
  <2> QED BY <2>2, <2>3, <2>4
<1>6. ASSUME ours = theirs PROVE CompareSide(s)
  <2>1. 1 .. r = 1 .. v
    BY <1>3, <1>6
  <2> QED BY <1>4, <1>6, <2>1
<1> QED BY <1>5, <1>6

LEMMA ComparedIsTopAgrees ==
  ASSUME PubIsVenue
  PROVE  Compared <=> TopAgrees
BY CompareSideIsExact DEF Compared, TopAgrees, Side

(* A price that the row would list, had the venue a level there, and does  *)
(* not list has none: the top levels are numbered without a gap and every  *)
(* other level is worse than the last of them (LobsterReplay.hpp:347-358). *)
LEMMA AuthoritativeIsRight ==
  ASSUME PubIsVenue, NEW s \in Side, NEW p \in Tracked(venue, s), p \notin Published(s)
  PROVE  ~Authoritative(s, p)
<1> DEFINE n == Size(venue, s)
           w == DepthLen(venue, s, FileLevels)
<1>1. /\ n \in Nat /\ FileLevels \in Nat /\ Levels \in Nat \ {0} /\ Levels <= FileLevels
      /\ Tracked(venue, s) \subseteq Int
  BY TrackedFinite, ReplayAssumption, VenueAssumption, BookAssumption DEF PubIsVenue, Price
<1>2. /\ w \in Nat /\ pub[s] = Depth(venue, s, FileLevels) /\ Len(pub[s]) = w
      /\ DOMAIN pub[s] = 1 .. w
      /\ \A i \in 1 .. w : pub[s][i].price = PriceAt(venue, s, i)
  <2>1. pub[s] = Depth(venue, s, FileLevels)
    BY DEF PubIsVenue
  <2>2. /\ w \in Nat /\ Len(pub[s]) = w /\ DOMAIN pub[s] = 1 .. w
        /\ \A i \in 1 .. w : pub[s][i] = LevelAt(venue, s, i)
    BY <1>1, <2>1, DepthFacts, DepthLength
  <2> QED BY <2>1, <2>2 DEF LevelAt
<1>3. \A i \in 1 .. w : PriceAt(venue, s, i) # p
  BY <1>2 DEF Published
<1>4. Rank(venue, s, p) \in Nat /\ Rank(venue, s, p) < n
  BY RankIsOrder
<1>5. PriceAt(venue, s, Rank(venue, s, p) + 1) = p
  <2> DEFINE q == PriceAt(venue, s, Rank(venue, s, p) + 1)
  <2>1. q \in Tracked(venue, s) /\ Rank(venue, s, q) = Rank(venue, s, p)
    BY <1>1, <1>4, PriceAtRank
  <2>2. ~Better(s, p, q) /\ ~Better(s, q, p)
    BY <2>1, RankIsOrder
  <2> QED BY <1>1, <2>1, <2>2 DEF Better
<1>6. ~(Rank(venue, s, p) + 1 <= w)
  BY <1>2, <1>3, <1>4, <1>5
<1>7. w = FileLevels
  BY <1>1, <1>4, <1>6 DEF DepthLen
<1> DEFINE last == PriceAt(venue, s, w)
<1>8. last \in Tracked(venue, s) /\ Rank(venue, s, last) = w - 1
  BY <1>1, <1>4, <1>6, <1>7, PriceAtRank
<1>9. Better(s, last, p)
  <2>1. ~Better(s, p, last) /\ last # p
    BY <1>1, <1>4, <1>6, <1>7, <1>8, RankIsOrder
  <2> QED BY <1>1, <1>8, <2>1 DEF Better
<1>10. w \in 1 .. w /\ pub[s][w].price = last
  BY <1>1, <1>2, <1>7
<1> QED BY <1>1, <1>2, <1>7, <1>9, <1>10 DEF Authoritative

-----------------------------------------------------------------------------
(***************************************************************************)
(* The inductive invariant.  Between reading a message and comparing its   *)
(* row, the row is the venue's book and the message is not yet counted as  *)
(* agreed; before and after, everything read has been judged.              *)
(***************************************************************************)
Working == {"seed", "apply", "prune", "recover", "resync", "emit", "compare"}

CountersOK ==
  /\ {"messages", "first_divergence"} \subseteq DOMAIN st
  /\ st.messages \in Nat /\ st.first_divergence \in Nat /\ agreed \in Nat
  /\ pc \in Working \cup {"read", "passed", "failed"}
  /\ err \in {"none", "divergence", "trades"} \cup BadInput
  /\ err = "none" <=> pc # "failed"

\* n messages have been judged; the first divergence, if any, is among them.
JudgedTo(n) ==
  IF st.first_divergence = 0 THEN agreed = n
  ELSE agreed = st.first_divergence - 1 /\ st.first_divergence <= n

Judgement ==
  /\ pc \in {"read", "passed"} => JudgedTo(st.messages)
  /\ pc \in Working => st.messages > 0 /\ JudgedTo(st.messages - 1) /\ PubIsVenue
  /\ st.first_divergence # 0 => Continues
  /\ err = "divergence" => agreed = st.messages - 1
  /\ pc = "passed" => Continues \/ ~(rec.unexpected_trades > 0)

\* The last row is that of the last message that got as far as emission.
RowIsCurrent ==
  IF "emit" \notin opts THEN row = NoRow
  ELSE /\ pc \in {"compare", "read", "passed"} \/ (pc = "failed" /\ err \notin BadInput) =>
            row.msg_index = st.messages
       /\ pc = "compare" => row.quote = Quote(Shown("buy"), Shown("sell"))

ReplayInv == CountersOK /\ Judgement /\ RowIsCurrent /\ FeaturesFollowVenue

LEMMA ReplayInit == Init => ReplayInv
BY DEF Init, ReplayInv, CountersOK, Judgement, JudgedTo, RowIsCurrent, FeaturesFollowVenue,
       NoRow, Working

(* The steps that work on a message leave alone what has been judged.      *)
LEMMA WorkKeepsJudgement ==
  ASSUME ReplayInv, pc \in Working, pc' \in Working, pc' # "compare", pc # "compare",
         UNCHANGED <<venue, pub, opts, row, err, agreed>>,
         DOMAIN st' = DOMAIN st,
         st'.messages = st.messages, st'.first_divergence = st.first_divergence
  PROVE  ReplayInv'
BY DEF ReplayInv, CountersOK, Judgement, JudgedTo, RowIsCurrent, FeaturesFollowVenue, Working,
       PubIsVenue, Continues

(* The steps between reading and emission are of that kind.                *)
LEMMA WorkingStep ==
  ASSUME ReplayInv,
         \/ SeedBook \/ ApplyNewLimit \/ ApplyToOrder \/ ApplyToSeed \/ ApplyUnknown
         \/ ApplySkipped \/ Prune \/ Recover \/ Resync
  PROVE  ReplayInv'
<1> DEFINE Kept == /\ UNCHANGED <<venue, pub, opts, row, err, agreed>>
                   /\ DOMAIN st' = DOMAIN st
                   /\ st'.messages = st.messages /\ st'.first_divergence = st.first_divergence
           From == pc \in Working /\ pc' \in Working /\ pc' # "compare" /\ pc # "compare"
<1>1. CASE SeedBook
  <2>1. Kept /\ From
    BY <1>1 DEF SeedBook, Go, Working, venueVars
  <2> QED BY <2>1, WorkKeepsJudgement
<1>2. CASE ApplyNewLimit
  <2>1. Kept /\ From
    BY <1>2 DEF ApplyNewLimit, Applied, Go, Working, venueVars
  <2> QED BY <2>1, WorkKeepsJudgement
<1>3. CASE ApplyToOrder
  <2>1. Kept /\ From
    BY <1>3 DEF ApplyToOrder, Applied, Go, Working, venueVars
  <2> QED BY <2>1, WorkKeepsJudgement
<1>4. CASE ApplyToSeed
  <2>1. Kept /\ From
    BY <1>4 DEF ApplyToSeed, Applied, Go, Working, venueVars
  <2> QED BY <2>1, WorkKeepsJudgement
<1>5. CASE ApplyUnknown
  <2>1. Kept /\ From
    BY <1>5 DEF ApplyUnknown, Applied, Go, Working, venueVars
  <2> QED BY <2>1, WorkKeepsJudgement
<1>6. CASE ApplySkipped
  <2>1. Kept /\ From
    BY <1>6 DEF ApplySkipped, Applied, Go, Working, venueVars
  <2> QED BY <2>1, WorkKeepsJudgement
<1>7. CASE Prune
  <2>1. Kept /\ From
    BY <1>7 DEF Prune, Go, Working, venueVars
  <2> QED BY <2>1, WorkKeepsJudgement
<1>8. CASE Recover
  <2>1. Kept /\ From
    BY <1>8 DEF Recover, Go, Working, venueVars
  <2> QED BY <2>1, WorkKeepsJudgement
<1>9. CASE Resync
  <2>1. Kept /\ From
    BY <1>9 DEF Resync, Go, Working, venueVars
  <2> QED BY <2>1, WorkKeepsJudgement
<1> QED BY <1>1, <1>2, <1>3, <1>4, <1>5, <1>6, <1>7, <1>8, <1>9

LEMMA ReadStep ==
  ASSUME ReplayInv, NEW m, ReadMessage(m)
  PROVE  ReplayInv'
<1>1. /\ pc = "read" /\ pc' \in {"seed", "apply"} /\ PubIsVenue'
      /\ UNCHANGED <<opts, row, err, agreed, rec>>
      /\ st' = [st EXCEPT !.messages = @ + 1]
  BY DEF ReadMessage, Announced, Happens, Go, PubIsVenue
<1>2. /\ st'.messages = st.messages + 1 /\ st'.first_divergence = st.first_divergence
      /\ DOMAIN st' = DOMAIN st
  BY <1>1 DEF ReplayInv, CountersOK
<1>3. st'.messages > 0 /\ st'.messages \in Nat /\ st'.messages - 1 = st.messages
  BY <1>2 DEF ReplayInv, CountersOK
<1>4. CountersOK'
  BY <1>1, <1>2, <1>3 DEF ReplayInv, CountersOK, Working
<1>5. Judgement'
  BY <1>1, <1>2, <1>3 DEF ReplayInv, CountersOK, Judgement, JudgedTo, Continues
<1>6. RowIsCurrent' /\ FeaturesFollowVenue'
  BY <1>1 DEF ReplayInv, CountersOK, RowIsCurrent, FeaturesFollowVenue
<1> QED BY <1>4, <1>5, <1>6 DEF ReplayInv

LEMMA VenueAloneStep ==
  ASSUME ReplayInv, NEW m, VenueAlone(m)
  PROVE  ReplayInv'
BY DEF VenueAlone, Unannounced, replayVars, ReplayInv, CountersOK, Judgement, JudgedTo,
       RowIsCurrent, FeaturesFollowVenue, Working, Continues

LEMMA RejectStep ==
  ASSUME ReplayInv, RejectInput
  PROVE  ReplayInv'
<1>1. PICK n \in {0, 1} : st' = [st EXCEPT !.messages = @ + n]
  BY DEF RejectInput
<1>2. /\ st'.messages = st.messages + n /\ st'.first_divergence = st.first_divergence
      /\ DOMAIN st' = DOMAIN st
  BY <1>1 DEF ReplayInv, CountersOK
<1>3. /\ pc' = "failed" /\ err' \in BadInput
      /\ UNCHANGED <<opts, row, agreed, rec>>
  BY DEF RejectInput, Go, BadInput
<1>4. err' \notin {"none", "divergence"}
  BY <1>3 DEF BadInput
<1> QED
  BY <1>2, <1>3, <1>4 DEF ReplayInv, CountersOK, Judgement, RowIsCurrent, FeaturesFollowVenue,
                          Working, Continues

LEMMA EmitStep ==
  ASSUME ReplayInv, Emit
  PROVE  ReplayInv'
<1>1. /\ pc = "emit" /\ pc' = "compare"
      /\ UNCHANGED <<venue, pub, opts, rec, st, err, agreed>>
  BY DEF Emit, Go, venueVars
<1>2. CountersOK' /\ Judgement'
  BY <1>1 DEF ReplayInv, CountersOK, Judgement, JudgedTo, PubIsVenue, Working, Continues
<1>3. RowIsCurrent'
  <2>1. CASE "emit" \in opts
    <3>1. row'.msg_index = st.messages /\ row'.quote = Quote(Shown("buy"), Shown("sell"))
      BY <2>1 DEF Emit, Features
    <3>2. Quote(Shown("buy"), Shown("sell"))' = Quote(Shown("buy"), Shown("sell"))
      BY <1>1 DEF Shown, Continues
    <3> QED BY <1>1, <2>1, <3>1, <3>2 DEF RowIsCurrent
  <2>2. CASE "emit" \notin opts
    BY <1>1, <2>2 DEF Emit, ReplayInv, RowIsCurrent
  <2> QED BY <2>1, <2>2
<1> QED BY <1>1, <1>2, <1>3 DEF ReplayInv, FeaturesFollowVenue

(* As long as the tops agree, the touch that is emitted from our book is   *)
(* the venue's.                                                            *)
LEMMA ShownIsPublished ==
  ASSUME PubIsVenue, Continues \/ TopAgrees
  PROVE  Quote(Shown("buy"), Shown("sell")) = Quote(pub["buy"], pub["sell"])
<1>1. ASSUME NEW s \in Side PROVE Touch(Shown(s)) = Touch(pub[s])
  <2>1. CASE Continues
    BY <2>1 DEF Shown
  <2>2. CASE ~Continues
    <3>1. Depth(rec.book, s, Levels) = Depth(venue, s, Levels)
      BY <2>2 DEF TopAgrees
    <3>2. Levels \in Nat \ {0} /\ DEPTH_LEVELS \in Nat \ {0} /\ FileLevels \in Nat \ {0}
      BY ReplayAssumption, VenueAssumption DEF PubIsVenue
    <3>3. /\ Touch(Depth(rec.book, s, DEPTH_LEVELS)) = Touch(Depth(rec.book, s, Levels))
          /\ Touch(Depth(venue, s, Levels)) = Touch(Depth(venue, s, FileLevels))
      BY <3>2, SameTouchAtAnyDepth
    <3> QED BY <2>2, <3>1, <3>3 DEF Shown, PubIsVenue
  <2> QED BY <2>1, <2>2
<1> QED BY <1>1 DEF Quote, Side

(* The comparison, whichever way it goes.                                  *)
LEMMA JudgeStep ==
  ASSUME ReplayInv, Accept \/ ContinuePast \/ Diverge
  PROVE  ReplayInv'
<1> USE DEF ReplayInv
<1>1. /\ pc = "compare" /\ PubIsVenue /\ JudgedTo(st.messages - 1)
      /\ st.messages > 0 /\ st.messages \in Nat /\ st.first_divergence \in Nat /\ agreed \in Nat
      /\ UNCHANGED <<pub, opts, rec, row>>
      /\ agreed' = IF Compared /\ agreed = st.messages - 1 THEN st.messages ELSE agreed
  BY ComparedIsTopAgrees
     DEF Accept, ContinuePast, Diverge, Judge, venueVars, Judgement, CountersOK, Working
<1>2. err = "none"
  BY <1>1 DEF CountersOK
<1>3. agreed' \in Nat
  BY <1>1
<1>4. CASE Accept
  <2>1. pc' = "read" /\ st' = st /\ err' = err /\ Compared
    BY <1>4 DEF Accept, Go
  <2>2. JudgedTo(st.messages)'
    BY <1>1, <2>1 DEF JudgedTo
  <2>3. CountersOK' /\ Judgement'
    BY <1>1, <1>2, <1>3, <2>1, <2>2 DEF CountersOK, Judgement, Working, Continues
  <2>4. RowIsCurrent'
    BY <1>1, <2>1 DEF RowIsCurrent
  <2>5. FeaturesFollowVenue'
    BY <1>1, <2>1, ComparedIsTopAgrees, ShownIsPublished
       DEF RowIsCurrent, FeaturesFollowVenue, Quote
  <2> QED BY <2>3, <2>4, <2>5
<1>5. CASE ContinuePast
  <2>1. /\ pc' = "read" /\ err' = err /\ ~Compared /\ Continues
        /\ st' = [st EXCEPT !.first_divergence = IF @ = 0 THEN st.messages ELSE @]
    BY <1>5 DEF ContinuePast, Go
  <2>2. /\ st'.messages = st.messages /\ DOMAIN st' = DOMAIN st
        /\ st'.first_divergence =
             IF st.first_divergence = 0 THEN st.messages ELSE st.first_divergence
    BY <2>1 DEF CountersOK
  <2>3. JudgedTo(st.messages)'
    BY <1>1, <2>1, <2>2 DEF JudgedTo
  <2>4. CountersOK' /\ Judgement'
    BY <1>1, <1>2, <1>3, <2>1, <2>2, <2>3 DEF CountersOK, Judgement, Working, Continues
  <2>5. RowIsCurrent'
    BY <1>1, <2>1, <2>2 DEF RowIsCurrent
  <2>6. FeaturesFollowVenue'
    BY <1>1, <2>1, ShownIsPublished DEF RowIsCurrent, FeaturesFollowVenue, Quote
  <2> QED BY <2>4, <2>5, <2>6
<1>6. CASE Diverge
  <2>1. pc' = "failed" /\ err' = "divergence" /\ st' = st /\ ~Compared /\ ~Continues
    BY <1>6 DEF Diverge, Go
  <2>2. st.first_divergence = 0 /\ agreed' = st.messages - 1
    BY <1>1, <2>1 DEF Judgement, JudgedTo
  <2>3. CountersOK' /\ Judgement'
    BY <1>1, <1>3, <2>1, <2>2 DEF CountersOK, Judgement, Working, Continues
  <2>4. RowIsCurrent' /\ FeaturesFollowVenue'
    BY <1>1, <2>1 DEF RowIsCurrent, FeaturesFollowVenue
  <2> QED BY <2>3, <2>4
<1> QED BY <1>4, <1>5, <1>6

LEMMA EndOfFileStep ==
  ASSUME ReplayInv, EndOfFile
  PROVE  ReplayInv'
<1>1. /\ pc = "read" /\ UNCHANGED <<opts, rec, st, row, agreed>>
      /\ IF rec.unexpected_trades > 0 /\ ~Continues
         THEN pc' = "failed" /\ err' = "trades" ELSE pc' = "passed" /\ err' = err
  BY DEF EndOfFile, Go
<1>2. CountersOK'
  BY <1>1 DEF ReplayInv, CountersOK, Working
<1>3. Judgement'
  BY <1>1 DEF ReplayInv, CountersOK, Judgement, JudgedTo, Continues, Working
<1>4. RowIsCurrent' /\ FeaturesFollowVenue'
  BY <1>1 DEF ReplayInv, RowIsCurrent, FeaturesFollowVenue
<1> QED BY <1>2, <1>3, <1>4 DEF ReplayInv

LEMMA StutterStep ==
  ASSUME ReplayInv, UNCHANGED vars
  PROVE  ReplayInv'
BY DEF vars, venueVars, replayVars, ReplayInv, CountersOK, Judgement, JudgedTo, RowIsCurrent,
       FeaturesFollowVenue, Continues, PubIsVenue, Shown

LEMMA RunningStep ==
  ASSUME ReplayInv, Running
  PROVE  ReplayInv'
BY ReadStep, VenueAloneStep, RejectStep, WorkingStep, EmitStep, JudgeStep, EndOfFileStep
   DEF Running, ReplayStep

LEMMA ReplayStepInv == ReplayInv /\ [Next]_vars => ReplayInv'
BY RunningStep, StutterStep DEF Next, Returned

-----------------------------------------------------------------------------
(* The reconciliation's inductive invariant.                               *)
THEOREM ReplaySafety == Spec => []ReplayInv
BY ReplayInit, ReplayStepInv, PTL DEF Spec

(* A run stops at, or records, exactly the first row that our book does    *)
(* not match, however long the file and whatever the repairs did           *)
(* (LobsterReplay.hpp:657-678).                                            *)
THEOREM HorizonAlwaysExact == Spec => []HorizonIsExact
<1>1. ReplayInv => HorizonIsExact
  BY DEF ReplayInv, Judgement, JudgedTo, HorizonIsExact
<1> QED BY <1>1, ReplaySafety, PTL

(* Every feature row shows the venue's touch, as far as its mode promises  *)
(* (LobsterReplay.hpp:605-640).                                            *)
THEOREM FeaturesAlwaysFollowVenue == Spec => []FeaturesFollowVenue
BY ReplaySafety, PTL DEF ReplayInv

(* A run that asked for features leaves a row for every message            *)
(* (LobsterReplay.hpp:590-592).                                            *)
THEOREM EveryMessageAlwaysHasARow == Spec => []EveryMessageHasARow
<1>1. ReplayInv => EveryMessageHasARow
  BY DEF ReplayInv, RowIsCurrent, EveryMessageHasARow
<1> QED BY <1>1, ReplaySafety, PTL

(* Pruning never drops a level that the venue has, however many levels     *)
(* there are and whatever has happened outside the window                  *)
(* (LobsterReplay.hpp:337-341).                                            *)
THEOREM PruningIsSafe == Spec => PruneOnlyPhantoms
<1>1. ReplayInv /\ [Next]_vars =>
        [pc = "prune" => \A k \in Lost(rec, rec') : venue[k[1]][k[2]] = <<>>]_vars
  <2> SUFFICES ASSUME ReplayInv, Next, pc = "prune", NEW k \in Lost(rec, rec')
               PROVE  venue[k[1]][k[2]] = <<>>
    OBVIOUS
  <2>1. PubIsVenue
    BY DEF ReplayInv, Judgement, Working
  <2>2. rec' = PrunePhantomLevels(rec)
    BY DEF Next, Running, ReplayStep, Returned, ReadMessage, VenueAlone, RejectInput, EndOfFile,
           SeedBook, ApplyNewLimit, ApplyToOrder, ApplyToSeed, ApplyUnknown, ApplySkipped,
           Applied, Prune, Recover, Resync, Emit, Accept, ContinuePast, Diverge, Judge
  <2>3. k[1] \in Side /\ k[2] \in Price /\ k[2] \in Doomed(rec.book, k[1])
    BY <2>2 DEF Lost, PrunePhantomLevels
  <2>4. k[2] \notin Tracked(venue, k[1])
    BY <2>1, <2>3, AuthoritativeIsRight DEF Doomed
  <2> QED BY <2>3, <2>4 DEF Tracked
<1> QED BY <1>1, ReplaySafety, PTL DEF Spec, PruneOnlyPhantoms

-----------------------------------------------------------------------------
(***************************************************************************)
(* The venue: its book is in good order, and the ids that are still to     *)
(* arrive rest nowhere.                                                    *)
(***************************************************************************)
VenueIds == 0 .. SYNTHETIC_ID_BASE - 1

VenueOK ==
  /\ BookOK(venue, VenueIds)
  /\ arrivals \in 0 .. MaxNewOrders
  /\ \A id : Holds(venue, id) => id <= arrivals \/ id > MaxNewOrders

MessageOK(m) ==
  /\ m.side \in Side /\ m.price \in Price /\ m.size \in Nat
  /\ m.order_id \in VenueIds

Messages == NewLimits \cup Cancels \cup Executions \cup OffBook

(* A message that takes from an order names it with its side and price.    *)
Takes(m) ==
  /\ m.event \in {"PARTIAL_CANCEL", "EXEC_VISIBLE", "FULL_DELETE"}
  /\ \E o \in Resting(venue) : m.order_id = o.id /\ m.price = o.price /\ m.side = o.side

LEMMA MessageFacts ==
  ASSUME VenueOK, NEW m \in Messages
  PROVE  /\ MessageOK(m) \/ (m.event = "NEW_LIMIT" /\ arrivals = MaxNewOrders)
         /\ \/ /\ m.event = "NEW_LIMIT" /\ m.order_id = arrivals + 1 /\ m.size > 0
               /\ Clear(venue, m.side, m.price)
               /\ m.side \in Side /\ m.price \in Price /\ m.size \in Nat
            \/ Takes(m)
            \/ m \in OffBook /\ m.event \in {"EXEC_HIDDEN", "CROSS", "HALT"}
<1>1. SYNTHETIC_ID_BASE \in Nat /\ MaxNewOrders \in Nat /\ MaxNewOrders < SYNTHETIC_ID_BASE
      /\ arrivals \in Nat /\ arrivals <= MaxNewOrders
  BY ReplayAssumption, VenueAssumption DEF VenueOK
<1>2. CASE m \in NewLimits
  <2>1. PICK n \in Qty, p \in Price, s \in Side :
          m = Message("NEW_LIMIT", arrivals + 1, n, p, s)
    BY <1>2 DEF NewLimits
  <2>2. /\ m.event = "NEW_LIMIT" /\ m.order_id = arrivals + 1 /\ m.size = n
        /\ m.side = s /\ m.price = p
    BY <2>1 DEF Message
  <2>3. n \in Nat /\ n > 0
    BY BookAssumption DEF Qty
  <2>4. Clear(venue, m.side, m.price)
    BY <1>2 DEF NewLimits, Clear
  <2> QED
    BY <1>1, <2>2, <2>3, <2>4 DEF MessageOK, VenueIds
<1>3. ASSUME NEW o \in Resting(venue), NEW n \in 1 .. o.qty, NEW event,
             event \in {"PARTIAL_CANCEL", "EXEC_VISIBLE", "FULL_DELETE"},
             m = Message(event, o.id, n, o.price, o.side)
      PROVE  MessageOK(m) /\ Takes(m)
  <2>1. /\ o.side \in Side /\ o.price \in Price /\ o.id \in VenueIds /\ o.qty \in Nat
    BY RestingLevel DEF VenueOK
  <2>2. /\ m.event = event /\ m.order_id = o.id /\ m.size = n
        /\ m.side = o.side /\ m.price = o.price
    BY <1>3 DEF Message
  <2>3. n \in Nat
    BY <2>1
  <2> QED
    BY <1>3, <2>1, <2>2, <2>3 DEF MessageOK, Takes
<1>4. CASE m \in Cancels
  <2>1. PICK o \in Resting(venue) : \E n \in 1 .. o.qty :
          m = Message(IF n = o.qty THEN "FULL_DELETE" ELSE "PARTIAL_CANCEL",
                      o.id, n, o.price, o.side)
    BY <1>4 DEF Cancels
  <2> QED
    BY <1>3, <2>1, Zenon
<1>5. CASE m \in Executions
  <2>1. PICK o \in Resting(venue) : \E n \in 1 .. o.qty :
          m = Message("EXEC_VISIBLE", o.id, n, o.price, o.side)
    BY <1>5 DEF Executions
  <2> QED
    BY <1>3, <2>1, Zenon
<1>6. CASE m \in OffBook
  <2>1. PICK event \in {"EXEC_HIDDEN", "CROSS", "HALT"} : m = Message(event, 0, 1, 1, "buy")
    BY <1>6 DEF OffBook
  <2>2. /\ m.event = event /\ m.order_id = 0 /\ m.size = 1
        /\ m.side = "buy" /\ m.price = 1
    BY <2>1 DEF Message
  <2>3. 1 \in Price
    BY BookAssumption DEF Price
  <2> QED
    BY <1>1, <1>6, <2>1, <2>2, <2>3 DEF MessageOK, VenueIds, Side
<1> QED
  BY <1>2, <1>4, <1>5, <1>6 DEF Messages

(* The venue's book after an event, level by level.                        *)
LEMMA AfterFacts ==
  ASSUME VenueOK, NEW m \in Messages, Happens(m)
  PROVE  /\ VenueOK' /\ MessageOK(m)
         /\ m \notin OffBook => Elsewhere(venue, venue', m.side, m.price)
         /\ m \in OffBook => venue' = venue
         /\ m.event = "NEW_LIMIT" => /\ m.price \in Tracked(venue', m.side)
                                     /\ Clear(venue, m.side, m.price)
<1>1. MessageOK(m)
  BY MessageFacts DEF Happens, VenueOK
<1>1a. /\ SYNTHETIC_ID_BASE \in Nat /\ MaxNewOrders \in Nat /\ MaxNewOrders < SYNTHETIC_ID_BASE
       /\ arrivals \in Nat /\ arrivals <= MaxNewOrders
  BY ReplayAssumption, VenueAssumption DEF VenueOK
<1>2. BookOK(venue, VenueIds)
  BY DEF VenueOK
<1>3. CASE m.event = "NEW_LIMIT"
  <2>1. /\ m.order_id = arrivals + 1 /\ m.size > 0 /\ Clear(venue, m.side, m.price)
    BY <1>3, MessageFacts DEF Takes
  <2>2. PICK s \in Side, p \in Price, n \in Nat, id \in VenueIds :
          s = m.side /\ p = m.price /\ n = m.size /\ id = m.order_id
    BY <1>1 DEF MessageOK
  <2>3. venue' = [venue EXCEPT ![s][p] = Append(@, [id |-> id, qty |-> n])]
    BY <1>3, <2>2 DEF Happens, After
  <2>4. venue' = Stacked(venue, s, p, id, n)
    BY <2>3 DEF Stacked
  <2>5. arrivals' = arrivals + 1 /\ arrivals < MaxNewOrders
    BY <1>3 DEF Happens
  <2>6. id = arrivals + 1 /\ n > 0 /\ Clear(venue, s, p)
    BY <2>1, <2>2
  <2>7. ~Holds(venue, id)
    BY <1>1a, <2>5, <2>6 DEF VenueOK
  <2>8. BookOK(venue', VenueIds)
    <3>1. n \in Nat \ {0} /\ \A q \in Tracked(venue, Opposite(s)) : ~Crosses(s, q, p)
      BY <2>6 DEF Clear
    <3>2. BookOK([venue EXCEPT ![s][p] = Append(@, [id |-> id, qty |-> n])], VenueIds)
      BY <1>2, <2>7, <3>1, RestBook, Zenon
    <3> QED
      BY <2>3, <3>2
  <2>9. Elsewhere(venue, venue', s, p) /\ venue'[s][p] # <<>>
    BY <1>2, <2>4, StackedLevels
  <2>10. \A x : Holds(venue', x) => Holds(venue, x) \/ x = id
    <3>1. PICK e : e = [id |-> id, qty |-> n]
      OBVIOUS
    <3>2. PICK f \in Seq(Entries(VenueIds)) : f = venue[s][p]
      BY <1>2 DEF BookOK
    <3>3. /\ venue'[s][p] = Append(venue[s][p], e)
          /\ \A t \in Side, q \in Price : t # s \/ q # p => venue'[t][q] = venue[t][q]
      BY <1>2, <2>4, <3>1, StackedElsewhere
    <3>4. /\ Len(Append(f, e)) = Len(f) + 1 /\ Len(f) \in Nat
          /\ \A i \in 1 .. Len(f) : Append(f, e)[i] = f[i]
          /\ Append(f, e)[Len(f) + 1] = e
      <4> HIDE DEF Entries
      <4> QED
        BY <3>2
    <3> SUFFICES ASSUME NEW x, Holds(venue', x) PROVE Holds(venue, x) \/ x = id
      OBVIOUS
    <3>0. PICK t \in Side, q \in Price : \E i \in 1 .. Len(venue'[t][q]) : venue'[t][q][i].id = x
      BY DEF Holds
    <3>0a. PICK i \in 1 .. Len(venue'[t][q]) : venue'[t][q][i].id = x
      BY <3>0
    <3>5. CASE t # s \/ q # p
      BY <3>0a, <3>3, <3>5 DEF Holds
    <3>6. CASE t = s /\ q = p
      <4>1. PICK g : g = Append(f, e)
        OBVIOUS
      <4>2. venue'[t][q] = g /\ i \in 1 .. Len(f) + 1
        BY <3>2, <3>3, <3>4, <3>6, <4>1
      <4>3. CASE i = Len(f) + 1
        BY <3>0a, <3>1, <3>4, <4>1, <4>2, <4>3
      <4>4. CASE i # Len(f) + 1
        <5>1. i \in 1 .. Len(f) /\ g[i] = f[i]
          BY <3>4, <4>1, <4>2, <4>4
        <5>2. venue[s][p][i].id = x /\ i \in 1 .. Len(venue[s][p])
          BY <3>0a, <3>2, <4>1, <4>2, <5>1
        <5> QED
          BY <5>2 DEF Holds
      <4> QED
        BY <4>3, <4>4
    <3> QED
      BY <3>5, <3>6
  <2>11. VenueOK'
    <3>1. ASSUME NEW x, Holds(venue', x) PROVE x <= arrivals' \/ x > MaxNewOrders
      <4>1. CASE x = id
        BY <1>1a, <2>5, <2>6, <4>1
      <4>2. CASE Holds(venue, x)
        <5>1. x <= arrivals \/ x > MaxNewOrders
          BY <4>2 DEF VenueOK
        <5>2. x \in Int
          <6>1. PICK t \in Side, q \in Price : \E i \in 1 .. Len(venue[t][q]) : venue[t][q][i].id = x
            BY <4>2 DEF Holds
          <6>2. x \in VenueIds
            BY <1>2, <6>1, OrderQty
          <6> QED
            BY <6>2 DEF VenueIds
        <5> QED
          BY <1>1a, <2>5, <5>1, <5>2
      <4> QED
        BY <2>10, <3>1, <4>1, <4>2
    <3> QED
      BY <1>1a, <2>5, <2>8, <3>1 DEF VenueOK, VenueIds
  <2>12. m \notin OffBook
    BY <1>3 DEF OffBook, Message
  <2> QED
    BY <1>1, <2>1, <2>2, <2>9, <2>11, <2>12 DEF Tracked
<1>4. CASE Takes(m)
  <2>1. PICK o \in Resting(venue) : m.order_id = o.id /\ m.price = o.price /\ m.side = o.side
    BY <1>4 DEF Takes
  <2>2. venue' = ReduceOrder(venue, o.id, m.size) /\ arrivals' = arrivals
    BY <1>4, <2>1 DEF Takes, Happens, After
  <2>3. /\ o.side \in Side /\ o.price \in Price
        /\ \A t \in Side, q \in Price : t # o.side \/ q # o.price => Lacks(venue[t][q], o.id)
    BY <1>2, RestingLevel
  <2>4. m.size \in Nat
    BY <1>1 DEF MessageOK
  <2>5. PICK c : c = ReduceOrder(venue, o.id, m.size)
    OBVIOUS
  <2>6. BookOK(c, VenueIds) /\ \A s \in Side, p \in Price : Thins(c[s][p], venue[s][p])
    BY <1>2, <2>4, <2>5, ReduceBook
  <2>7. \A id : Holds(c, id) => Holds(venue, id)
    <3>1. c \in [Side -> [Price -> Seq(Entries(VenueIds))]]
      BY <2>6 DEF BookOK
    <3> QED
      BY <1>2, <2>6, <3>1, ThinnedBook
  <2>8. Elsewhere(venue, c, o.side, o.price)
    BY <1>2, <2>3, <2>5, ReducedElsewhere DEF Elsewhere
  <2>9. VenueOK'
    BY <2>2, <2>5, <2>6, <2>7 DEF VenueOK, VenueIds
  <2>10. m \notin OffBook /\ m.event # "NEW_LIMIT"
    BY <1>4 DEF Takes, OffBook, Message
  <2> QED
    BY <1>1, <2>1, <2>2, <2>5, <2>8, <2>9, <2>10
<1>5. CASE m \in OffBook /\ m.event \in {"EXEC_HIDDEN", "CROSS", "HALT"}
  <2>1. venue' = venue /\ arrivals' = arrivals
    BY <1>5 DEF Happens, After
  <2>2. VenueOK'
    BY <2>1 DEF VenueOK, VenueIds
  <2> QED
    BY <1>1, <1>5, <2>1, <2>2
<1> QED
  BY <1>3, <1>4, <1>5, MessageFacts

(* The ids of the orders that rest before the window differ.               *)
LEMMA ProductStep ==
  ASSUME NEW n \in Nat, NEW j \in Nat, NEW k \in Nat
  PROVE  j * n \in Nat /\ (j < k => j * n + n <= k * n)
<1>1. j * n \in Nat /\ k * n \in Nat
  OBVIOUS
<1>2. ASSUME j < k PROVE j * n + n <= k * n
  <2>1. PICK d \in Nat : d = k - j - 1
    <3>1. k - j - 1 \in Nat
      BY <1>2
    <3> QED
      BY <3>1
  <2>2. k = j + 1 + d
    BY <2>1
  <2>3. k * n = j * n + n + d * n
    BY <2>2
  <2>4. d * n \in Nat
    OBVIOUS
  <2> QED
    BY <1>1, <2>3, <2>4
<1> QED
  BY <1>1, <1>2

LEMMA PreWindowIds ==
  ASSUME NEW p \in Price, NEW j \in Nat
  PROVE  /\ PreWindowId(p, j) \in Nat /\ PreWindowId(p, j) > MaxNewOrders
         /\ \A q \in Price, k \in Nat : PreWindowId(p, j) = PreWindowId(q, k) => p = q /\ j = k
<1>1. NO_ASK \in Nat /\ MaxNewOrders \in Nat /\ p \in 1 .. NO_ASK - 1
  BY BookAssumption, VenueAssumption DEF Price
<1>2. j * NO_ASK \in Nat
  BY <1>1, ProductStep
<1>3. ASSUME NEW q \in Price, NEW k \in Nat, PreWindowId(p, j) = PreWindowId(q, k)
      PROVE  p = q /\ j = k
  <2>1. q \in 1 .. NO_ASK - 1 /\ k * NO_ASK \in Nat
    BY <1>1, ProductStep DEF Price
  <2>2. j * NO_ASK + p = k * NO_ASK + q
    BY <1>1, <1>2, <1>3, <2>1 DEF PreWindowId
  <2>3. /\ j < k => j * NO_ASK + NO_ASK <= k * NO_ASK
        /\ k < j => k * NO_ASK + NO_ASK <= j * NO_ASK
    BY <1>1, ProductStep
  <2>4. ~(j < k) /\ ~(k < j)
    BY <1>1, <1>2, <2>1, <2>2, <2>3
  <2>5. j = k
    BY <2>4
  <2> QED
    BY <1>1, <1>2, <2>1, <2>2, <2>5
<1> QED
  BY <1>1, <1>2, <1>3 DEF PreWindowId

LEMMA VenueStarts == VenueInit => VenueOK /\ \A id : Holds(venue, id) => id > MaxNewOrders
<1> SUFFICES ASSUME VenueInit PROVE VenueOK /\ \A id : Holds(venue, id) => id > MaxNewOrders
  OBVIOUS
<1>1. PICK split \in Splits, sizes \in [Price -> OpeningSizes] :
        venue = [s \in Side |-> [p \in Price |->
          IF (s = "buy") = (p < split)
          THEN [k \in DOMAIN sizes[p] |-> [id |-> PreWindowId(p, k), qty |-> sizes[p][k]]]
          ELSE <<>>]]
  BY DEF VenueInit, OpeningBooks
<1>2. split \in Int /\ \A p \in Price : p \in Int
  BY VenueAssumption, BookAssumption DEF Price
<1>3. ASSUME NEW s \in Side, NEW p \in Price
      PROVE  /\ venue[s][p] \in Seq(Entries(VenueIds))
             /\ venue[s][p] # <<>> => (s = "buy" <=> p < split)
             /\ \A i \in 1 .. Len(venue[s][p]) :
                  i \in Nat /\ venue[s][p][i].id = PreWindowId(p, i)
  <2>1. CASE ~((s = "buy") = (p < split))
    <3>1. venue[s][p] = <<>>
      BY <1>1, <2>1
    <3> QED
      BY <3>1
  <2>2. CASE (s = "buy") = (p < split)
    <3>1. PICK z, f : z = sizes[p] /\ f = venue[s][p]
      OBVIOUS
    <3>2. f = [k \in DOMAIN z |-> [id |-> PreWindowId(p, k), qty |-> z[k]]]
      BY <1>1, <2>2, <3>1
    <3>3. z \in Seq(Qty) /\ z \in OpeningSizes
      BY <3>1, VenueAssumption
    <3>4. Len(z) \in Nat /\ DOMAIN z = 1 .. Len(z) /\ \A k \in 1 .. Len(z) : z[k] \in Nat \ {0}
      BY <3>3, BookAssumption DEF Qty
    <3>5. \A k \in 1 .. Len(z) : k \in Nat /\ PreWindowId(p, k) \in VenueIds
      <4> SUFFICES ASSUME NEW k \in 1 .. Len(z) PROVE k \in Nat /\ PreWindowId(p, k) \in VenueIds
        OBVIOUS
      <4>1. k \in Nat
        BY <3>4
      <4>2. PreWindowId(p, k) < SYNTHETIC_ID_BASE /\ SYNTHETIC_ID_BASE \in Nat
        BY <3>3, <3>4, ReplayAssumption
      <4>3. PreWindowId(p, k) \in Nat
        BY <4>1, PreWindowIds
      <4> QED
        BY <4>1, <4>2, <4>3 DEF VenueIds
    <3>6. \A k \in 1 .. Len(z) : f[k] = [id |-> PreWindowId(p, k), qty |-> z[k]]
      BY <3>2, <3>4
    <3>7. \A k \in 1 .. Len(z) : f[k] \in Entries(VenueIds) /\ f[k].id = PreWindowId(p, k)
      <4> SUFFICES ASSUME NEW k \in 1 .. Len(z)
                   PROVE  f[k] \in Entries(VenueIds) /\ f[k].id = PreWindowId(p, k)
        OBVIOUS
      <4>1. PICK x \in VenueIds, y \in Nat \ {0} : x = PreWindowId(p, k) /\ y = z[k]
        BY <3>4, <3>5
      <4>2. f[k] = [id |-> x, qty |-> y]
        BY <3>6, <4>1
      <4> QED
        BY <4>1, <4>2 DEF Entries
    <3>8. f = [k \in 1 .. Len(z) |-> f[k]]
      BY <3>2, <3>4
    <3>9. f \in Seq(Entries(VenueIds)) /\ Len(f) = Len(z)
      <4>1. PICK n \in Nat : n = Len(z)
        BY <3>4
      <4>1a. PICK E : E = Entries(VenueIds)
        OBVIOUS
      <4>2. f = [k \in 1 .. n |-> f[k]] /\ \A k \in 1 .. n : f[k] \in E
        BY <3>7, <3>8, <4>1, <4>1a
      <4>3. f \in Seq(E) /\ Len(f) = n
        BY <4>2
      <4> QED
        BY <4>1, <4>1a, <4>3
    <3> QED
      BY <2>2, <3>1, <3>5, <3>7, <3>9
  <2> QED
    BY <2>1, <2>2
<1>4. venue \in [Side -> [Price -> Seq(Entries(VenueIds))]]
  <2>1. venue = [s \in Side |-> [p \in Price |-> venue[s][p]]]
    BY <1>1
  <2> HIDE DEF Entries
  <2> QED
    BY <1>3, <2>1
<1>5. IdsUnique(venue)
  <2> SUFFICES ASSUME NEW s \in Side, NEW t \in Side, NEW p \in Price, NEW q \in Price,
                      NEW i \in 1 .. Len(venue[s][p]), NEW j \in 1 .. Len(venue[t][q]),
                      venue[s][p][i].id = venue[t][q][j].id
               PROVE  s = t /\ p = q /\ i = j
    BY DEF IdsUnique
  <2>1. /\ i \in Nat /\ j \in Nat /\ PreWindowId(p, i) = PreWindowId(q, j)
        /\ venue[s][p] # <<>> /\ venue[t][q] # <<>>
    BY <1>3
  <2>2. p = q /\ i = j
    BY <2>1, PreWindowIds
  <2> QED
    BY <1>3, <2>1, <2>2 DEF Side
<1>6. NotCrossed(venue)
  <2>1. \A p \in Tracked(venue, "buy") : p < split /\ p \in Int
    BY <1>2, <1>3 DEF Tracked, Side
  <2>2. \A q \in Tracked(venue, "sell") : ~(q < split) /\ q \in Int
    BY <1>2, <1>3 DEF Tracked, Side
  <2> QED
    BY <1>2, <2>1, <2>2 DEF NotCrossed
<1>7. \A id : Holds(venue, id) => id > MaxNewOrders
  <2> SUFFICES ASSUME NEW id, NEW s \in Side, NEW p \in Price, NEW i \in 1 .. Len(venue[s][p]),
                      venue[s][p][i].id = id
               PROVE  id > MaxNewOrders
    BY DEF Holds
  <2>1. i \in Nat /\ id = PreWindowId(p, i)
    BY <1>3
  <2> QED
    BY <2>1, PreWindowIds
<1>8. arrivals \in 0 .. MaxNewOrders
  BY VenueAssumption DEF VenueInit
<1> QED
  BY <1>4, <1>5, <1>6, <1>7, <1>8 DEF VenueOK, BookOK

(* A row lists levels of the venue, best first.                            *)
LEMMA RowFacts ==
  ASSUME PubIsVenue, BookOK(venue, VenueIds), NEW s \in Side
  PROVE  /\ Lists(pub[s]) /\ Published(s) \subseteq Tracked(venue, s)
         /\ Len(pub[s]) = DepthLen(venue, s, FileLevels)
         /\ \A m \in 1 .. Len(pub[s]) : /\ pub[s][m].price = PriceAt(venue, s, m)
                                        /\ pub[s][m].volume = Volume(venue[s][pub[s][m].price])
                                        /\ pub[s][m].price \in Published(s)
<1> DEFINE L == DepthLen(venue, s, FileLevels)
<1>1. FileLevels \in Nat
  BY VenueAssumption
<1>2. pub[s] = Depth(venue, s, FileLevels)
  BY DEF PubIsVenue
<1>3. /\ L \in Nat /\ DOMAIN pub[s] = 1 .. L /\ Len(pub[s]) = L
      /\ \A i \in 1 .. L : pub[s][i] = LevelAt(venue, s, i)
      /\ L <= Size(venue, s)
  <2>1. L \in Nat /\ L <= Size(venue, s)
    BY <1>1, TrackedFinite DEF DepthLen
  <2> QED
    BY <1>1, <1>2, <2>1, DepthFacts, DepthLength
<1>4. ASSUME NEW i \in 1 .. L
      PROVE  /\ pub[s][i] \in Listed
             /\ pub[s][i].price = PriceAt(venue, s, i)
             /\ pub[s][i].price \in Tracked(venue, s)
             /\ pub[s][i].volume = Volume(venue[s][pub[s][i].price])
  <2>1. i \in 1 .. Size(venue, s)
    BY <1>3, TrackedFinite
  <2>2. PICK p : p = PriceAt(venue, s, i)
    OBVIOUS
  <2>3. p \in Tracked(venue, s)
    BY <2>1, <2>2, PriceAtRank
  <2>4. pub[s][i] = [price |-> p, volume |-> Volume(venue[s][p])]
    BY <1>3, <2>2 DEF LevelAt
  <2>5. PICK f \in Seq(Entries(VenueIds)) : f = venue[s][p]
    <3>1. p \in Price
      BY <2>3 DEF Tracked
    <3>2. venue[s][p] \in Seq(Entries(VenueIds))
      BY <3>1 DEF BookOK
    <3> QED
      BY <3>2
  <2>6. Volume(f) \in Nat /\ f # <<>>
    <3>1. Volume(f) \in Nat
      BY FifoShares
    <3>2. f # <<>>
      BY <2>3, <2>5, Zenon DEF Tracked
    <3> QED
      BY <3>1, <3>2
  <2>7. Volume(f) # 0
    <3>1. Volume(f) = 0 <=> f = <<>>
      BY FifoShares
    <3> QED
      BY <2>6, <3>1
  <2>8. p \in Price /\ Volume(venue[s][p]) \in Nat \ {0}
    BY <2>3, <2>5, <2>6, <2>7 DEF Tracked
  <2> QED
    BY <2>2, <2>3, <2>4, <2>8 DEF Listed
<1>5. pub[s] = [i \in 1 .. L |-> pub[s][i]]
  BY <1>2, <1>3 DEF Depth
<1>6. Lists(pub[s])
  BY <1>3, <1>4, <1>5 DEF Lists
<1>7. Published(s) \subseteq Tracked(venue, s)
  BY <1>3, <1>4 DEF Published
<1>8. \A i \in 1 .. L : pub[s][i].price \in Published(s)
  BY <1>3 DEF Published
<1> QED
  BY <1>3, <1>4, <1>6, <1>7, <1>8

(* The prices of a row do not cross.                                       *)
LEMMA RowUncrossed ==
  ASSUME PubIsVenue, BookOK(venue, VenueIds)
  PROVE  Uncrossed([s \in Side |-> Published(s)])
<1>1. \A s \in Side : Published(s) \subseteq Tracked(venue, s)
  BY RowFacts
<1> QED
  BY <1>1 DEF Uncrossed, BookOK, NotCrossed, Side

-----------------------------------------------------------------------------
(***************************************************************************)
(* The second inductive invariant: both books are in good order, and while *)
(* our top is the venue's no order that the venue could rest would trade   *)
(* with ours.                                                              *)
(***************************************************************************)
SameTouch == BestAsk(rec.book) = BestAsk(venue) /\ BestBid(rec.book) = BestBid(venue)

RecInv ==
  /\ RecOK(rec)
  /\ st.messages = 0 \/ pc = "seed" => rec.book = EmptyBook /\ rec.unexpected_trades = 0
  /\ agreed <= st.messages
  /\ agreed >= st.messages - 1 => rec.unexpected_trades = 0

FeedInv ==
  /\ VenueOK
  /\ pc \in Working => MessageOK(msg)
  /\ pc = "read" /\ st.messages > 0 => Levels <= FileLevels
  /\ pc = "read" /\ st.messages > 0 /\ agreed = st.messages => SameTouch
  /\ pc = "apply" /\ agreed = st.messages - 1 /\ msg.event = "NEW_LIMIT" =>
       Clear(rec.book, msg.side, msg.price)
  /\ pc = "seed" /\ msg.event = "NEW_LIMIT" => msg.price \in Tracked(venue, msg.side)

BookInv == ReplayInv /\ RecInv /\ FeedInv

LEMMA EmptyRec ==
  /\ \A Ids : BookOK(EmptyBook, Ids)
  /\ \A s \in Side : Tracked(EmptyBook, s) = {}
<1>1. \A s \in Side, p \in Price : EmptyBook[s][p] = <<>>
  BY DEF EmptyBook
<1>2. \A Ids : EmptyBook \in [Side -> [Price -> Seq(Entries(Ids))]]
  BY DEF EmptyBook
<1>3. \A s \in Side : Tracked(EmptyBook, s) = {}
  BY <1>1 DEF Tracked
<1>4. NotCrossed(EmptyBook)
  BY <1>3 DEF NotCrossed, Side
<1>5. IdsUnique(EmptyBook)
  <2>1. \A s \in Side, p \in Price : Len(EmptyBook[s][p]) = 0
    BY <1>1
  <2> QED
    BY <2>1 DEF IdsUnique
<1> QED
  BY <1>2, <1>3, <1>4, <1>5 DEF BookOK

LEMMA BookInit == Init => BookInv
<1> SUFFICES ASSUME Init PROVE BookInv
  OBVIOUS
<1>1. ReplayInv /\ VenueOK
  BY ReplayInit, VenueStarts DEF Init
<1>2. RecOK(rec)
  <2>1. DOMAIN rec.seeds = {} /\ rec.book = EmptyBook /\ rec.synthetic_id = SYNTHETIC_ID_BASE
        /\ DOMAIN rec = {"book", "seeds", "synthetic_id", "unexpected_trades"}
    BY DEF Init
  <2> QED
    BY <2>1, EmptyRec, ReplayAssumption DEF RecOK
<1>3. pc = "read" /\ st.messages = 0 /\ agreed = 0 /\ rec.unexpected_trades = 0
      /\ rec.book = EmptyBook
  BY DEF Init
<1> QED
  BY <1>1, <1>2, <1>3 DEF BookInv, RecInv, FeedInv, Working

(* What the same top levels say of the touch.                              *)
LEMMA FirstIsBest ==
  ASSUME NEW b, NEW s, Size(b, s) # 0
  PROVE  /\ PriceAt(b, s, 1) \in Tracked(b, s)
         /\ \A q \in Tracked(b, s) : ~Better(s, q, PriceAt(b, s, 1))
<1>1. Size(b, s) \in Nat /\ 1 \in 1 .. Size(b, s)
  BY TrackedFinite
<1>2. PriceAt(b, s, 1) \in Tracked(b, s) /\ Rank(b, s, PriceAt(b, s, 1)) = 0
  BY <1>1, PriceAtRank
<1>3. ASSUME NEW q \in Tracked(b, s), Better(s, q, PriceAt(b, s, 1)) PROVE FALSE
  <2>1. Rank(b, s, q) < 0 /\ Rank(b, s, q) \in Nat
    BY <1>2, <1>3, RankIsOrder
  <2> QED
    BY <2>1
<1> QED
  BY <1>2, <1>3

LEMMA NoLevels ==
  ASSUME NEW b, NEW s
  PROVE  Size(b, s) = 0 <=> Tracked(b, s) = {}
BY TrackedFinite, FS_EmptySet DEF Size

LEMMA SameTopSameTouch ==
  ASSUME NEW b, NEW c, NEW n \in Nat \ {0},
         \A s \in Side : Depth(b, s, n) = Depth(c, s, n)
  PROVE  BestBid(b) = BestBid(c) /\ BestAsk(b) = BestAsk(c)
<1>1. ASSUME NEW s \in Side
      PROVE  \/ Tracked(b, s) = {} /\ Tracked(c, s) = {}
             \/ \E p \in Price : /\ p \in Tracked(b, s) /\ p \in Tracked(c, s)
                                 /\ \A q \in Tracked(b, s) \cup Tracked(c, s) : ~Better(s, q, p)
  <2>1. DepthLen(b, s, n) = DepthLen(c, s, n)
    BY <1>1, DepthLength
  <2>2. Size(b, s) \in Nat /\ Size(c, s) \in Nat
    BY TrackedFinite
  <2>3. CASE Size(b, s) = 0
    <3>1. Size(c, s) = 0
      BY <2>1, <2>2, <2>3 DEF DepthLen
    <3> QED
      BY <2>3, <3>1, NoLevels
  <2>4. CASE Size(b, s) # 0
    <3>1. Size(c, s) # 0 /\ 1 \in 1 .. DepthLen(b, s, n) /\ 1 \in 1 .. DepthLen(c, s, n)
      BY <2>1, <2>2, <2>4 DEF DepthLen
    <3>2. LevelAt(b, s, 1) = LevelAt(c, s, 1)
      <4>1. Depth(b, s, n)[1] = LevelAt(b, s, 1) /\ Depth(c, s, n)[1] = LevelAt(c, s, 1)
        BY <3>1, DepthFacts
      <4>2. Depth(b, s, n) = Depth(c, s, n)
        OBVIOUS
      <4> QED
        BY <4>1, <4>2
    <3>3. PriceAt(b, s, 1) = PriceAt(c, s, 1)
      <4>1. LevelAt(b, s, 1).price = PriceAt(b, s, 1) /\ LevelAt(c, s, 1).price = PriceAt(c, s, 1)
        BY DEF LevelAt
      <4> QED
        BY <3>2, <4>1
    <3>4. PICK p : p = PriceAt(b, s, 1) /\ p = PriceAt(c, s, 1)
      BY <3>3
    <3>5. p \in Tracked(b, s) /\ p \in Tracked(c, s)
          /\ \A q \in Tracked(b, s) \cup Tracked(c, s) : ~Better(s, q, p)
      BY <2>4, <3>1, <3>4, FirstIsBest
    <3>6. p \in Price
      BY <3>5 DEF Tracked
    <3> QED
      BY <3>5, <3>6
  <2> QED
    BY <2>3, <2>4
<1>2. \A s \in Side, d \in {b, c} : Tracked(d, s) \subseteq Int
  BY BookAssumption DEF Tracked, Price
<1>3. BestBid(b) = BestBid(c)
  <2>1. CASE Tracked(b, "buy") = {} /\ Tracked(c, "buy") = {}
    BY <2>1 DEF BestBid
  <2>2. ASSUME NEW p \in Price, p \in Tracked(b, "buy"), p \in Tracked(c, "buy"),
               \A q \in Tracked(b, "buy") \cup Tracked(c, "buy") : ~Better("buy", q, p)
        PROVE  BestBid(b) = BestBid(c)
    <3>1. p \in Int
      BY BookAssumption DEF Price
    <3>2. ASSUME NEW d \in {b, c} PROVE BestBid(d) = p
      <4>1. /\ BestBid(d) \in Tracked(d, "buy") /\ \A q \in Tracked(d, "buy") : q <= BestBid(d)
        BY <2>2, <3>2, TouchFacts
      <4>2. BestBid(d) \in Int /\ p <= BestBid(d) /\ ~(BestBid(d) > p)
        BY <1>2, <2>2, <3>2, <4>1 DEF Better, Side
      <4> QED
        BY <3>1, <4>2
    <3> QED
      BY <3>2
  <2> QED
    BY <1>1, <2>1, <2>2 DEF Side
<1>4. BestAsk(b) = BestAsk(c)
  <2>1. CASE Tracked(b, "sell") = {} /\ Tracked(c, "sell") = {}
    BY <2>1 DEF BestAsk
  <2>2. ASSUME NEW p \in Price, p \in Tracked(b, "sell"), p \in Tracked(c, "sell"),
               \A q \in Tracked(b, "sell") \cup Tracked(c, "sell") : ~Better("sell", q, p)
        PROVE  BestAsk(b) = BestAsk(c)
    <3>1. p \in Int
      BY BookAssumption DEF Price
    <3>2. ASSUME NEW d \in {b, c} PROVE BestAsk(d) = p
      <4>1. /\ BestAsk(d) \in Tracked(d, "sell") /\ \A q \in Tracked(d, "sell") : BestAsk(d) <= q
        BY <2>2, <3>2, TouchFacts
      <4>2. BestAsk(d) \in Int /\ BestAsk(d) <= p /\ ~(BestAsk(d) < p)
        BY <1>2, <2>2, <3>2, <4>1 DEF Better, Side
      <4> QED
        BY <3>1, <4>2
    <3> QED
      BY <3>2
  <2> QED
    BY <1>1, <2>1, <2>2 DEF Side
<1> QED
  BY <1>3, <1>4

(* A step that works on the message and leaves the venue and what has been *)
(* judged alone keeps the invariant if what it makes of the reconstruction *)
(* is in order and, up to the horizon, trades no more.                     *)
LEMMA WorkStep ==
  ASSUME BookInv, ReplayInv', pc \in Working, pc' \in Working \ {"seed", "apply"},
         UNCHANGED <<venue, arrivals, msg, agreed>>, st'.messages = st.messages, RecOK(rec'),
         agreed = st.messages - 1 /\ rec.unexpected_trades = 0 => rec'.unexpected_trades = 0
  PROVE  BookInv'
<1>1. /\ st.messages \in Nat /\ st.messages > 0 /\ agreed \in Nat /\ agreed <= st.messages - 1
  BY DEF BookInv, ReplayInv, CountersOK, Judgement, JudgedTo
<1>2. RecInv'
  BY <1>1 DEF BookInv, RecInv
<1>3. FeedInv'
  BY DEF BookInv, FeedInv, VenueOK, MessageOK, Working
<1> QED
  BY <1>2, <1>3 DEF BookInv

LEMMA WorkFacts ==
  ASSUME BookInv, pc \in Working
  PROVE  /\ RecOK(rec) /\ PubIsVenue /\ BookOK(venue, VenueIds) /\ MessageOK(msg)
         /\ \A s \in Side : Lists(pub[s])
         /\ st.messages \in Nat /\ st.messages > 0 /\ agreed \in Nat /\ agreed <= st.messages - 1
         /\ agreed = st.messages - 1 => rec.unexpected_trades = 0
<1>1. /\ RecOK(rec) /\ PubIsVenue /\ BookOK(venue, VenueIds) /\ MessageOK(msg)
      /\ st.messages \in Nat /\ st.messages > 0 /\ agreed \in Nat /\ agreed <= st.messages - 1
      /\ agreed = st.messages - 1 => rec.unexpected_trades = 0
  BY DEF BookInv, RecInv, FeedInv, VenueOK, ReplayInv, CountersOK, Judgement, JudgedTo
<1> QED
  BY <1>1, RowFacts

LEMMA SeedKeepsBookInv ==
  ASSUME BookInv, ReplayInv', SeedBook
  PROVE  BookInv'
<1>1. /\ pc = "seed" /\ pc' = "apply" /\ rec' = SeedSide(SeedSide(rec, "buy"), "sell")
      /\ UNCHANGED <<venue, arrivals, msg, pub, agreed, st>>
  BY DEF SeedBook, Go, venueVars
<1>2. pc \in Working
  BY <1>1 DEF Working
<1>3. /\ RecOK(rec) /\ PubIsVenue /\ BookOK(venue, VenueIds) /\ MessageOK(msg)
      /\ \A s \in Side : Lists(pub[s])
      /\ st.messages \in Nat /\ st.messages > 0 /\ agreed \in Nat /\ agreed <= st.messages - 1
  BY <1>2, WorkFacts
<1>4. rec.book = EmptyBook /\ rec.unexpected_trades = 0
  BY <1>1 DEF BookInv, RecInv
<1>5. PICK P : P = [s \in Side |-> Published(s)]
  OBVIOUS
<1>6. Uncrossed(P) /\ \A s \in Side : P[s] = Published(s)
  BY <1>3, <1>5, RowUncrossed
<1>7. Within(rec.book, P)
  BY <1>4, EmptyRec DEF Within
<1>8. \A s \in Side : /\ Lists(SeedLevels(s))
                      /\ \A m \in 1 .. Len(SeedLevels(s)) : SeedLevels(s)[m].price \in P[s]
  <2>1. msg.size \in Int
    BY <1>3 DEF MessageOK
  <2> QED
    BY <1>3, <1>6, <2>1, SeedLevelsFacts
<1>9. PICK x : x = SeedSide(rec, "buy")
  OBVIOUS
<1>10. RecOK(x) /\ Within(x.book, P) /\ x.unexpected_trades = 0
  BY <1>3, <1>4, <1>6, <1>7, <1>8, <1>9, SeedSideRec DEF Side
<1>11. RecOK(rec') /\ Within(rec'.book, P) /\ rec'.unexpected_trades = 0
  <2>1. PICK y : y = SeedSide(x, "sell")
    OBVIOUS
  <2>2. RecOK(y) /\ Within(y.book, P) /\ y.unexpected_trades = 0
    BY <1>6, <1>8, <1>10, <2>1, SeedSideRec DEF Side
  <2> QED
    BY <1>1, <1>9, <2>1, <2>2
<1>12. ASSUME msg.event = "NEW_LIMIT" PROVE Clear(rec'.book, msg.side, msg.price)
  <2>1. PICK s \in Side : s = msg.side
    BY <1>3 DEF MessageOK
  <2>2. msg.price \in Tracked(venue, s) /\ msg.price \in Price
    BY <1>1, <1>3, <1>12, <2>1 DEF BookInv, FeedInv, MessageOK
  <2>3. Clear(venue, s, msg.price)
    BY <1>3, <2>2, JoiningIsClear DEF BookOK
  <2>4. Opposite(s) \in Side
    BY DEF Opposite, Side
  <2>5. Tracked(rec'.book, Opposite(s)) \subseteq Tracked(venue, Opposite(s))
    <3>1. Published(Opposite(s)) \subseteq Tracked(venue, Opposite(s))
      BY <1>3, <2>4, RowFacts
    <3> QED
      BY <1>6, <1>11, <2>4, <3>1 DEF Within
  <2> QED
    BY <2>1, <2>3, <2>5 DEF Clear
<1>13. RecInv'
  BY <1>1, <1>3, <1>11 DEF RecInv
<1>14. FeedInv'
  BY <1>1, <1>2, <1>12 DEF BookInv, FeedInv, VenueOK, MessageOK, Working
<1> QED
  BY <1>13, <1>14 DEF BookInv

(* What the message says of the book, applied.                             *)
LEMMA ApplyKeepsBookInv ==
  ASSUME BookInv, ReplayInv',
         ApplyNewLimit \/ ApplyToOrder \/ ApplyToSeed \/ ApplyUnknown \/ ApplySkipped
  PROVE  BookInv'
<1>1. /\ pc = "apply" /\ pc' \in Working \ {"seed", "apply"}
      /\ UNCHANGED <<venue, arrivals, msg, agreed>>
  BY DEF ApplyNewLimit, ApplyToOrder, ApplyToSeed, ApplyUnknown, ApplySkipped, Applied, Go,
         Working, venueVars
<1>2. pc \in Working
  BY <1>1 DEF Working
<1>3. /\ RecOK(rec) /\ MessageOK(msg)
      /\ agreed = st.messages - 1 => rec.unexpected_trades = 0
  BY <1>2, WorkFacts
<1>3a. {"messages", "first_divergence"} \subseteq DOMAIN st
  BY DEF BookInv, ReplayInv, CountersOK
<1>4. CASE ApplyNewLimit
  <2>1. /\ msg.event = "NEW_LIMIT" /\ st' = st
        /\ rec' = Insert(rec, msg.order_id, msg.side, msg.price, msg.size)
    BY <1>4 DEF ApplyNewLimit
  <2>2. msg.order_id \in 0 .. rec.synthetic_id - 1
    BY <1>3, ReplayAssumption DEF RecOK, MessageOK, VenueIds
  <2>2a. PICK id \in 0 .. rec.synthetic_id - 1, s \in Side, n \in Nat :
           id = msg.order_id /\ s = msg.side /\ n = msg.size
    BY <1>3, <2>2 DEF MessageOK
  <2>3. PICK p : id = msg.order_id /\ s = msg.side /\ n = msg.size /\ p = msg.price
    BY <2>2a
  <2>4. PICK y : y = Insert(rec, id, s, p, n)
    OBVIOUS
  <2>5. RecOK(y) /\ (Clear(rec.book, s, p) /\ rec.unexpected_trades = 0 => y.unexpected_trades = 0)
    BY <1>3, <2>4, InsertRec
  <2>6. agreed = st.messages - 1 => Clear(rec.book, s, p)
    BY <1>1, <2>1, <2>3 DEF BookInv, FeedInv
  <2>7. rec' = y
    BY <2>1, <2>3, <2>4
  <2> QED
    BY <1>1, <1>2, <2>1, <2>5, <2>6, <2>7, WorkStep
<1>5. CASE ApplyToOrder
  <2>1. /\ st' = st
        /\ \/ rec' = [rec EXCEPT !.book = CancelOrder(@, msg.order_id)]
           \/ rec' = [rec EXCEPT !.book = ReduceOrder(@, msg.order_id, msg.size)]
    BY <1>5 DEF ApplyToOrder
  <2>2. msg.size \in Nat
    BY <1>3 DEF MessageOK
  <2>3. RecOK(rec') /\ rec'.unexpected_trades = rec.unexpected_trades
    <3>1. PICK n \in Nat, id \in {msg.order_id} : id = msg.order_id /\ n = msg.size
      BY <2>2
    <3>2. PICK x : x = [rec EXCEPT !.book = CancelOrder(@, id)]
      OBVIOUS
    <3>3. PICK y : y = [rec EXCEPT !.book = ReduceOrder(@, id, n)]
      OBVIOUS
    <3>4. RecOK(x) /\ x.unexpected_trades = rec.unexpected_trades
      BY <1>3, <3>2, CancelRec
    <3>5. RecOK(y) /\ y.unexpected_trades = rec.unexpected_trades
      BY <1>3, <3>3, ReduceRec
    <3>6. rec' = x \/ rec' = y
      BY <2>1, <3>1, <3>2, <3>3
    <3> QED
      BY <3>4, <3>5, <3>6
  <2> QED
    BY <1>1, <1>2, <2>1, <2>3, WorkStep
<1>6. CASE ApplyToSeed
  <2>1. st'.messages = st.messages /\ rec' = AttributeToSeed(rec)
    BY <1>3a, <1>6 DEF ApplyToSeed
  <2>2. msg.size \in Nat
    BY <1>3 DEF MessageOK
  <2>3. PICK x : x = [rec EXCEPT !.book = ReduceOrder(@, rec.seeds[Key], msg.size)]
    OBVIOUS
  <2>4. RecOK(x) /\ x.unexpected_trades = rec.unexpected_trades
    BY <1>3, <2>2, <2>3, ReduceRec
  <2>5. rec' = DropDeadSeed(x, Key)
    BY <2>1, <2>3 DEF AttributeToSeed
  <2>6. RecOK(rec') /\ rec'.unexpected_trades = rec.unexpected_trades
    BY <2>4, <2>5, DropDeadSeedRec
  <2> QED
    BY <1>1, <1>2, <2>1, <2>6, WorkStep
<1>7. CASE ApplyUnknown
  <2>1. st'.messages = st.messages /\ rec' = DropDeadSeed(rec, Key)
    BY <1>3a, <1>7 DEF ApplyUnknown
  <2>2. RecOK(rec') /\ rec'.unexpected_trades = rec.unexpected_trades
    BY <1>3, <2>1, DropDeadSeedRec
  <2> QED
    BY <1>1, <1>2, <2>1, <2>2, WorkStep
<1>8. CASE ApplySkipped
  <2>1. st'.messages = st.messages /\ rec' = rec
    BY <1>3a, <1>8 DEF ApplySkipped
  <2> QED
    BY <1>1, <1>2, <1>3, <2>1, WorkStep
<1> QED
  BY <1>4, <1>5, <1>6, <1>7, <1>8

LEMMA RecoverSidesRec ==
  ASSUME NEW r, RecOK(r), \A s \in Side : Lists(pub[s])
  PROVE  LET t == RecoverSide(RecoverSide(r, "buy"), "sell") IN
         /\ RecOK(t) /\ Keeps(r.book, t.book)
         /\ r.unexpected_trades = 0 => t.unexpected_trades = 0
<1>1. PICK x : x = RecoverSide(r, "buy")
  OBVIOUS
<1>2. /\ RecOK(x) /\ Keeps(r.book, x.book)
      /\ r.unexpected_trades = 0 => x.unexpected_trades = 0
  BY <1>1, RecoverSideRec DEF Side
<1>3. PICK y : y = RecoverSide(x, "sell")
  OBVIOUS
<1>4. /\ RecOK(y) /\ Keeps(x.book, y.book)
      /\ x.unexpected_trades = 0 => y.unexpected_trades = 0
  BY <1>2, <1>3, RecoverSideRec DEF Side
<1>5. Keeps(r.book, y.book)
  BY <1>2, <1>4 DEF Keeps
<1> QED
  BY <1>1, <1>2, <1>3, <1>4, <1>5

LEMMA RepairKeepsBookInv ==
  ASSUME BookInv, ReplayInv', Prune \/ Recover \/ Resync
  PROVE  BookInv'
<1>1. /\ pc \in {"prune", "recover", "resync"} /\ pc' \in Working \ {"seed", "apply"}
      /\ UNCHANGED <<venue, arrivals, msg, agreed>>
  BY DEF Prune, Recover, Resync, Go, Working, venueVars
<1>2. pc \in Working
  BY <1>1 DEF Working
<1>3. /\ RecOK(rec) /\ \A s \in Side : Lists(pub[s])
      /\ agreed = st.messages - 1 => rec.unexpected_trades = 0
  BY <1>2, WorkFacts
<1>4. st'.messages = st.messages
  BY DEF Prune, Recover, Resync, BookInv, ReplayInv, CountersOK
<1>5. CASE Prune
  <2>1. rec' = PrunePhantomLevels(rec)
    BY <1>5 DEF Prune
  <2>2. RecOK(rec') /\ rec'.unexpected_trades = rec.unexpected_trades
    BY <1>3, <2>1, PruneRec
  <2> QED
    BY <1>1, <1>2, <1>4, <2>2, WorkStep
<1>6. CASE Recover
  <2>1. PICK y : y = RecoverSide(RecoverSide(rec, "buy"), "sell") /\ rec' = y
    BY <1>6 DEF Recover
  <2>2. RecOK(y) /\ (rec.unexpected_trades = 0 => y.unexpected_trades = 0)
    BY <1>3, <2>1, RecoverSidesRec
  <2> QED
    BY <1>1, <1>2, <1>4, <2>1, <2>2, WorkStep
<1>7. CASE Resync
  <2>1. PICK x, y : x = ResyncSide(rec, "buy") /\ y = ResyncSide(x, "sell") /\ rec' = y
    BY <1>7 DEF Resync
  <2>2. RecOK(x) /\ (rec.unexpected_trades = 0 => x.unexpected_trades = 0)
    BY <1>3, <2>1, ResyncSideRec DEF Side
  <2>3. RecOK(y) /\ (x.unexpected_trades = 0 => y.unexpected_trades = 0)
    BY <1>3, <2>1, <2>2, ResyncSideRec DEF Side
  <2> QED
    BY <1>1, <1>2, <1>4, <2>1, <2>2, <2>3, WorkStep
<1> QED
  BY <1>5, <1>6, <1>7

LEMMA EmitKeepsBookInv ==
  ASSUME BookInv, ReplayInv', Emit
  PROVE  BookInv'
<1>1. /\ pc = "emit" /\ pc' = "compare" /\ rec' = rec /\ st' = st
      /\ UNCHANGED <<venue, arrivals, msg, agreed>>
  BY DEF Emit, Go, venueVars
<1>2. pc \in Working /\ pc' \in Working \ {"seed", "apply"}
  BY <1>1 DEF Working
<1>3. RecOK(rec)
  BY <1>2, WorkFacts
<1> QED
  BY <1>1, <1>2, <1>3, WorkStep

LEMMA JudgeKeepsBookInv ==
  ASSUME BookInv, ReplayInv', Accept \/ ContinuePast \/ Diverge
  PROVE  BookInv'
<1>1. /\ pc = "compare" /\ pc' \in {"read", "failed"} /\ rec' = rec
      /\ UNCHANGED <<venue, arrivals, msg>>
      /\ agreed' = IF TopAgrees /\ agreed = st.messages - 1 THEN st.messages ELSE agreed
  BY DEF Accept, ContinuePast, Diverge, Judge, Go, venueVars
<1>2. pc \in Working /\ pc' \notin Working
  BY <1>1 DEF Working
<1>3. st'.messages = st.messages
  BY DEF Accept, ContinuePast, Diverge, BookInv, ReplayInv, CountersOK
<1>4. /\ RecOK(rec) /\ PubIsVenue
      /\ st.messages \in Nat /\ st.messages > 0 /\ agreed \in Nat /\ agreed <= st.messages - 1
      /\ agreed = st.messages - 1 => rec.unexpected_trades = 0
  BY <1>2, WorkFacts
<1>5. TopAgrees => SameTouch
  BY ReplayAssumption, SameTopSameTouch DEF TopAgrees, SameTouch
<1>6. RecInv'
  BY <1>1, <1>3, <1>4 DEF RecInv
<1>7. FeedInv'
  <2>1. VenueOK'
    BY <1>1 DEF BookInv, FeedInv, VenueOK
  <2>2. agreed' = st'.messages => SameTouch'
    BY <1>1, <1>3, <1>4, <1>5 DEF SameTouch
  <2> QED
    BY <1>1, <1>2, <1>4, <2>1, <2>2 DEF FeedInv, PubIsVenue
<1> QED
  BY <1>6, <1>7 DEF BookInv

(* Nothing that the venue would rest trades with a book that has the       *)
(* venue's touch.                                                          *)
LEMMA SameTouchSameClear ==
  ASSUME NEW b, NEW c, BestAsk(b) = BestAsk(c), BestBid(b) = BestBid(c),
         NEW s \in Side, NEW p \in Price
  PROVE  Clear(b, s, p) <=> Clear(c, s, p)
<1>1. WouldCross(b, s, p) <=> WouldCross(c, s, p)
  BY DEF WouldCross
<1> QED
  BY <1>1, WouldCrossFacts

LEMMA ReadKeepsBookInv ==
  ASSUME BookInv, ReplayInv', NEW m \in Messages, ReadMessage(m)
  PROVE  BookInv'
<1>1. /\ pc = "read" /\ Happens(m) /\ msg' = m /\ Levels <= FileLevels
      /\ pc' = IF st.messages = 0 THEN "seed" ELSE "apply"
      /\ st' = [st EXCEPT !.messages = @ + 1]
      /\ UNCHANGED <<rec, agreed>>
  BY DEF ReadMessage, Announced, Go
<1>2. /\ st'.messages = st.messages + 1 /\ st.messages \in Nat /\ agreed \in Nat
  BY <1>1 DEF BookInv, ReplayInv, CountersOK
<1>3. VenueOK /\ RecOK(rec) /\ agreed <= st.messages
      /\ (agreed >= st.messages - 1 => rec.unexpected_trades = 0)
      /\ (st.messages = 0 => rec.book = EmptyBook /\ rec.unexpected_trades = 0)
  BY DEF BookInv, FeedInv, RecInv
<1>4. /\ VenueOK' /\ MessageOK(m)
      /\ m.event = "NEW_LIMIT" => /\ m.price \in Tracked(venue', m.side)
                                  /\ Clear(venue, m.side, m.price)
  BY <1>1, <1>3, AfterFacts
<1>5. RecInv'
  BY <1>1, <1>2, <1>3 DEF RecInv
<1>6. ASSUME pc' = "apply", agreed' = st'.messages - 1, msg'.event = "NEW_LIMIT"
      PROVE  Clear(rec'.book, msg'.side, msg'.price)
  <2>1. st.messages > 0 /\ agreed = st.messages
    BY <1>1, <1>2, <1>6
  <2>2. SameTouch
    BY <1>1, <2>1 DEF BookInv, FeedInv
  <2>3. PICK s \in Side, p \in Price : s = m.side /\ p = m.price
    BY <1>4 DEF MessageOK
  <2>4. Clear(venue, s, p)
    BY <1>1, <1>4, <1>6, <2>3
  <2>5. Clear(rec.book, s, p)
    BY <2>2, <2>4, SameTouchSameClear DEF SameTouch
  <2> QED
    BY <1>1, <2>3, <2>5
<1>7. FeedInv'
  <2>1. pc' # "read" /\ MessageOK(msg')
    BY <1>1, <1>4
  <2>2. msg'.event = "NEW_LIMIT" => msg'.price \in Tracked(venue', msg'.side)
    BY <1>1, <1>4
  <2> QED
    BY <1>4, <1>6, <2>1, <2>2 DEF FeedInv, MessageOK
<1> QED
  BY <1>5, <1>7 DEF BookInv

(* Outside the window the venue's touch cannot change.                     *)
LEMMA AloneKeepsBookInv ==
  ASSUME BookInv, ReplayInv', NEW m \in Messages, VenueAlone(m)
  PROVE  BookInv'
<1>1. /\ pc = "read" /\ Happens(m) /\ ~InWindow(m) /\ st.messages > 0
      /\ UNCHANGED <<rec, agreed, pc, st, msg, pub>>
  BY DEF VenueAlone, Unannounced, replayVars
<1>2. VenueOK /\ Levels <= FileLevels
  BY <1>1 DEF BookInv, FeedInv
<1>3. /\ VenueOK' /\ MessageOK(m)
      /\ m \notin OffBook => Elsewhere(venue, venue', m.side, m.price)
  BY <1>1, <1>2, AfterFacts
<1>4. PICK s \in Side, p \in Price : s = m.side /\ p = m.price
  BY <1>3 DEF MessageOK
<1>5. /\ m \notin OffBook
      /\ ~(Cardinality({q \in Tracked(venue, s) : Better(s, q, p)}) < FileLevels)
  BY <1>1, <1>4 DEF InWindow
<1>6. PICK better \in Tracked(venue, s) : Better(s, better, p)
  <2> DEFINE A == {q \in Tracked(venue, s) : Better(s, q, p)}
  <2>1. FileLevels \in Nat /\ Levels \in Nat \ {0}
    BY ReplayAssumption, VenueAssumption
  <2>2. Cardinality(A) # 0
    BY <1>2, <1>5, <2>1
  <2>3. A # {}
    BY <2>2, FS_EmptySet
  <2> QED
    BY <2>3
<1>7. \A t \in Side, q \in Price : t # s \/ q # p =>
        (q \in Tracked(venue, t) <=> q \in Tracked(venue', t))
  BY <1>3, <1>4, <1>5 DEF Elsewhere, Tracked
<1>8. BestBid(venue') = BestBid(venue) /\ BestAsk(venue') = BestAsk(venue)
  <2>1. PICK b, c : b = venue /\ c = venue'
    OBVIOUS
  <2>2. BestBid(c) = BestBid(b) /\ BestAsk(c) = BestAsk(b)
    BY <1>6, <1>7, <2>1, SameBest
  <2>3. BestBid(venue') = BestBid(c) /\ BestAsk(venue') = BestAsk(c)
    BY <2>1
  <2> QED
    BY <2>1, <2>2, <2>3
<1>9. SameTouch => SameTouch'
  BY <1>1, <1>8 DEF SameTouch
<1>10. RecInv'
  BY <1>1 DEF BookInv, RecInv
<1>11. FeedInv'
  BY <1>1, <1>3, <1>9 DEF BookInv, FeedInv, Working
<1> QED
  BY <1>10, <1>11 DEF BookInv

LEMMA StopKeepsBookInv ==
  ASSUME BookInv, ReplayInv', RejectInput \/ EndOfFile \/ UNCHANGED vars
  PROVE  BookInv'
<1>1. CASE RejectInput
  <2>1. PICK n \in {0, 1} : st' = [st EXCEPT !.messages = @ + n]
    BY <1>1 DEF RejectInput
  <2>2. st'.messages = st.messages + n /\ st.messages \in Nat /\ agreed \in Nat
    BY <2>1 DEF BookInv, ReplayInv, CountersOK
  <2>3. /\ pc = "read" /\ pc' = "failed"
        /\ UNCHANGED <<venue, arrivals, msg, agreed, rec>>
    BY <1>1 DEF RejectInput, Go, venueVars
  <2>4. RecInv'
    BY <2>2, <2>3 DEF BookInv, RecInv
  <2>5. FeedInv'
    BY <2>3 DEF BookInv, FeedInv, VenueOK, Working
  <2> QED
    BY <2>4, <2>5 DEF BookInv
<1>2. CASE EndOfFile
  <2>1. /\ pc = "read" /\ pc' \in {"passed", "failed"}
        /\ UNCHANGED <<venue, arrivals, msg, agreed, rec, st>>
    BY <1>2 DEF EndOfFile, Go, venueVars
  <2>2. RecInv'
    BY <2>1 DEF BookInv, RecInv
  <2>3. FeedInv'
    BY <2>1 DEF BookInv, FeedInv, VenueOK, Working
  <2> QED
    BY <2>2, <2>3 DEF BookInv
<1>3. CASE UNCHANGED vars
  <2>1. UNCHANGED <<venue, arrivals, msg, agreed, rec, st, pc>>
    BY <1>3 DEF vars, venueVars, replayVars
  <2> QED
    BY <2>1 DEF BookInv, RecInv, FeedInv, VenueOK, MessageOK, SameTouch
<1> QED
  BY <1>1, <1>2, <1>3

LEMMA BookStep == BookInv /\ [Next]_vars => BookInv'
<1> SUFFICES ASSUME BookInv, [Next]_vars PROVE BookInv'
  OBVIOUS
<1>1. ReplayInv'
  BY ReplayStepInv DEF BookInv
<1>2. CASE UNCHANGED vars
  BY <1>1, <1>2, StopKeepsBookInv
<1>3. ASSUME NEW m \in Messages, ReadMessage(m) \/ VenueAlone(m) PROVE BookInv'
  BY <1>1, <1>3, ReadKeepsBookInv, AloneKeepsBookInv
<1>4. CASE RejectInput \/ EndOfFile
  BY <1>1, <1>4, StopKeepsBookInv
<1>5. CASE ReplayStep
  BY <1>1, <1>5, SeedKeepsBookInv, ApplyKeepsBookInv, RepairKeepsBookInv, EmitKeepsBookInv,
     JudgeKeepsBookInv DEF ReplayStep
<1> QED
  BY <1>2, <1>3, <1>4, <1>5 DEF Next, Running, Returned, Messages

(* The books' inductive invariant.                                         *)
THEOREM BookSafety == Spec => []BookInv
BY BookInit, BookStep, PTL DEF Spec

(* Seeds name stand-ins of ours under their side and price, what rests is  *)
(* never empty, has an id already given out, and no id rests twice; a run  *)
(* has a reason exactly when it failed, and no more messages agreed than   *)
(* were read (LobsterReplay.hpp:182-211, 226-290).                         *)
THEOREM ReplayTypeOK == Spec => []TypeOK
<1>1. BookInv => TypeOK
  <2> SUFFICES ASSUME BookInv PROVE TypeOK
    OBVIOUS
  <2>1. RecOK(rec) /\ agreed <= st.messages /\ CountersOK
    BY DEF BookInv, RecInv, ReplayInv
  <2>2. \A o \in Resting(rec.book) : o.qty > 0 /\ o.id < rec.synthetic_id
    <3> SUFFICES ASSUME NEW o \in Resting(rec.book) PROVE o.qty > 0 /\ o.id < rec.synthetic_id
      OBVIOUS
    <3>1. o.id \in 0 .. rec.synthetic_id - 1 /\ o.qty \in Nat \ {0}
      BY <2>1, RestingLevel DEF RecOK
    <3> QED
      BY <2>1, <3>1 DEF RecOK
  <2>3. \A s, t \in Side, p, q \in Price :
          \A i \in DOMAIN rec.book[s][p], j \in DOMAIN rec.book[t][q] :
            rec.book[s][p][i].id = rec.book[t][q][j].id => s = t /\ p = q /\ i = j
    <3>1. \A s \in Side, p \in Price : DOMAIN rec.book[s][p] = 1 .. Len(rec.book[s][p])
      <4>1. PICK E : rec.book \in [Side -> [Price -> Seq(E)]]
        BY <2>1 DEF RecOK, BookOK
      <4> QED BY <4>1
    <3>2. IdsUnique(rec.book)
      BY <2>1 DEF RecOK, BookOK
    <3> SUFFICES ASSUME NEW s \in Side, NEW t \in Side, NEW p \in Price, NEW q \in Price,
                        NEW i \in DOMAIN rec.book[s][p], NEW j \in DOMAIN rec.book[t][q]
                 PROVE  rec.book[s][p][i].id = rec.book[t][q][j].id => s = t /\ p = q /\ i = j
      OBVIOUS
    <3>3. i \in 1 .. Len(rec.book[s][p]) /\ j \in 1 .. Len(rec.book[t][q])
      BY <3>1
    <3> QED
      BY <3>2, <3>3 DEF IdsUnique
  <2> QED
    BY <2>1, <2>2, <2>3 DEF TypeOK, RecOK, CountersOK, Working
<1> QED
  BY <1>1, BookSafety, PTL

(* A message of the pre-matched stream never makes the engine trade before *)
(* the row that the run diverged at, whatever the options, the repairs and *)
(* the events outside the window (LobsterReplay.hpp:470-474, 684).         *)
THEOREM ReplayNeverTrades == Spec => []NeverTrades
<1>1. BookInv => NeverTrades
  BY DEF BookInv, RecInv, ReplayInv, CountersOK, NeverTrades
<1> QED
  BY <1>1, BookSafety, PTL

(* Pruning and adopting never change a level that both books hold, however *)
(* many levels, orders and messages there are (LobsterReplay.hpp:213-216). *)
THEOREM SizesAreNeverForgiven == Spec => SizesAreNotForgiven
<1>1. BookInv /\ [Next]_vars =>
        [pc = "prune" \/ pc = "recover" =>
           \A s \in Side, p \in Price :
             p \in Published(s) /\ rec.book[s][p] # <<>> => rec.book[s][p] = rec'.book[s][p]]_vars
  <2> SUFFICES ASSUME BookInv, Next, pc = "prune" \/ pc = "recover",
                      NEW s \in Side, NEW p \in Price,
                      p \in Published(s), rec.book[s][p] # <<>>
               PROVE  rec.book[s][p] = rec'.book[s][p]
    OBVIOUS
  <2>1. \/ pc = "prune" /\ rec' = PrunePhantomLevels(rec)
        \/ pc = "recover" /\ rec' = RecoverSide(RecoverSide(rec, "buy"), "sell")
    BY DEF Next, Running, ReplayStep, Returned, ReadMessage, VenueAlone, RejectInput, EndOfFile,
           SeedBook, ApplyNewLimit, ApplyToOrder, ApplyToSeed, ApplyUnknown, ApplySkipped,
           Applied, Prune, Recover, Resync, Emit, Accept, ContinuePast, Diverge, Judge
  <2>2. RecOK(rec) /\ \A t \in Side : Lists(pub[t])
    BY WorkFacts DEF Working
  <2>3. CASE rec' = PrunePhantomLevels(rec)
    BY <2>2, <2>3, PruneRec DEF Doomed
  <2>4. CASE rec' = RecoverSide(RecoverSide(rec, "buy"), "sell")
    <3>1. Keeps(rec.book, rec'.book)
      BY <2>2, <2>4, RecoverSidesRec
    <3> QED
      BY <3>1 DEF Keeps
  <2> QED
    BY <2>1, <2>3, <2>4
<1> QED
  BY <1>1, BookSafety, PTL DEF Spec, SizesAreNotForgiven

-----------------------------------------------------------------------------
(***************************************************************************)
(* The modes that repair.  A resync takes what a level has too much of     *)
(* from the stand-ins before it takes any from the orders the venue told   *)
(* us of.  And after the three repairs, if no level is left that the row   *)
(* rules out, the comparison finds nothing: each listed level is held or   *)
(* the other side stands in its way, but what stands in the way of one     *)
(* would itself be ruled out; what is held has the listed size; so going   *)
(* down the two lists rank by rank they agree.                             *)
(***************************************************************************)

(* The stand-ins of a level followed by the orders the venue told us of    *)
(* are the orders of the level, rearranged.                                *)
Rearranges(u, h, f) ==
  /\ u \in [1 .. Len(h) -> 1 .. Len(f)]
  /\ \A i, j \in 1 .. Len(h) : u[i] = u[j] => i = j
  /\ \A k \in 1 .. Len(f) : \E i \in 1 .. Len(h) : u[i] = k
  /\ \A i \in 1 .. Len(h) : h[i] = f[u[i]]

LEMMA OursThenTold ==
  ASSUME NEW Ids, NEW f \in Seq(Entries(Ids)), NEW a, a = Ours(f), NEW h, h = a \o Told(f)
  PROVE  /\ h \in Seq(Entries(Ids)) /\ Len(a) \in Nat
         /\ \E u : Rearranges(u, h, f)
         /\ \A i \in 1 .. Len(h) : IsSynthetic(h[i].id) <=> i <= Len(a)
<1> DEFINE C == {i \in DOMAIN f : IsSynthetic(f[i].id)}
           D == {i \in DOMAIN f : ~IsSynthetic(f[i].id)}
<1>1. PICK c : c = Told(f)
  OBVIOUS
<1>2. DOMAIN f = 1 .. Len(f) /\ Len(f) \in Nat
  OBVIOUS
<1>3. a = EntriesAt(f, C) /\ c = EntriesAt(f, D)
  BY <1>1 DEF Ours, Told
<1>4. \A i \in 1 .. Len(f) : (i \in C <=> IsSynthetic(f[i].id)) /\ (i \in D <=> i \notin C)
  BY <1>2
<1> HIDE DEF C, D
<1>5. a \in Seq(Entries(Ids)) /\ c \in Seq(Entries(Ids))
  BY <1>3, EntriesAtPositions
<1>6. PICK v, w : Positions(v, a, f, C, Len(f)) /\ Positions(w, c, f, D, Len(f))
  BY <1>3, EntriesAtPositions
<1>7. /\ Len(a) \in Nat /\ Len(c) \in Nat
      /\ h \in Seq(Entries(Ids)) /\ Len(h) = Len(a) + Len(c)
      /\ \A i \in 1 .. Len(h) : h[i] = IF i <= Len(a) THEN a[i] ELSE c[i - Len(a)]
  BY <1>1, <1>5
<1>8. /\ \A i \in 1 .. Len(a) : v[i] \in 1 .. Len(f) /\ v[i] \in C /\ a[i] = f[v[i]]
      /\ \A i \in 1 .. Len(c) : w[i] \in 1 .. Len(f) /\ w[i] \in D /\ c[i] = f[w[i]]
      /\ \A i, j \in 1 .. Len(a) : i < j => v[i] < v[j]
      /\ \A i, j \in 1 .. Len(c) : i < j => w[i] < w[j]
      /\ \A k \in 1 .. Len(f) : k \in C => \E j \in 1 .. Len(a) : v[j] = k
      /\ \A k \in 1 .. Len(f) : k \in D => \E j \in 1 .. Len(c) : w[j] = k
  BY <1>6 DEF Positions
<1> DEFINE u == [i \in 1 .. Len(h) |-> IF i <= Len(a) THEN v[i] ELSE w[i - Len(a)]]
<1>9. ASSUME NEW i \in 1 .. Len(h)
      PROVE  \/ i <= Len(a) /\ i \in 1 .. Len(a) /\ u[i] = v[i] /\ h[i] = a[i]
             \/ ~(i <= Len(a)) /\ i - Len(a) \in 1 .. Len(c) /\ u[i] = w[i - Len(a)]
                               /\ h[i] = c[i - Len(a)]
  <2>1. u[i] = IF i <= Len(a) THEN v[i] ELSE w[i - Len(a)]
    OBVIOUS
  <2> HIDE DEF u
  <2>2. h[i] = IF i <= Len(a) THEN a[i] ELSE c[i - Len(a)]
    BY <1>7
  <2>3. IF i <= Len(a) THEN i \in 1 .. Len(a) ELSE i - Len(a) \in 1 .. Len(c)
    BY <1>7
  <2> QED
    BY <2>1, <2>2, <2>3
<1>10. ASSUME NEW i \in 1 .. Len(h)
       PROVE  /\ u[i] \in 1 .. Len(f) /\ h[i] = f[u[i]]
              /\ u[i] \in C <=> i <= Len(a)
              /\ IsSynthetic(h[i].id) <=> i <= Len(a)
  <2> HIDE DEF u
  <2>1. CASE i <= Len(a)
    <3>1. i \in 1 .. Len(a) /\ u[i] = v[i] /\ h[i] = a[i]
      BY <1>9, <2>1
    <3>2. v[i] \in 1 .. Len(f) /\ v[i] \in C /\ a[i] = f[v[i]]
      BY <1>8, <3>1
    <3> QED
      BY <1>4, <2>1, <3>1, <3>2
  <2>2. CASE ~(i <= Len(a))
    <3>1. PICK x \in 1 .. Len(c) : u[i] = w[x] /\ h[i] = c[x]
      BY <1>9, <2>2
    <3>2. w[x] \in 1 .. Len(f) /\ w[x] \in D /\ c[x] = f[w[x]]
      BY <1>8
    <3> QED
      BY <1>4, <2>2, <3>1, <3>2
  <2> QED
    BY <2>1, <2>2
<1>11. ASSUME NEW i \in 1 .. Len(h), NEW j \in 1 .. Len(h), u[i] = u[j] PROVE i = j
  <2> HIDE DEF u
  <2>1. (i <= Len(a)) <=> (j <= Len(a))
    BY <1>10, <1>11
  <2>2. CASE i <= Len(a)
    <3>1. i \in 1 .. Len(a) /\ j \in 1 .. Len(a) /\ v[i] = v[j]
      BY <1>9, <1>11, <2>1, <2>2
    <3>2. v[i] \in 1 .. Len(f) /\ ~(i < j) /\ ~(j < i)
      BY <1>8, <3>1
    <3> QED
      BY <3>2
  <2>3. CASE ~(i <= Len(a))
    <3>0. PICK x, y : x = i - Len(a) /\ y = j - Len(a)
      OBVIOUS
    <3>1. x \in 1 .. Len(c) /\ y \in 1 .. Len(c) /\ w[x] = w[y]
      BY <1>9, <1>11, <2>1, <2>3, <3>0
    <3>2. w[x] \in 1 .. Len(f) /\ ~(x < y) /\ ~(y < x)
      BY <1>8, <3>1
    <3> QED
      BY <1>7, <3>0, <3>1, <3>2
  <2> QED
    BY <2>2, <2>3
<1>12. ASSUME NEW k \in 1 .. Len(f) PROVE \E i \in 1 .. Len(h) : u[i] = k
  <2>1. CASE k \in C
    <3>1. PICK j \in 1 .. Len(a) : v[j] = k
      BY <1>8, <2>1
    <3>2. j \in 1 .. Len(h) /\ j <= Len(a)
      BY <1>7
    <3> QED
      BY <3>1, <3>2
  <2>2. CASE k \in D
    <3>1. PICK j \in 1 .. Len(c) : w[j] = k
      BY <1>8, <2>2
    <3>2. PICK i \in 1 .. Len(h) : i = j + Len(a) /\ ~(i <= Len(a)) /\ i - Len(a) = j
      BY <1>7
    <3> QED
      BY <3>1, <3>2
  <2> QED
    BY <1>4, <2>1, <2>2
<1>13. u \in [1 .. Len(h) -> 1 .. Len(f)]
  <2>1. \A i \in 1 .. Len(h) : u[i] \in 1 .. Len(f)
    BY <1>10
  <2> QED
    BY <2>1
<1> HIDE DEF u
<1>14. Rearranges(u, h, f)
  BY <1>10, <1>11, <1>12, <1>13 DEF Rearranges
<1> QED
  BY <1>7, <1>10, <1>14

(* What a level keeps of a retirement is what taking from its stand-ins    *)
(* first leaves of them all, rearranged.                                   *)
LEMMA RetireIsLeft ==
  ASSUME NEW Ids, NEW f \in Seq(Entries(Ids)), NEW n \in Nat,
         \A i, j \in 1 .. Len(f) : f[i].id = f[j].id => i = j,
         NEW left, left = TakeFront(Ours(f) \o Told(f), n)
  PROVE  /\ left \in Seq(Entries(Ids))
         /\ \E u : Rearranges(u, Retire(f, n), left)
<1> DEFINE at(x) == {j \in DOMAIN left : left[j].id = x.id}
           K == {i \in DOMAIN f : at(f[i]) # {}}
           kept == EntriesAt(f, K)
           g == Retire(f, n)
<1>1. DOMAIN f = 1 .. Len(f) /\ Len(f) \in Nat
  OBVIOUS
<1>2. PICK h : h = Ours(f) \o Told(f)
  OBVIOUS
<1>3. h \in Seq(Entries(Ids)) /\ \E r : Rearranges(r, h, f)
  BY <1>2, OursThenTold
<1>4. PICK r : Rearranges(r, h, f)
  BY <1>3
<1>5. left \in Seq(Entries(Ids)) /\ Thins(left, h)
  BY <1>2, <1>3, TakeFrontThins
<1>6. DOMAIN left = 1 .. Len(left) /\ Len(left) \in Nat
  BY <1>5
<1>7. PICK z \in [1 .. Len(left) -> 1 .. Len(h)] :
         /\ \A j \in 1 .. Len(left) : left[j].id = h[z[j]].id
         /\ \A i, j \in 1 .. Len(left) : i < j => z[i] < z[j]
  BY <1>5 DEF Thins
<1>8. ASSUME NEW j \in 1 .. Len(left)
      PROVE  /\ z[j] \in 1 .. Len(h) /\ r[z[j]] \in 1 .. Len(f)
             /\ left[j].id = f[r[z[j]]].id
  BY <1>4, <1>7 DEF Rearranges
<1>9. ASSUME NEW i \in 1 .. Len(left), NEW j \in 1 .. Len(left), left[i].id = left[j].id
      PROVE  i = j
  <2>0. PICK x, y : x = r[z[i]] /\ y = r[z[j]]
    OBVIOUS
  <2>0a. x \in 1 .. Len(f) /\ y \in 1 .. Len(f) /\ f[x].id = f[y].id
    BY <1>8, <1>9, <2>0
  <2>1. r[z[i]] = r[z[j]]
    BY <2>0, <2>0a
  <2>2. z[i] = z[j] /\ z[i] \in 1 .. Len(h)
    BY <1>4, <1>8, <2>1 DEF Rearranges
  <2>3. ~(i < j) /\ ~(j < i)
    BY <1>3, <1>7, <2>2
  <2> QED
    BY <2>3
<1>10. PICK w : kept \in Seq(Entries(Ids)) /\ Positions(w, kept, f, K, Len(f))
  <2> HIDE DEF K
  <2> QED
    BY EntriesAtPositions
<1>11. g = [i \in DOMAIN kept |-> left[CHOOSE j \in at(kept[i]) : TRUE]]
  BY DEF Retire
<1> DEFINE u == [i \in 1 .. Len(kept) |-> CHOOSE j \in at(kept[i]) : TRUE]
<1> HIDE DEF kept, g
<1>12. DOMAIN kept = 1 .. Len(kept) /\ Len(kept) \in Nat
  BY <1>10
<1>13. ASSUME NEW i \in 1 .. Len(kept)
       PROVE  /\ w[i] \in 1 .. Len(f) /\ kept[i] = f[w[i]]
              /\ u[i] \in 1 .. Len(left) /\ left[u[i]].id = f[w[i]].id
              /\ g[i] = left[u[i]]
  <2>1. kept[i] = f[w[i]] /\ w[i] \in K /\ w[i] \in 1 .. Len(f)
    <3> HIDE DEF K
    <3> QED
      BY <1>10 DEF Positions
  <2>2. at(kept[i]) # {}
    BY <2>1
  <2>3. u[i] = CHOOSE y \in at(kept[i]) : TRUE
    <3> HIDE DEF at
    <3> QED
      OBVIOUS
  <2>4. u[i] \in at(kept[i])
    <3> HIDE DEF at, u
    <3> QED
      BY <2>2, <2>3
  <2>5. u[i] \in 1 .. Len(left) /\ left[u[i]].id = f[w[i]].id
    <3> HIDE DEF u
    <3> QED
      BY <1>6, <2>1, <2>4
  <2>6. g[i] = left[u[i]]
    <3> HIDE DEF at, u
    <3> QED
      BY <1>11, <1>12, <2>3
  <2> QED
    BY <2>1, <2>5, <2>6
<1>13a. u \in [1 .. Len(kept) -> 1 .. Len(left)]
  <2>1. \A i \in 1 .. Len(kept) : u[i] \in 1 .. Len(left)
    BY <1>13
  <2> HIDE DEF at
  <2> QED
    BY <2>1
<1>14. Len(g) = Len(kept)
  <2>1. DOMAIN g = 1 .. Len(kept) /\ g = [i \in 1 .. Len(kept) |-> g[i]]
    <3> HIDE DEF at
    <3> QED
      BY <1>11, <1>12
  <2>2. \A i \in 1 .. Len(kept) : g[i] \in Entries(Ids)
    <3>1. \A j \in 1 .. Len(left) : left[j] \in Entries(Ids)
      BY <1>5
    <3> HIDE DEF u
    <3> QED
      BY <1>13, <3>1
  <2> QED
    BY <1>12, <2>1, <2>2
<1>15. ASSUME NEW j \in 1 .. Len(left) PROVE \E i \in 1 .. Len(kept) : u[i] = j
  <2>1. PICK k \in 1 .. Len(f) : left[j].id = f[k].id
    BY <1>8
  <2>2. k \in K
    BY <1>1, <1>6, <2>1
  <2>3. PICK i \in 1 .. Len(kept) : w[i] = k
    <3> HIDE DEF K
    <3> QED
      BY <1>10, <2>2 DEF Positions
  <2>4. left[u[i]].id = left[j].id /\ u[i] \in 1 .. Len(left)
    <3> HIDE DEF u
    <3> QED
      BY <1>13, <2>1, <2>3
  <2> HIDE DEF u
  <2> QED
    BY <1>9, <2>4
<1>16. ASSUME NEW i \in 1 .. Len(kept), NEW j \in 1 .. Len(kept), u[i] = u[j] PROVE i = j
  <2> HIDE DEF u
  <2>0. PICK x, y : x = w[i] /\ y = w[j]
    OBVIOUS
  <2>0a. x \in 1 .. Len(f) /\ y \in 1 .. Len(f) /\ f[x].id = f[y].id
    <3>1. left[u[i]] = left[u[j]]
      BY <1>16
    <3>2. /\ x \in 1 .. Len(f) /\ y \in 1 .. Len(f)
          /\ left[u[i]].id = f[x].id /\ left[u[j]].id = f[y].id
      BY <1>13, <2>0
    <3> QED
      BY <3>1, <3>2
  <2>1. w[i] = w[j] /\ w[i] \in 1 .. Len(f)
    BY <2>0, <2>0a
  <2>2. ~(i < j) /\ ~(j < i)
    <3>1. \A k, l \in 1 .. Len(kept) : k < l => w[k] < w[l]
      BY <1>10 DEF Positions
    <3> QED
      BY <2>1, <3>1
  <2> QED
    BY <2>2
<1> HIDE DEF u
<1>17. Rearranges(u, g, left)
  BY <1>13, <1>13a, <1>14, <1>15, <1>16 DEF Rearranges
<1> QED
  BY <1>5, <1>17 DEF g

(* A retirement takes exactly the excess, and from an order that the venue *)
(* told us of only when no stand-in is left at the level.                  *)
HasNoLess(g, x) == \E j \in 1 .. Len(g) : g[j].id = x.id /\ g[j].qty >= x.qty

Spares(g, f) ==
  (\E i \in 1 .. Len(f) : ~IsSynthetic(f[i].id) /\ ~HasNoLess(g, f[i]))
    => \A j \in 1 .. Len(g) : ~IsSynthetic(g[j].id)

LEMMA RetireSpares ==
  ASSUME NEW Ids, NEW f \in Seq(Entries(Ids)), NEW n \in Nat, n < Volume(f),
         \A i, j \in 1 .. Len(f) : f[i].id = f[j].id => i = j,
         NEW g, g = Retire(f, n)
  PROVE  Volume(g) = Volume(f) - n /\ Spares(g, f)
<1>1. PICK a, h, left : a = Ours(f) /\ h = a \o Told(f) /\ left = TakeFront(h, n)
  OBVIOUS
<1>2. /\ h \in Seq(Entries(Ids)) /\ Len(a) \in Nat
      /\ \A i \in 1 .. Len(h) : IsSynthetic(h[i].id) <=> i <= Len(a)
  BY <1>1, OursThenTold
<1>3. PICK r : Rearranges(r, h, f)
  BY <1>1, OursThenTold
<1>4. left = TakeFront(Ours(f) \o Told(f), n)
  BY <1>1
<1>5. left \in Seq(Entries(Ids)) /\ \E u : Rearranges(u, g, left)
  BY <1>4, RetireIsLeft
<1>6. PICK u : Rearranges(u, g, left)
  BY <1>5
<1>6a. g \in Seq(Entries(Ids))
  BY RetireThins
<1>7. Volume(h) = Volume(f)
  <2>1. /\ r \in [1 .. Len(h) -> 1 .. Len(f)]
        /\ \A i, j \in 1 .. Len(h) : r[i] = r[j] => i = j
        /\ \A x \in 1 .. Len(f) : \E i \in 1 .. Len(h) : r[i] = x
        /\ \A i \in 1 .. Len(h) : h[i].qty = f[r[i]].qty
    BY <1>3 DEF Rearranges
  <2> QED
    BY <1>2, <2>1, VolumePermuted
<1>8. PICK k : TakenFrom(left, h, n, k)
  BY <1>1, <1>2, <1>7, TakeFrontFacts
<1>9. Volume(g) = Volume(f) - n
  <2>1. Volume(left) = Volume(h) - n
    BY <1>2, <1>5, <1>8, VolumeTaken
  <2>2. Volume(g) = Volume(left)
    <3>1. /\ u \in [1 .. Len(g) -> 1 .. Len(left)]
          /\ \A i, j \in 1 .. Len(g) : u[i] = u[j] => i = j
          /\ \A x \in 1 .. Len(left) : \E i \in 1 .. Len(g) : u[i] = x
          /\ \A i \in 1 .. Len(g) : g[i].qty = left[u[i]].qty
      BY <1>6 DEF Rearranges
    <3> QED
      BY <1>5, <1>6a, <3>1, VolumePermuted
  <2> QED
    BY <1>7, <2>1, <2>2
<1>10. /\ k \in 1 .. Len(h) /\ Len(left) = Len(h) - k + 1 /\ Len(h) \in Nat
       /\ left[1].id = h[k].id
       /\ \A i \in 2 .. Len(left) : left[i] = h[i + k - 1]
  BY <1>2, <1>8 DEF TakenFrom
<1>11. CASE k <= Len(a)
  <2>1. ASSUME NEW i \in 1 .. Len(f), ~IsSynthetic(f[i].id) PROVE HasNoLess(g, f[i])
    <3>1. PICK m \in 1 .. Len(h) : r[m] = i /\ h[m] = f[i]
      BY <1>3 DEF Rearranges
    <3>2. m > k
      BY <1>2, <1>10, <1>11, <2>1, <3>1
    <3>3. PICK y \in 2 .. Len(left) : y = m - k + 1 /\ y + k - 1 = m
      BY <1>10, <3>2
    <3>4. left[y] = f[i] /\ y \in 1 .. Len(left)
      BY <1>10, <3>1, <3>3
    <3>5. PICK j \in 1 .. Len(g) : u[j] = y
      BY <1>6, <3>4 DEF Rearranges
    <3>6. g[j] = f[i]
      BY <1>6, <3>4, <3>5 DEF Rearranges
    <3>7. PICK x : x = f[i]
      OBVIOUS
    <3>8. x.qty \in Nat
      BY <3>7, FifoShares
    <3>9. HasNoLess(g, x)
      BY <3>6, <3>7, <3>8 DEF HasNoLess
    <3> QED
      BY <3>7, <3>9
  <2> QED
    BY <1>9, <2>1 DEF Spares
<1>12. CASE ~(k <= Len(a))
  <2>1. ASSUME NEW y \in 1 .. Len(left) PROVE ~IsSynthetic(left[y].id)
    <3>1. PICK m : m = y + k - 1
      OBVIOUS
    <3>2. /\ m \in 1 .. Len(h) /\ ~(m <= Len(a))
          /\ y = 1 => m = k
          /\ y # 1 => y \in 2 .. Len(left)
      BY <1>2, <1>10, <1>12, <3>1
    <3>3. left[y].id = h[m].id
      BY <1>10, <3>1, <3>2
    <3> QED
      BY <1>2, <3>2, <3>3
  <2>2. \A j \in 1 .. Len(g) : u[j] \in 1 .. Len(left) /\ g[j] = left[u[j]]
    BY <1>6 DEF Rearranges
  <2> QED
    BY <1>9, <2>1, <2>2 DEF Spares
<1> QED
  BY <1>11, <1>12

(* What a resync makes of a level that the row shows with the size v: an   *)
(* empty one is left alone, any other gets that size.                      *)
Resynced(f, g, v) ==
  /\ f = <<>> => g = <<>>
  /\ f # <<>> => g # <<>> /\ Volume(g) = v
  /\ Spares(g, f)

LEMMA LevelResynced ==
  ASSUME NEW r, RecOK(r), NEW s \in Side, NEW l \in Listed, NEW t, t = ResyncLevel(r, s, l)
  PROVE  Resynced(r.book[s][l.price], t.book[s][l.price], l.volume)
<1> DEFINE Ids == 0 .. r.synthetic_id - 1
           More == 0 .. t.synthetic_id - 1
<1>1. PICK p \in Price, v \in Nat \ {0} : p = l.price /\ v = l.volume
  BY DEF Listed
<1>2. ResyncLevelFacts(r, s, l, t)
  BY ResyncLevelRec
<1>3. RecOK(t)
  BY <1>2 DEF ResyncLevelFacts
<1>4. PICK f, g, d : f = r.book[s][p] /\ g = t.book[s][p] /\ d = Drift(r.book, s, l)
  OBVIOUS
<1>5. f \in Seq(Entries(Ids)) /\ g \in Seq(Entries(More))
  BY <1>3, <1>4 DEF RecOK, BookOK
<1>6. \A i, j \in 1 .. Len(f) : f[i].id = f[j].id => i = j
  BY <1>1, <1>4 DEF RecOK, BookOK, IdsUnique
<1>7. /\ Volume(f) \in Nat /\ d = v - Volume(f)
      /\ f = <<>> <=> Volume(f) = 0
  <2>1. Volume(f) \in Nat /\ (f = <<>> <=> Volume(f) = 0)
    BY <1>5, FifoShares
  <2>2. d = v - Volume(f)
    BY <1>1, <1>4 DEF Drift
  <2> QED
    BY <2>1, <2>2
<1>7a. Volume(g) \in Nat /\ (g = <<>> <=> Volume(g) = 0)
  BY <1>5, FifoShares
<1>8. SUFFICES Resynced(f, g, v)
  BY <1>1, <1>4
<1>9. CASE f = <<>>
  <2>1. g = <<>>
    BY <1>1, <1>2, <1>4, <1>9 DEF ResyncLevelFacts
  <2> QED
    BY <1>9, <2>1 DEF Resynced, Spares
<1>10. ASSUME g = f, d = 0 PROVE Resynced(f, g, v)
  <2>1. Volume(g) = v
    BY <1>7, <1>10
  <2>2. g = <<>> <=> f = <<>>
    BY <1>10
  <2>3. ASSUME NEW i \in 1 .. Len(f) PROVE HasNoLess(g, f[i])
    <3>1. PICK x : x = f[i]
      OBVIOUS
    <3>2. x.qty \in Nat /\ g[i] = x /\ i \in 1 .. Len(g)
      BY <1>5, <1>10, <3>1, FifoShares
    <3> QED
      BY <3>1, <3>2 DEF HasNoLess
  <2> QED
    BY <2>1, <2>2, <2>3 DEF Resynced, Spares
<1>11. ASSUME f # <<>>, NEW x, x = [id |-> r.synthetic_id, qty |-> d], g = Append(f, x)
       PROVE  Resynced(f, g, v)
  <2>1. /\ Len(f) \in Nat /\ Len(g) = Len(f) + 1 /\ g[Len(f) + 1] = x
        /\ \A i \in 1 .. Len(f) : g[i] = f[i] /\ i \in 1 .. Len(g)
    BY <1>5, <1>11
  <2>2. x \in Entries(More) /\ \A i \in 1 .. Len(f) : f[i] \in Entries(More)
    <3>1. \A i \in 1 .. Len(g) : g[i] \in Entries(More)
      BY <1>5
    <3>2. Len(f) + 1 \in 1 .. Len(g)
      BY <2>1
    <3> QED
      BY <2>1, <3>1, <3>2
  <2>3. f \in Seq(Entries(More))
    <3>1. f = [i \in 1 .. Len(f) |-> f[i]]
      BY <1>5
    <3> QED
      BY <2>1, <2>2, <3>1
  <2>4. Volume(g) = Volume(f) + d
    BY <1>11, <2>2, <2>3, VolumeAppend
  <2>5. Volume(g) = v /\ g # <<>>
    <3>1. d \in Int
      BY <1>7
    <3> QED
      BY <1>7, <1>7a, <2>4, <3>1
  <2>6. ASSUME NEW i \in 1 .. Len(f) PROVE HasNoLess(g, f[i])
    <3>1. PICK y : y = f[i]
      OBVIOUS
    <3>2. y.qty \in Nat /\ g[i] = y /\ i \in 1 .. Len(g)
      BY <1>5, <2>1, <3>1, FifoShares
    <3> QED
      BY <3>1, <3>2 DEF HasNoLess
  <2> QED
    BY <1>11, <2>5, <2>6 DEF Resynced, Spares
<1>12. ASSUME f # <<>>, d < 0, g = Retire(f, -d) PROVE Resynced(f, g, v)
  <2>1. PICK n \in Nat : n = -d /\ n < Volume(f) /\ Volume(f) - n = v
    <3>1. -d \in Nat /\ -d < Volume(f) /\ Volume(f) - (-d) = v
      BY <1>7, <1>12
    <3> QED
      BY <3>1
  <2>2. Volume(g) = v /\ Spares(g, f)
    BY <1>5, <1>6, <1>12, <2>1, RetireSpares
  <2> QED
    BY <1>7a, <1>12, <2>2 DEF Resynced
<1>13. \/ f = <<>>
       \/ g = f /\ d = 0
       \/ f # <<>> /\ g = Append(f, [id |-> r.synthetic_id, qty |-> d])
       \/ f # <<>> /\ d < 0 /\ g = Retire(f, -d)
  <2>1. d \in Int
    BY <1>7
  <2> QED
    BY <1>1, <1>2, <1>4, <2>1 DEF ResyncLevelFacts
<1> QED
  BY <1>9, <1>10, <1>11, <1>12, <1>13

\* The prices that a resync looks at, and what it makes of a side.
Visible(s) == {Window(s)[m].price : m \in 1 .. Len(Window(s))}

Corrected(b, c, s) ==
  /\ \A p \in Price : p \notin Visible(s) => c[s][p] = b[s][p]
  /\ \A m \in 1 .. Len(Window(s)) :
       Resynced(b[s][Window(s)[m].price], c[s][Window(s)[m].price], Window(s)[m].volume)

PricesDiffer(levels) ==
  \A i, j \in 1 .. Len(levels) : levels[i].price = levels[j].price => i = j

(* A resync of a side corrects each of its levels once.                    *)
LEMMA SideResynced ==
  ASSUME NEW r, RecOK(r), NEW s \in Side, Lists(pub[s]), PricesDiffer(Window(s)),
         NEW t, t = ResyncSide(r, s)
  PROVE  /\ Corrected(r.book, t.book, s)
         /\ \A u \in Side, p \in Price : u # s => t.book[u][p] = r.book[u][p]
<1> DEFINE L == Len(Window(s))
           P(m) == Window(s)[m].price
           V(m) == Window(s)[m].volume
<1>1. L \in Nat /\ \A m \in 1 .. L : Window(s)[m] \in Listed
  BY WindowFacts, ListsFacts
<1>2. PICK f : ResyncingRun(f, r, s)
  BY <1>1, ResyncSideSteps
<1>3. /\ f[0] = r
      /\ \A m \in 1 .. L : f[m] = ResyncLevel(f[m - 1], s, Window(s)[m])
      /\ t = f[L]
  BY <1>2 DEF ResyncingRun
<1> DEFINE Kept(x, n) == \A u \in Side, p \in Price :
                           u # s \/ (\A k \in 1 .. n : p # P(k)) => x.book[u][p] = r.book[u][p]
           Done(x, n) == \A k \in 1 .. n : Resynced(r.book[s][P(k)], x.book[s][P(k)], V(k))
           G == {n \in Nat : n <= L => RecOK(f[n]) /\ Kept(f[n], n) /\ Done(f[n], n)}
<1>4. 0 \in G
  BY <1>3
<1>5. ASSUME NEW n \in Nat, n \in G PROVE n + 1 \in G
  <2> SUFFICES ASSUME n + 1 <= L
               PROVE  RecOK(f[n + 1]) /\ Kept(f[n + 1], n + 1) /\ Done(f[n + 1], n + 1)
    OBVIOUS
  <2>1. /\ RecOK(f[n]) /\ Kept(f[n], n) /\ Done(f[n], n)
        /\ n + 1 \in 1 .. L /\ n + 1 - 1 = n /\ \A k \in 1 .. n : k \in 1 .. L /\ k # n + 1
    BY <1>1, <1>5
  <2>2. PICK x, y, l : x = f[n] /\ y = f[n + 1] /\ l = Window(s)[n + 1]
    OBVIOUS
  <2>3. y = ResyncLevel(x, s, l) /\ l \in Listed /\ RecOK(x)
    BY <1>1, <1>3, <2>1, <2>2
  <2>4. ResyncLevelFacts(x, s, l, y)
    BY <2>3, ResyncLevelRec
  <2>5. RecOK(y) /\ Elsewhere(x.book, y.book, s, l.price)
    BY <2>4 DEF ResyncLevelFacts
  <2>6. Resynced(x.book[s][l.price], y.book[s][l.price], l.volume)
    BY <2>3, LevelResynced
  <2>7. l.price \in Price /\ l.price = P(n + 1) /\ l.volume = V(n + 1)
    BY <2>2, <2>3 DEF Listed
  <2>8. \A k \in 1 .. n : P(k) # l.price /\ P(k) \in Price
    BY <1>1, <2>1, <2>2 DEF PricesDiffer, Listed
  <2>8a. Kept(x, n) /\ Done(x, n)
    BY <2>1, <2>2
  <2>9. Kept(y, n + 1)
    <3> SUFFICES ASSUME NEW u \in Side, NEW p \in Price, u # s \/ \A k \in 1 .. n + 1 : p # P(k)
                 PROVE  y.book[u][p] = r.book[u][p]
      OBVIOUS
    <3>1. u # s \/ (p # l.price /\ \A k \in 1 .. n : p # P(k))
      BY <2>7
    <3>2. y.book[u][p] = x.book[u][p]
      BY <2>5, <3>1 DEF Elsewhere
    <3>3. x.book[u][p] = r.book[u][p]
      BY <2>8a, <3>1
    <3> QED
      BY <3>2, <3>3
  <2>10. Done(y, n + 1)
    <3> SUFFICES ASSUME NEW k \in 1 .. n + 1
                 PROVE  Resynced(r.book[s][P(k)], y.book[s][P(k)], V(k))
      OBVIOUS
    <3>1. CASE k = n + 1
      <4>1. x.book[s][l.price] = r.book[s][l.price]
        BY <2>7, <2>8, <2>8a
      <4> QED
        BY <2>6, <2>7, <3>1, <4>1
    <3>2. CASE k \in 1 .. n
      <4>1. y.book[s][P(k)] = x.book[s][P(k)]
        BY <2>5, <2>8, <3>2 DEF Elsewhere
      <4>2. Resynced(r.book[s][P(k)], x.book[s][P(k)], V(k))
        BY <2>8a, <3>2
      <4> QED
        BY <4>1, <4>2
    <3> QED
      BY <3>1, <3>2
  <2> QED
    BY <2>2, <2>5, <2>9, <2>10
<1> HIDE DEF G
<1>6. \A n \in Nat : n \in G
  BY <1>4, <1>5, NumberInduction
<1>7. Kept(t, L) /\ Done(t, L)
  BY <1>1, <1>3, <1>6 DEF G
<1>8. \A p \in Price : p \notin Visible(s) => \A k \in 1 .. L : p # P(k)
  BY DEF Visible
<1> QED
  BY <1>7, <1>8 DEF Corrected

(* No price is listed twice in a row.                                      *)
LEMMA RowPricesDiffer ==
  ASSUME PubIsVenue, BookOK(venue, VenueIds), NEW s \in Side
  PROVE  PricesDiffer(pub[s]) /\ PricesDiffer(Window(s))
<1>1. /\ Lists(pub[s]) /\ Len(pub[s]) = DepthLen(venue, s, FileLevels)
      /\ \A m \in 1 .. Len(pub[s]) : pub[s][m].price = PriceAt(venue, s, m)
  BY RowFacts
<1>2. Len(pub[s]) <= Size(venue, s) /\ Len(pub[s]) \in Nat
  <2>1. Size(venue, s) \in Nat /\ FileLevels \in Nat
    BY TrackedFinite, VenueAssumption
  <2> QED
    BY <1>1, <2>1 DEF DepthLen
<1>3. PricesDiffer(pub[s])
  <2>1. ASSUME NEW m \in 1 .. Len(pub[s]) PROVE Rank(venue, s, pub[s][m].price) = m - 1
    <3>1. m \in 1 .. Size(venue, s)
      BY <1>2, TrackedFinite
    <3> QED
      BY <1>1, <3>1, PriceAtRank
  <2>2. ASSUME NEW i \in 1 .. Len(pub[s]), NEW j \in 1 .. Len(pub[s]),
               pub[s][i].price = pub[s][j].price
        PROVE  i = j
    <3>1. i - 1 = j - 1
      BY <2>1, <2>2
    <3> QED
      BY <3>1
  <2> QED
    BY <2>2 DEF PricesDiffer
<1>4. \A m \in 1 .. Len(Window(s)) : Window(s)[m] = pub[s][m] /\ m \in 1 .. Len(pub[s])
  BY <1>1, WindowFacts
<1> QED
  BY <1>3, <1>4 DEF PricesDiffer

(* A resync corrects every level that is compared and no other.            *)
LEMMA SidesResynced ==
  ASSUME NEW r, RecOK(r), \A s \in Side : Lists(pub[s]) /\ PricesDiffer(Window(s)),
         NEW t, t = ResyncSide(ResyncSide(r, "buy"), "sell")
  PROVE  RecOK(t) /\ \A s \in Side : Corrected(r.book, t.book, s)
<1>1. PICK x : x = ResyncSide(r, "buy")
  OBVIOUS
<1>2. /\ RecOK(x) /\ Corrected(r.book, x.book, "buy")
      /\ \A p \in Price : x.book["sell"][p] = r.book["sell"][p]
  BY <1>1, ResyncSideRec, SideResynced DEF Side
<1>3. t = ResyncSide(x, "sell")
  BY <1>1
<1>4. /\ RecOK(t) /\ Corrected(x.book, t.book, "sell")
      /\ \A p \in Price : t.book["buy"][p] = x.book["buy"][p]
  BY <1>2, <1>3, ResyncSideRec, SideResynced DEF Side
<1>5. ASSUME NEW s \in Side, NEW m \in 1 .. Len(Window(s)) PROVE Window(s)[m].price \in Price
  BY WindowFacts, ListsFacts DEF Listed
<1>6. Corrected(r.book, t.book, "buy")
  BY <1>2, <1>4, <1>5 DEF Corrected, Side
<1>7. Corrected(r.book, t.book, "sell")
  BY <1>2, <1>4, <1>5 DEF Corrected, Side
<1> QED
  BY <1>4, <1>6, <1>7 DEF Side

(* What a resync does to a level, as what it makes of the queue there.     *)
LEMMA ResyncSpares ==
  ASSUME BookInv, Resync, NEW s \in Side, NEW p \in Price
  PROVE  RecOK(rec') /\ Spares(rec'.book[s][p], rec.book[s][p])
<1>1. /\ RecOK(rec) /\ PubIsVenue /\ BookOK(venue, VenueIds)
      /\ \A u \in Side : Lists(pub[u])
  BY WorkFacts DEF Resync, Working
<1>2. \A u \in Side : PricesDiffer(Window(u))
  BY <1>1, RowPricesDiffer
<1>3. rec' = ResyncSide(ResyncSide(rec, "buy"), "sell")
  BY DEF Resync
<1>4. RecOK(rec') /\ Corrected(rec.book, rec'.book, s)
  BY <1>1, <1>2, <1>3, SidesResynced
<1>5. CASE p \in Visible(s)
  <2>1. PICK m \in 1 .. Len(Window(s)) : p = Window(s)[m].price
    BY <1>5 DEF Visible
  <2> QED
    BY <1>4, <2>1 DEF Corrected, Resynced
<1>6. CASE p \notin Visible(s)
  <2>0. PICK b, Ids : b = rec.book /\ BookOK(b, Ids)
    BY <1>1 DEF RecOK
  <2>0a. b[s][p] \in Seq(Entries(Ids))
    BY <2>0 DEF BookOK
  <2>1. PICK f : f = b[s][p] /\ f = rec.book[s][p] /\ f = rec'.book[s][p]
    BY <1>4, <1>6, <2>0 DEF Corrected
  <2>2. f \in Seq(Entries(Ids))
    BY <2>0a, <2>1
  <2>3. ASSUME NEW i \in 1 .. Len(f) PROVE HasNoLess(f, f[i])
    <3>1. PICK x : x = f[i]
      OBVIOUS
    <3>2. x.qty \in Nat
      BY <2>2, <3>1, FifoShares
    <3> QED
      BY <3>1, <3>2 DEF HasNoLess
  <2> QED
    BY <1>4, <2>1, <2>3 DEF Spares
<1> QED
  BY <1>5, <1>6

(* An order that the venue told us of loses shares to a resync only where  *)
(* no stand-in of ours is left, however many orders rest at the level and  *)
(* whatever the excess (LobsterReplay.hpp:267-270).                        *)
THEOREM ToldOrdersAreAlwaysSpared == Spec => ToldOrdersAreSpared
<1>1. BookInv /\ [Next]_vars =>
        [pc = "resync" => \A o \in Resting(rec.book) :
           ~IsSynthetic(o.id) /\ GetOrderQty(rec'.book, o.id) < o.qty =>
             \A i \in DOMAIN rec'.book[o.side][o.price] :
               ~IsSynthetic(rec'.book[o.side][o.price][i].id)]_vars
  <2> SUFFICES ASSUME BookInv, Next, pc = "resync", NEW o \in Resting(rec.book),
                      ~IsSynthetic(o.id), GetOrderQty(rec'.book, o.id) < o.qty,
                      NEW j \in DOMAIN rec'.book[o.side][o.price]
               PROVE  ~IsSynthetic(rec'.book[o.side][o.price][j].id)
    OBVIOUS
  <2>1. Resync
    BY DEF Next, Running, ReplayStep, Returned, ReadMessage, VenueAlone, RejectInput, EndOfFile,
           SeedBook, ApplyNewLimit, ApplyToOrder, ApplyToSeed, ApplyUnknown, ApplySkipped,
           Applied, Prune, Recover, Resync, Emit, Accept, ContinuePast, Diverge, Judge
  <2>2. RecOK(rec)
    BY WorkFacts DEF Working
  <2>3. PICK s, p : s = o.side /\ p = o.price
    OBVIOUS
  <2>4. /\ s \in Side /\ p \in Price /\ o.qty \in Nat \ {0}
        /\ \E i \in 1 .. Len(rec.book[s][p]) : /\ rec.book[s][p][i].id = o.id
                                               /\ rec.book[s][p][i].qty = o.qty
    BY <2>2, <2>3, RestingLevel DEF RecOK
  <2>5. PICK f, g : f = rec.book[s][p] /\ g = rec'.book[s][p]
    OBVIOUS
  <2>6. RecOK(rec') /\ Spares(g, f)
    BY <2>1, <2>4, <2>5, ResyncSpares
  <2>7. PICK i \in 1 .. Len(f) : f[i].id = o.id /\ f[i].qty = o.qty
    BY <2>4, <2>5
  <2>8. g \in Seq(Entries(0 .. rec'.synthetic_id - 1))
    BY <2>4, <2>5, <2>6 DEF RecOK, BookOK
  <2>9. ASSUME NEW k \in 1 .. Len(g), g[k].id = o.id, g[k].qty >= o.qty PROVE FALSE
    <3>1. GetOrderQty(rec'.book, o.id) = g[k].qty
      BY <2>4, <2>5, <2>6, <2>9, EntryQty DEF RecOK
    <3>2. g[k].qty \in Nat
      BY <2>8, FifoShares
    <3> QED
      BY <2>4, <2>9, <3>1, <3>2
  <2>10. ~HasNoLess(g, f[i])
    BY <2>7, <2>9 DEF HasNoLess
  <2>11. j \in 1 .. Len(g)
    BY <2>3, <2>5, <2>8
  <2>12. ~IsSynthetic(g[j].id)
    BY <2>6, <2>7, <2>10, <2>11 DEF Spares
  <2> QED
    BY <2>3, <2>5, <2>12
<1> QED
  BY <1>1, BookSafety, PTL DEF Spec, ToldOrdersAreSpared

(* A level with fewer than Levels better ones is at the top of its side.   *)
LEMMA RankedIsTop ==
  ASSUME NEW b, NEW s \in Side, NEW q \in Tracked(b, s), Rank(b, s, q) < Levels
  PROVE  /\ q \in Top(b, s)
         /\ \A i \in Nat : Rank(b, s, q) = i - 1 => PriceAt(b, s, i) = q /\ i \in 1 .. Size(b, s)
<1>1. /\ Rank(b, s, q) \in Nat /\ Rank(b, s, q) < Size(b, s) /\ Size(b, s) \in Nat
      /\ Levels \in Nat
  BY RankIsOrder, TrackedFinite, ReplayAssumption
<1>2. ASSUME NEW i \in Nat, Rank(b, s, q) = i - 1 PROVE PriceAt(b, s, i) = q /\ i \in 1 .. Size(b, s)
  <2>1. i \in 1 .. Size(b, s)
    BY <1>1, <1>2
  <2>2. PICK p : p = PriceAt(b, s, i)
    OBVIOUS
  <2>3. p \in Tracked(b, s) /\ Rank(b, s, p) = i - 1
    BY <2>1, <2>2, PriceAtRank
  <2>4. p \in Price /\ q \in Price
    BY <2>3, TrackedFinite
  <2>5. ~Better(s, p, q) /\ ~Better(s, q, p)
    <3>1. ~(Rank(b, s, p) < Rank(b, s, q)) /\ ~(Rank(b, s, q) < Rank(b, s, p))
      BY <1>1, <1>2, <2>3
    <3> QED
      BY <2>3, <3>1, RankIsOrder
  <2>6. p = q
    BY <2>4, <2>5, BookAssumption DEF Better, Price
  <2> QED
    BY <2>1, <2>2, <2>6
<1>3. q \in Top(b, s)
  <2>1. PICK i \in Nat : i = Rank(b, s, q) + 1 /\ Rank(b, s, q) = i - 1
    <3>1. PICK k \in Nat : k = Rank(b, s, q)
      BY <1>1
    <3>2. k + 1 \in Nat /\ k = k + 1 - 1
      OBVIOUS
    <3> QED
      BY <3>1, <3>2
  <2>2. PriceAt(b, s, i) = q /\ i \in 1 .. Size(b, s)
    BY <1>2, <2>1
  <2>3. i \in 1 .. DepthLen(b, s, Levels)
    BY <1>1, <2>1, <2>2 DEF DepthLen
  <2>4. i \in DOMAIN Depth(b, s, Levels) /\ Depth(b, s, Levels)[i] = LevelAt(b, s, i)
    BY <1>1, <2>3, DepthFacts
  <2>5. Depth(b, s, Levels)[i].price = q
    BY <2>2, <2>4 DEF LevelAt
  <2> QED
    BY <2>4, <2>5 DEF Top
<1> QED
  BY <1>2, <1>3

(* The best of some prices.                                                *)
LEMMA FirstServed ==
  ASSUME NEW s \in Side, NEW T \in SUBSET Price, T # {}
  PROVE  \E x \in T : \A y \in T : y = x \/ Better(s, x, y)
<1>1. Opposite(s) \in Side /\ \A x, y : Better(Opposite(s), y, x) <=> Better(s, x, y)
  BY DEF Opposite, Side, Better
<1> QED
  BY <1>1, LastServed

LEMMA BetterOrder ==
  ASSUME NEW s \in Side, NEW x \in Price, NEW y \in Price, NEW z \in Price
  PROVE  /\ Better(s, x, y) /\ Better(s, y, z) => Better(s, x, z)
         /\ ~(Better(s, x, y) /\ Better(s, y, x))
BY BookAssumption DEF Better, Side, Price

(* The i-th listed level has rank i - 1 at the venue, and what is better   *)
(* there is listed before it.                                              *)
LEMMA RowRanks ==
  ASSUME PubIsVenue, BookOK(venue, VenueIds), NEW s \in Side, NEW i \in 1 .. Len(pub[s]),
         NEW p, p = pub[s][i].price
  PROVE  /\ p \in Tracked(venue, s) /\ p \in Price /\ Rank(venue, s, p) = i - 1
         /\ Ahead(venue, s, p) \subseteq Published(s)
         /\ ~Better(s, pub[s][Len(pub[s])].price, p) \/ i = Len(pub[s])
<1>1. /\ Len(pub[s]) \in Nat /\ Len(pub[s]) <= Size(venue, s) /\ Size(venue, s) \in Nat
      /\ \A m \in 1 .. Len(pub[s]) : pub[s][m].price = PriceAt(venue, s, m)
      /\ \A m \in 1 .. Len(pub[s]) : pub[s][m].price \in Published(s)
  <2>1. Size(venue, s) \in Nat /\ FileLevels \in Nat
    BY TrackedFinite, VenueAssumption
  <2> QED
    BY <2>1, RowFacts, ListsFacts DEF DepthLen
<1>2. ASSUME NEW m \in 1 .. Len(pub[s])
      PROVE  pub[s][m].price \in Tracked(venue, s) /\ Rank(venue, s, pub[s][m].price) = m - 1
  <2>1. m \in 1 .. Size(venue, s)
    BY <1>1
  <2> QED
    BY <1>1, <2>1, PriceAtRank
<1>3. p \in Tracked(venue, s) /\ p \in Price /\ Rank(venue, s, p) = i - 1
  BY <1>2, TrackedFinite
<1>4. ASSUME NEW y \in Ahead(venue, s, p) PROVE y \in Published(s)
  <2>1. y \in Tracked(venue, s) /\ y \in Price /\ Better(s, y, p)
    BY TrackedFinite DEF Ahead
  <2>2. Rank(venue, s, y) \in Nat /\ Rank(venue, s, y) < i - 1
    BY <1>3, <2>1, RankIsOrder
  <2>3. PICK k \in 1 .. Len(pub[s]) : Rank(venue, s, y) = k - 1
    <3>1. PICK n \in Nat : n = Rank(venue, s, y)
      BY <2>2
    <3>2. n + 1 \in 1 .. Len(pub[s]) /\ n = n + 1 - 1
      BY <1>1, <2>2, <3>1
    <3> QED
      BY <3>1, <3>2
  <2>4. PICK q : q = pub[s][k].price
    OBVIOUS
  <2>5. q \in Tracked(venue, s) /\ Rank(venue, s, q) = k - 1 /\ q \in Price /\ q \in Published(s)
    BY <1>1, <1>2, <2>4, TrackedFinite
  <2>6. ~Better(s, y, q) /\ ~Better(s, q, y)
    <3>1. ~(Rank(venue, s, y) < Rank(venue, s, q)) /\ ~(Rank(venue, s, q) < Rank(venue, s, y))
      BY <2>3, <2>5
    <3> QED
      BY <2>1, <2>5, <3>1, RankIsOrder
  <2>7. y = q
    BY <2>1, <2>5, <2>6, BookAssumption DEF Better, Price
  <2> QED
    BY <2>5, <2>7
<1>5. ASSUME i # Len(pub[s]), Better(s, pub[s][Len(pub[s])].price, p) PROVE FALSE
  <2>1. PICK l, q : l = Len(pub[s]) /\ q = pub[s][l].price
    OBVIOUS
  <2>2. l \in 1 .. Len(pub[s]) /\ i < l
    BY <1>1, <1>5, <2>1
  <2>3. q \in Tracked(venue, s) /\ Rank(venue, s, q) = l - 1
    BY <1>2, <2>1, <2>2
  <2>4. Better(s, q, p)
    BY <1>5, <2>1
  <2>5. Rank(venue, s, q) < Rank(venue, s, p)
    BY <1>3, <2>3, <2>4, RankIsOrder
  <2> QED
    BY <1>1, <1>3, <2>2, <2>3, <2>5
<1> QED
  BY <1>3, <1>4, <1>5

(* Each listed price is held, or the book's other side stands in its way.  *)
Reached(b, s, p) == p \in Tracked(b, s) \/ ~Clear(b, s, p)

AllAdopted(b) == \A s \in Side : \A p \in Published(s) : Reached(b, s, p)

(* What is held of the levels that are compared has the size listed.       *)
AllSized(b) ==
  \A s \in Side : \A m \in 1 .. Len(Window(s)) :
    b[s][Window(s)[m].price] # <<>> => Volume(b[s][Window(s)[m].price]) = Window(s)[m].volume

NothingDoomed(b) == \A s \in Side : Doomed(b, s) = {}

Rows == PubIsVenue /\ BookOK(venue, VenueIds)

(* What stands in the way of a listed price would itself be doomed.        *)
LEMMA ListedAreHeld ==
  ASSUME Rows, NEW b, AllAdopted(b), NothingDoomed(b), NEW s \in Side
  PROVE  Published(s) \subseteq Tracked(b, s)
<1> SUFFICES ASSUME NEW p \in Published(s), p \notin Tracked(b, s) PROVE FALSE
  OBVIOUS
<1>1. PICK o \in Side : o = Opposite(s)
  BY DEF Opposite, Side
<1>2. PICK q \in Tracked(b, o) : Crosses(s, q, p)
  BY <1>1 DEF AllAdopted, Reached, Clear
<1>3. PICK x : x = PriceAt(b, o, 1)
  OBVIOUS
<1>4. Size(b, o) # 0
  BY <1>2, NoLevels
<1>5. x \in Tracked(b, o) /\ \A y \in Tracked(b, o) : ~Better(o, y, x)
  BY <1>3, <1>4, FirstIsBest
<1>6. x \in Top(b, o)
  <2>1. 1 \in 1 .. Size(b, o)
    BY <1>4, TrackedFinite
  <2>2. Rank(b, o, x) = 0
    BY <1>3, <2>1, PriceAtRank
  <2> QED
    BY <1>5, <2>2, RankedIsTop, ReplayAssumption
<1>7. p \in Price /\ q \in Price /\ x \in Price
  <2>1. p \in Tracked(venue, s)
    BY RowFacts DEF Rows
  <2> QED
    BY <1>2, <1>5, <2>1, TrackedFinite
<1>8. \A y \in Published(o) : Better(o, x, y)
  <2>1. \A y \in Published(o) : y \in Price
    BY RowFacts, TrackedFinite DEF Rows
  <2>2. \A c \in Published("buy"), d \in Published("sell") : c < d
    BY RowUncrossed DEF Rows, Uncrossed, Side
  <2>3. ~Better(o, q, x)
    BY <1>2, <1>5
  <2>4. CASE s = "buy"
    <3>1. o = "sell" /\ q <= p /\ ~(q < x)
      BY <1>1, <1>2, <2>3, <2>4 DEF Opposite, Crosses, Better
    <3>2. x <= p
      BY <1>7, <3>1 DEF Price
    <3>3. ASSUME NEW y \in Published(o) PROVE x < y
      <4>1. p < y /\ y \in Price
        BY <2>1, <2>2, <2>4, <3>1
      <4> QED
        BY <1>7, <3>2, <4>1 DEF Price
    <3> QED
      BY <3>1, <3>3 DEF Better
  <2>5. CASE s = "sell"
    <3>1. o = "buy" /\ q >= p /\ ~(q > x)
      BY <1>1, <1>2, <2>3, <2>5 DEF Opposite, Crosses, Better
    <3>2. x >= p
      BY <1>7, <3>1 DEF Price
    <3>3. ASSUME NEW y \in Published(o) PROVE x > y
      <4>1. y < p /\ y \in Price
        BY <2>1, <2>2, <2>5, <3>1
      <4> QED
        BY <1>7, <3>2, <4>1 DEF Price
    <3> QED
      BY <3>1, <3>3 DEF Better
  <2> QED
    BY <2>4, <2>5 DEF Side
<1>9. \A y \in Published(o) : y \in Price /\ y # x /\ ~Better(o, y, x)
  BY <1>7, <1>8, RowFacts, TrackedFinite, BookAssumption DEF Rows, Better, Price
<1>10. Authoritative(o, x)
  <2>1. PICK l \in Nat : l = Len(pub[o])
    BY RowFacts, ListsFacts DEF Rows
  <2>2. CASE l = 0
    BY <2>1, <2>2, ReplayAssumption DEF Authoritative
  <2>3. CASE l # 0
    <3>1. l \in 1 .. l
      BY <2>3
    <3>2. pub[o][l].price \in Published(o)
      BY <2>1, <3>1, RowFacts DEF Rows
    <3>3. pub[o] # <<>>
      BY <2>1, <2>3
    <3> QED
      BY <1>9, <2>1, <3>2, <3>3 DEF Authoritative
  <2> QED
    BY <2>2, <2>3
<1>11. x \in Doomed(b, o)
  BY <1>6, <1>9, <1>10 DEF Doomed
<1> QED
  BY <1>11 DEF NothingDoomed

(* Any price of ours that the row would list is listed, if fewer than      *)
(* Levels listed ones are better.                                          *)
LEMMA UnlistedIsBelow ==
  ASSUME Rows, NEW b, NothingDoomed(b), NEW s \in Side, NEW p \in Price,
         Rank(venue, s, p) < Levels, Ahead(venue, s, p) \subseteq Published(s),
         \A x \in Ahead(b, s, p) : Authoritative(s, x)
  PROVE  Ahead(b, s, p) \subseteq Ahead(venue, s, p)
<1> DEFINE A == Ahead(b, s, p) \ Published(s)
<1>0. Published(s) \subseteq Tracked(venue, s)
  BY RowFacts DEF Rows
<1>1. ASSUME A # {} PROVE FALSE
  <2>1. A \in SUBSET Price
    BY TrackedFinite DEF Ahead
  <2>2. PICK x \in A : \A y \in A : y = x \/ Better(s, x, y)
    BY <1>1, <2>1, FirstServed
  <2>3. x \in Tracked(b, s) /\ x \in Price /\ Better(s, x, p) /\ x \notin Published(s)
    BY <2>1 DEF Ahead
  <2>4. ASSUME NEW y \in Ahead(b, s, x) PROVE y \in Ahead(venue, s, p)
    <3>1. y \in Tracked(b, s) /\ y \in Price /\ Better(s, y, x)
      BY TrackedFinite DEF Ahead
    <3>2. Better(s, y, p) /\ ~Better(s, x, y) /\ y # x
      BY <2>3, <3>1, BetterOrder, BookAssumption DEF Better, Price
    <3>3. y \in Ahead(b, s, p)
      BY <3>1, <3>2 DEF Ahead
    <3>4. y \in Published(s)
      BY <2>2, <3>2, <3>3
    <3> QED
      BY <1>0, <3>2, <3>4 DEF Ahead
  <2>5. IsFiniteSet(Ahead(venue, s, p))
    <3>1. Ahead(venue, s, p) \subseteq Tracked(venue, s)
      BY DEF Ahead
    <3> QED
      BY <3>1, TrackedFinite, FS_Subset
  <2>6. /\ Rank(b, s, x) \in Nat /\ Rank(venue, s, p) \in Nat
        /\ Rank(b, s, x) <= Rank(venue, s, p)
    BY <2>4, <2>5, FS_Subset, FS_CardinalityType DEF Rank
  <2>7. x \in Top(b, s)
    BY <2>3, <2>6, RankedIsTop, ReplayAssumption
  <2>8. x \in Doomed(b, s)
    BY <2>3, <2>7 DEF Doomed
  <2> QED
    BY <2>8 DEF NothingDoomed
<1>2. \A x \in Ahead(b, s, p) : x \in Published(s)
  BY <1>1
<1> QED
  BY <1>0, <1>2 DEF Ahead

(* Where the row ends before the compared depth, so does our side.         *)
LEMMA NothingBelowRow ==
  ASSUME Rows, NEW b, NothingDoomed(b), NEW s \in Side, Len(pub[s]) < Levels
  PROVE  Tracked(b, s) \subseteq Published(s) /\ Size(b, s) <= Len(pub[s])
<1> DEFINE A == Tracked(b, s) \ Published(s)
<1>0. /\ Published(s) \subseteq Tracked(venue, s)
      /\ Len(pub[s]) = Size(venue, s) /\ Size(venue, s) \in Nat
  <2>1. /\ Size(venue, s) \in Nat /\ FileLevels \in Nat /\ Levels <= FileLevels /\ Levels \in Nat
    BY TrackedFinite, VenueAssumption, ReplayAssumption DEF Rows, PubIsVenue
  <2>2. Len(pub[s]) = DepthLen(venue, s, FileLevels) /\ Published(s) \subseteq Tracked(venue, s)
    BY RowFacts DEF Rows
  <2> QED
    BY <2>1, <2>2 DEF DepthLen
<1>1. ASSUME A # {} PROVE FALSE
  <2>1. A \in SUBSET Price
    BY TrackedFinite
  <2>2. PICK x \in A : \A y \in A : y = x \/ Better(s, x, y)
    BY <1>1, <2>1, FirstServed
  <2>3. x \in Tracked(b, s) /\ x \in Price /\ x \notin Published(s)
    BY <2>1
  <2>4. ASSUME NEW y \in Ahead(b, s, x) PROVE y \in Tracked(venue, s)
    <3>1. y \in Tracked(b, s) /\ y \in Price /\ Better(s, y, x)
      BY TrackedFinite DEF Ahead
    <3>2. ~Better(s, x, y) /\ y # x
      BY <2>3, <3>1, BookAssumption DEF Better, Price
    <3> QED
      BY <1>0, <2>2, <3>1, <3>2
  <2>5. /\ Rank(b, s, x) \in Nat /\ Rank(b, s, x) <= Size(venue, s)
    <3>1. IsFiniteSet(Tracked(venue, s))
      BY TrackedFinite
    <3> QED
      BY <2>4, <3>1, FS_Subset, FS_CardinalityType DEF Rank, Size
  <2>6. x \in Top(b, s)
    BY <1>0, <2>3, <2>5, RankedIsTop, ReplayAssumption
  <2>7. x \in Doomed(b, s)
    BY <2>3, <2>6 DEF Doomed, Authoritative
  <2> QED
    BY <2>7 DEF NothingDoomed
<1>2. Tracked(b, s) \subseteq Published(s)
  BY <1>1
<1>3. Size(b, s) <= Size(venue, s)
  <2>1. Tracked(b, s) \subseteq Tracked(venue, s) /\ IsFiniteSet(Tracked(venue, s))
    BY <1>0, <1>2, TrackedFinite
  <2> QED
    BY <2>1, FS_Subset DEF Size
<1> QED
  BY <1>0, <1>2, <1>3

(* An adopted and corrected book with nothing doomed is the venue's in     *)
(* every level that is compared.                                           *)
LEMMA RepairedMatches ==
  ASSUME Rows, BookOK(rec.book, 0 .. rec.synthetic_id - 1),
         AllAdopted(rec.book), AllSized(rec.book), NothingDoomed(rec.book), NEW s \in Side
  PROVE  CompareSide(s)
<1> DEFINE ours == Depth(rec.book, s, Levels)
<1>1. PICK b : b = rec.book
  OBVIOUS
<1>2. /\ Len(pub[s]) \in Nat /\ DOMAIN pub[s] = 1 .. Len(pub[s])
      /\ \A m \in 1 .. Len(pub[s]) : pub[s][m] \in Listed /\ pub[s][m].price \in Published(s)
      /\ Lists(pub[s])
  BY RowFacts, ListsFacts DEF Rows
<1>3. /\ DOMAIN ours = 1 .. DepthLen(b, s, Levels) /\ DepthLen(b, s, Levels) \in Nat
      /\ \A i \in 1 .. DepthLen(b, s, Levels) : ours[i] = LevelAt(b, s, i)
      /\ Levels \in Nat
  BY <1>1, DepthFacts, ReplayAssumption
<1>4. Published(s) \subseteq Tracked(b, s)
  BY <1>1, ListedAreHeld
<1>5. ASSUME NEW i \in 1 .. Levels, i \in 1 .. Len(pub[s])
      PROVE  i \in DOMAIN ours /\ ours[i] = pub[s][i]
  <2>1. PICK p, v : p = pub[s][i].price /\ v = pub[s][i].volume
    OBVIOUS
  <2>2. pub[s][i] = [price |-> p, volume |-> v]
    BY <1>2, <1>5, <2>1 DEF Listed
  <2>3. /\ p \in Price /\ Rank(venue, s, p) = i - 1 /\ Ahead(venue, s, p) \subseteq Published(s)
        /\ ~Better(s, pub[s][Len(pub[s])].price, p) \/ i = Len(pub[s])
    BY <1>5, <2>1, RowRanks DEF Rows
  <2>4. ASSUME NEW x \in Ahead(b, s, p) PROVE Authoritative(s, x)
    <3>1. PICK l, q : l = Len(pub[s]) /\ q = pub[s][l].price
      OBVIOUS
    <3>2. x \in Price /\ Better(s, x, p)
      BY TrackedFinite DEF Ahead
    <3>3. l \in 1 .. Len(pub[s])
      BY <1>2, <1>5, <3>1
    <3>4. q \in Price /\ (~Better(s, q, p) \/ q = p)
      BY <1>2, <2>1, <2>3, <3>1, <3>3 DEF Listed
    <3>5. ~Better(s, q, x)
      BY <2>3, <3>2, <3>4, BetterOrder
    <3>6. pub[s] # <<>>
      BY <1>2, <1>5
    <3> QED
      BY <3>1, <3>5, <3>6 DEF Authoritative
  <2>5. Ahead(b, s, p) \subseteq Ahead(venue, s, p)
    <3>1. Rank(venue, s, p) < Levels
      BY <1>3, <2>3
    <3> QED
      BY <1>1, <2>3, <2>4, <3>1, UnlistedIsBelow
  <2>6. Ahead(venue, s, p) \subseteq Ahead(b, s, p)
    BY <1>4, <2>3 DEF Ahead
  <2>7. Rank(b, s, p) = i - 1 /\ p \in Tracked(b, s) /\ Rank(b, s, p) < Levels
    <3>1. Rank(b, s, p) = Rank(venue, s, p)
      <4>1. Ahead(b, s, p) = Ahead(venue, s, p)
        BY <2>5, <2>6, Zenon
      <4> QED
        BY <4>1 DEF Rank
    <3>2. p \in Published(s)
      BY <1>2, <1>5, <2>1
    <3> QED
      BY <1>3, <1>4, <2>3, <3>1, <3>2
  <2>8. PriceAt(b, s, i) = p /\ i \in 1 .. Size(b, s)
    BY <2>7, RankedIsTop
  <2>9. i \in 1 .. DepthLen(b, s, Levels)
    BY <1>3, <2>8 DEF DepthLen
  <2>10. Volume(b[s][p]) = v
    <3>1. i \in 1 .. Len(Window(s)) /\ Window(s)[i] = pub[s][i]
      BY <1>2, <1>3, <1>5, WindowFacts
    <3>2. b[s][p] # <<>>
      BY <2>7 DEF Tracked
    <3> QED
      BY <1>1, <2>1, <3>1, <3>2 DEF AllSized
  <2>11. ours[i] = [price |-> p, volume |-> v]
    BY <1>3, <2>8, <2>9, <2>10 DEF LevelAt
  <2> QED
    BY <1>3, <2>2, <2>9, <2>11
<1>6. ASSUME NEW i \in 1 .. Levels, i \notin 1 .. Len(pub[s]) PROVE i \notin DOMAIN ours
  <2>1. Len(pub[s]) < Levels
    BY <1>2, <1>3, <1>6
  <2>2. Size(b, s) <= Len(pub[s]) /\ Size(b, s) \in Nat
    BY <1>1, <2>1, NothingBelowRow, TrackedFinite
  <2> QED
    BY <1>2, <1>3, <1>6, <2>2 DEF DepthLen
<1> QED
  BY <1>2, <1>5, <1>6 DEF CompareSide

(* Levels that were held stay, and so does what stands in the way of one.  *)
LEMMA ReachedStays ==
  ASSUME NEW b, NEW c, \A t \in Side : Tracked(b, t) \subseteq Tracked(c, t),
         NEW s \in Side, NEW p, Reached(b, s, p)
  PROVE  Reached(c, s, p)
<1>1. Opposite(s) \in Side
  BY DEF Opposite, Side
<1> QED
  BY <1>1 DEF Reached, Clear

LEMMA KeepsTracked ==
  ASSUME NEW b, NEW c, Keeps(b, c), NEW s \in Side
  PROVE  Tracked(b, s) \subseteq Tracked(c, s)
BY DEF Keeps, Tracked

(* Recovering a side reaches every price the row lists there.              *)
LEMMA SideRecovered ==
  ASSUME NEW r, RecOK(r), NEW s \in Side, Lists(pub[s]), NEW t, t = RecoverSide(r, s)
  PROVE  \A p \in Published(s) : Reached(t.book, s, p)
<1> DEFINE L == Len(pub[s])
<1>1. L \in Nat /\ DOMAIN pub[s] = 1 .. L /\ \A m \in 1 .. L : pub[s][m] \in Listed
  BY ListsFacts
<1>2. PICK f : RecoveringRun(f, r, s)
  BY <1>1, RecoverSideSteps
<1>3. /\ f[0] = r
      /\ \A m \in 1 .. L : f[m] = Adopt(f[m - 1], s, pub[s][m])
      /\ t = f[L]
  BY <1>2 DEF RecoveringRun
<1> DEFINE Good(x, n) == \A k \in 1 .. n : Reached(x.book, s, pub[s][k].price)
           G == {n \in Nat : n <= L => RecOK(f[n]) /\ Good(f[n], n)}
<1>4. 0 \in G
  BY <1>3
<1>5. ASSUME NEW n \in Nat, n \in G PROVE n + 1 \in G
  <2> SUFFICES ASSUME n + 1 <= L PROVE RecOK(f[n + 1]) /\ Good(f[n + 1], n + 1)
    OBVIOUS
  <2>1. RecOK(f[n]) /\ Good(f[n], n) /\ n + 1 \in 1 .. L /\ n + 1 - 1 = n
    BY <1>1, <1>5
  <2>2. PICK x, y, l : x = f[n] /\ y = f[n + 1] /\ l = pub[s][n + 1]
    OBVIOUS
  <2>3. y = Adopt(x, s, l) /\ l \in Listed /\ RecOK(x) /\ Good(x, n)
    BY <1>1, <1>3, <2>1, <2>2
  <2> HIDE DEF Good
  <2>4. RecOK(y) /\ Keeps(x.book, y.book)
    BY <2>3, AdoptRec, AdoptKeeps
  <2>5. \A u \in Side : Tracked(x.book, u) \subseteq Tracked(y.book, u)
    BY <2>4, KeepsTracked
  <2>6. Reached(y.book, s, l.price)
    <3>0. l.price \in Price
      BY <2>3 DEF Listed
    <3>1. CASE x.book[s][l.price] # <<>>
      <4>1. Reached(x.book, s, l.price)
        BY <3>0, <3>1 DEF Reached, Tracked
      <4> QED
        BY <2>5, <4>1, ReachedStays
    <3>2. CASE ~Clear(x.book, s, l.price)
      <4>1. Reached(x.book, s, l.price)
        BY <3>2 DEF Reached
      <4> QED
        BY <2>5, <4>1, ReachedStays
    <3>3. CASE x.book[s][l.price] = <<>> /\ Clear(x.book, s, l.price)
      <4>1. y.book = Stacked(x.book, s, l.price, x.synthetic_id, l.volume)
        BY <2>3, <3>3, AdoptRec
      <4>2. BookOK(x.book, 0 .. x.synthetic_id - 1)
        BY <2>3 DEF RecOK
      <4>3. y.book[s][l.price] # <<>>
        BY <3>0, <4>1, <4>2, StackedLevels
      <4> QED
        BY <3>0, <4>3 DEF Reached, Tracked
    <3> QED
      BY <3>1, <3>2, <3>3
  <2>7. Good(y, n + 1)
    <3> SUFFICES ASSUME NEW k \in 1 .. n + 1 PROVE Reached(y.book, s, pub[s][k].price)
      BY DEF Good
    <3>1. CASE k = n + 1
      BY <2>2, <2>6, <3>1
    <3>2. CASE k \in 1 .. n
      <4>1. Reached(x.book, s, pub[s][k].price)
        BY <2>3, <3>2 DEF Good
      <4> QED
        BY <2>5, <4>1, ReachedStays
    <3> QED
      BY <3>1, <3>2
  <2> QED
    BY <2>2, <2>4, <2>7
<1> HIDE DEF G
<1>6. \A n \in Nat : n \in G
  BY <1>4, <1>5, NumberInduction
<1>7. Good(t, L)
  BY <1>1, <1>3, <1>6 DEF G
<1> QED
  BY <1>1, <1>7 DEF Published

LEMMA SidesRecovered ==
  ASSUME NEW r, RecOK(r), \A s \in Side : Lists(pub[s]),
         NEW t, t = RecoverSide(RecoverSide(r, "buy"), "sell")
  PROVE  AllAdopted(t.book)
<1>1. PICK x : x = RecoverSide(r, "buy")
  OBVIOUS
<1>2. RecOK(x) /\ \A p \in Published("buy") : Reached(x.book, "buy", p)
  BY <1>1, RecoverSideRec, SideRecovered DEF Side
<1>3. t = RecoverSide(x, "sell")
  BY <1>1
<1>4. Keeps(x.book, t.book) /\ \A p \in Published("sell") : Reached(t.book, "sell", p)
  BY <1>2, <1>3, RecoverSideRec, SideRecovered DEF Side
<1>5. \A u \in Side : Tracked(x.book, u) \subseteq Tracked(t.book, u)
  BY <1>4, KeepsTracked
<1>6. \A p \in Published("buy") : Reached(t.book, "buy", p)
  BY <1>2, <1>5, ReachedStays DEF Side
<1> QED
  BY <1>4, <1>6 DEF AllAdopted, Reached, Side

(* Correcting sizes empties no level and fills none.                       *)
LEMMA CorrectedTracked ==
  ASSUME NEW b, NEW c, \A s \in Side : Corrected(b, c, s)
  PROVE  /\ \A s \in Side : Tracked(b, s) = Tracked(c, s)
         /\ AllSized(c)
         /\ AllAdopted(b) => AllAdopted(c)
<1>1. ASSUME NEW s \in Side, NEW p \in Price PROVE b[s][p] = <<>> <=> c[s][p] = <<>>
  <2>1. CASE p \in Visible(s)
    <3>1. PICK m \in 1 .. Len(Window(s)) : p = Window(s)[m].price
      BY <2>1 DEF Visible
    <3> QED
      BY <3>1 DEF Corrected, Resynced
  <2>2. CASE p \notin Visible(s)
    BY <2>2 DEF Corrected
  <2> QED
    BY <2>1, <2>2
<1>2. \A s \in Side : Tracked(b, s) = Tracked(c, s)
  BY <1>1 DEF Tracked
<1>3. AllSized(c)
  BY DEF AllSized, Corrected, Resynced
<1>4. ASSUME AllAdopted(b) PROVE AllAdopted(c)
  BY <1>2, <1>4, ReachedStays DEF AllAdopted, Reached
<1> QED
  BY <1>2, <1>3, <1>4

(***************************************************************************)
(* How far the repairs of a message have come.                             *)
(***************************************************************************)
RepairInv ==
  "resync" \in opts =>
    /\ pc \in {"resync", "emit", "compare"} => AllAdopted(rec.book)
    /\ pc \in {"emit", "compare"} => AllSized(rec.book)

LEMMA RepairStep ==
  ASSUME BookInv, RepairInv, [Next]_vars
  PROVE  RepairInv'
<1> SUFFICES ASSUME "resync" \in opts', pc' \in {"resync", "emit", "compare"}
             PROVE  AllAdopted(rec.book)' /\ (pc' # "resync" => AllSized(rec.book)')
  BY DEF RepairInv
<1>1. CASE UNCHANGED vars
  <2>1. UNCHANGED <<pub, opts, pc, rec>>
    BY <1>1 DEF vars, venueVars, replayVars
  <2> QED
    BY <2>1 DEF RepairInv, AllAdopted, AllSized, Published, Window
<1>2. CASE Recover
  <2>1. /\ pc = "recover" /\ rec' = RecoverSide(RecoverSide(rec, "buy"), "sell")
        /\ UNCHANGED <<pub, opts>> /\ pc' = "resync"
    BY <1>2 DEF Recover, Go, venueVars
  <2>2. RecOK(rec) /\ \A s \in Side : Lists(pub[s])
    BY <2>1, WorkFacts DEF Working
  <2>3. AllAdopted(rec'.book)
    BY <2>1, <2>2, SidesRecovered
  <2> QED
    BY <2>1, <2>3 DEF AllAdopted, Published
<1>3. CASE Resync
  <2>1. /\ pc = "resync" /\ rec' = ResyncSide(ResyncSide(rec, "buy"), "sell")
        /\ UNCHANGED <<pub, opts>> /\ pc' = "emit"
    BY <1>3 DEF Resync, Go, venueVars
  <2>2. /\ RecOK(rec) /\ PubIsVenue /\ BookOK(venue, VenueIds)
        /\ \A s \in Side : Lists(pub[s])
    BY <2>1, WorkFacts DEF Working
  <2>3. \A s \in Side : PricesDiffer(Window(s))
    BY <2>2, RowPricesDiffer
  <2>4. \A s \in Side : Corrected(rec.book, rec'.book, s)
    BY <2>1, <2>2, <2>3, SidesResynced
  <2>5. AllAdopted(rec.book)
    BY <2>1 DEF RepairInv
  <2>6. AllAdopted(rec'.book) /\ AllSized(rec'.book)
    BY <2>4, <2>5, CorrectedTracked
  <2> QED
    BY <2>1, <2>6 DEF AllAdopted, AllSized, Published, Window
<1>4. CASE Emit
  <2>1. pc = "emit" /\ UNCHANGED <<pub, opts, rec>>
    BY <1>4 DEF Emit, venueVars
  <2> QED
    BY <2>1 DEF RepairInv, AllAdopted, AllSized, Published, Window
<1>5. ASSUME Applied PROVE FALSE
  <2>1. "resync" \in opts /\ pc' = IF Repairs THEN "prune" ELSE "emit"
    BY <1>5 DEF Applied, Go
  <2> QED
    BY <2>1 DEF Repairs
<1>6. ASSUME NEW m, ReadMessage(m) \/ VenueAlone(m) PROVE FALSE
  BY <1>6 DEF ReadMessage, VenueAlone, Go, replayVars
<1>7. ASSUME \/ RejectInput \/ EndOfFile \/ SeedBook \/ Prune
             \/ Accept \/ ContinuePast \/ Diverge
      PROVE  FALSE
  BY <1>7 DEF RejectInput, EndOfFile, SeedBook, Prune, Accept, ContinuePast, Diverge, Go
<1> QED
  BY <1>1, <1>2, <1>3, <1>4, <1>5, <1>6, <1>7
     DEF Next, Running, ReplayStep, Returned, ApplyNewLimit, ApplyToOrder, ApplyToSeed,
         ApplyUnknown, ApplySkipped

(* A resync run whose pruning has promoted no phantom passes the           *)
(* comparison, for any depth, any rows and any drift outside the window    *)
(* (LobsterReplay.hpp:218-221, 260-262, 337-341).                          *)
THEOREM RepairsAlwaysSuffice == Spec => []RepairsSuffice
<1>1. Init => RepairInv
  BY DEF Init, RepairInv
<1>2. BookInv /\ RepairInv /\ [Next]_vars => RepairInv'
  BY RepairStep
<1>3. BookInv /\ RepairInv => RepairsSuffice
  <2> SUFFICES ASSUME BookInv, RepairInv, pc = "compare", "resync" \in opts, ~Promoted
               PROVE  Compared
    BY DEF RepairsSuffice
  <2>1. Rows /\ BookOK(rec.book, 0 .. rec.synthetic_id - 1)
    BY WorkFacts DEF Working, Rows, RecOK
  <2>2. AllAdopted(rec.book) /\ AllSized(rec.book)
    BY DEF RepairInv
  <2>3. NothingDoomed(rec.book)
    BY DEF Promoted, NothingDoomed
  <2> QED
    BY <2>1, <2>2, <2>3, RepairedMatches DEF Compared, Side
<1> QED
  BY <1>1, <1>2, <1>3, BookSafety, PTL DEF Spec

-----------------------------------------------------------------------------
(* The command line and the exit status.                                   *)

\* Until the command line is read, nothing has been replayed.
NotStarted ==
  phase = "parse" =>
    /\ pc = "read" /\ err = "none" /\ row = NoRow
    /\ st.messages = 0 /\ st.first_divergence = 0 /\ agreed = 0

\* The options among the first n words have been taken in.
OptionsRead(n) ==
  \A k \in DOMAIN argv : k < n /\ argv[k] \in Flag /\ Option(argv[k]) \notin opts =>
    k > 1 /\ argv[k - 1] = "--emit-features"

CommandLineRead ==
  /\ argv \in Seq(Word) /\ arg_i \in Nat \ {0}
  /\ OptionsRead(arg_i)
  /\ phase = "replay" => arg_i > Len(argv)

Exits ==
  /\ phase \in {"parse", "replay", "exited"}
  /\ phase = "exited" /\ exit = 0 => pc = "passed"

RunInv == ReplayInv /\ NotStarted /\ CommandLineRead /\ Exits

LEMMA RunInit0 == RunInit => RunInv
<1> SUFFICES ASSUME RunInit PROVE RunInv
  OBVIOUS
<1>1. ReplayInv
  BY ReplayInit DEF RunInit
<1>2. NotStarted
  BY DEF RunInit, Init, NotStarted
<1>3. CommandLineRead
  <2>1. argv \in Seq(Word) /\ arg_i = 1 /\ phase = "parse"
    BY CommandLineAssumption DEF RunInit
  <2>2. \A k \in DOMAIN argv : ~(k < 1)
    BY <2>1
  <2> QED BY <2>1, <2>2 DEF CommandLineRead, OptionsRead
<1>4. Exits
  BY DEF RunInit, Exits
<1> QED BY <1>1, <1>2, <1>3, <1>4 DEF RunInv

(* Reading a word keeps the invariant, whatever it adds to the options.    *)
LEMMA ParseStep ==
  ASSUME RunInv, ReadFlag \/ ReadEmitFeatures \/ ReadFileName
  PROVE  RunInv'
<1> USE DEF RunInv
<1>1. /\ phase = "parse" /\ phase' = "parse" /\ arg_i \in Nat \ {0} /\ arg_i <= Len(argv)
      /\ UNCHANGED <<venueVars, pc, rec, st, row, err, agreed, argv, exit>>
      /\ opts \ {"emit"} \subseteq opts'
  BY DEF ReadFlag, ReadEmitFeatures, ReadFileName, Parsing, MoreWords, CommandLineRead
<1>2. ReplayInv'
  BY <1>1 DEF NotStarted, NoRow, ReplayInv, CountersOK, Judgement, JudgedTo, RowIsCurrent,
              FeaturesFollowVenue, Working
<1>3. NotStarted' /\ Exits'
  BY <1>1 DEF NotStarted, Exits
<1>4. CommandLineRead'
  <2>1. argv \in Seq(Word) /\ \A k \in DOMAIN argv : k \in Nat
    BY DEF CommandLineRead
  <2>2. \A k \in DOMAIN argv :
          k < arg_i' /\ argv[k] \in Flag /\ Option(argv[k]) \notin opts' =>
            k < arg_i \/ (k > 1 /\ argv[k - 1] = "--emit-features")
    <3>1. CASE ReadFlag
      BY <1>1, <2>1, <3>1 DEF ReadFlag
    <3>2. CASE ReadEmitFeatures
      <4>1. arg_i' = arg_i + 2 /\ argv[arg_i] = "--emit-features"
        BY <3>2 DEF ReadEmitFeatures
      <4>2. argv[arg_i] \notin Flag
        BY <4>1 DEF Flag
      <4>3. \A k \in Nat : k < arg_i + 2 => k < arg_i \/ k = arg_i \/ (k - 1 = arg_i /\ k > 1)
        BY <1>1
      <4> QED BY <2>1, <4>1, <4>2, <4>3
    <3>3. CASE ReadFileName
      BY <1>1, <2>1, <3>3 DEF ReadFileName, Flag
    <3> QED BY <3>1, <3>2, <3>3
  <2>3. OptionsRead(arg_i)'
    <3>1. \A word \in Flag : Option(word) # "emit"
      BY DEF Flag, Option
    <3>2. \A word \in Flag : Option(word) \notin opts' => Option(word) \notin opts
      BY <1>1, <3>1
    <3> QED BY <1>1, <2>2, <3>2 DEF OptionsRead, CommandLineRead
  <2>4. arg_i' \in Nat \ {0}
    BY <1>1 DEF ReadFlag, ReadEmitFeatures, ReadFileName
  <2> QED BY <1>1, <2>1, <2>3, <2>4 DEF CommandLineRead
<1> QED BY <1>2, <1>3, <1>4

\* No step of the replay changes its options.
LEMMA OptionsFixed == Running => opts' = opts
BY DEF Running, ReplayStep, ReadMessage, VenueAlone, replayVars, RejectInput, EndOfFile,
       SeedBook, ApplyNewLimit, ApplyToOrder, ApplyToSeed, ApplyUnknown, ApplySkipped,
       Applied, Prune, Recover, Resync, Emit, Accept, ContinuePast, Diverge, Judge

LEMMA ReplayKeepsRunInv ==
  ASSUME RunInv, Replay
  PROVE  RunInv'
<1>1. ReplayInv'
  BY RunningStep DEF RunInv, Replay
<1>2. NotStarted' /\ CommandLineRead' /\ Exits'
  BY OptionsFixed
     DEF Replay, cliVars, RunInv, NotStarted, CommandLineRead, OptionsRead, Exits
<1> QED BY <1>1, <1>2 DEF RunInv

(* Leaving the command line or the replay keeps what has been judged.      *)
LEMMA UnchangedVars ==
  ASSUME RunInv, UNCHANGED vars, UNCHANGED <<argv, arg_i>>
  PROVE  ReplayInv' /\ argv' \in Seq(Word) /\ arg_i' \in Nat \ {0} /\ OptionsRead(arg_i)'
BY StutterStep DEF RunInv, CommandLineRead, OptionsRead, vars, replayVars

LEMMA StartStep ==
  ASSUME RunInv, Refuse \/ StartReplay
  PROVE  RunInv'
<1>1. /\ phase = "parse" /\ UNCHANGED vars /\ UNCHANGED <<argv, arg_i>>
      /\ \/ phase' = "exited" /\ exit' = 2
         \/ phase' = "replay" /\ ~(arg_i <= Len(argv))
  BY DEF Refuse, StartReplay, Parsing, MoreWords, vars, replayVars, RunInv, Exits
<1>2. ReplayInv' /\ argv' \in Seq(Word) /\ arg_i' \in Nat \ {0} /\ OptionsRead(arg_i)'
  BY <1>1, UnchangedVars
<1>3. CommandLineRead'
  BY <1>1, <1>2 DEF CommandLineRead
<1>4. NotStarted'
  BY <1>1 DEF NotStarted, vars, replayVars
<1> QED BY <1>1, <1>2, <1>3, <1>4 DEF RunInv, Exits

(* The program ends with status 0 only when the replay has passed.         *)
LEMMA ExitStep ==
  ASSUME RunInv, ReportFailure \/ Abort \/ ReportSuccess
  PROVE  RunInv'
<1>1. /\ phase' = "exited" /\ (exit' = 0 => pc = "passed")
      /\ UNCHANGED vars /\ UNCHANGED <<argv, arg_i>>
  <2>1. CASE ReportFailure
    <3>1. phase' = "exited" /\ exit' = 1 /\ UNCHANGED <<vars, argv, arg_i, positional>>
      BY <2>1, Zenon DEF ReportFailure
    <3> QED BY <3>1
  <2>2. CASE Abort
    BY <2>2 DEF Abort
  <2>3. CASE ReportSuccess
    BY <2>3 DEF ReportSuccess
  <2> QED BY <2>1, <2>2, <2>3
<1>2. ReplayInv' /\ argv' \in Seq(Word) /\ arg_i' \in Nat \ {0} /\ OptionsRead(arg_i)'
  BY <1>1, UnchangedVars
<1>3. pc' = pc
  BY <1>1 DEF vars, replayVars
<1> QED BY <1>1, <1>2, <1>3 DEF RunInv, NotStarted, CommandLineRead, Exits

LEMMA RunStutter ==
  ASSUME RunInv, UNCHANGED <<vars, cliVars>>
  PROVE  RunInv'
<1>1. ReplayInv' /\ argv' \in Seq(Word) /\ arg_i' \in Nat \ {0} /\ OptionsRead(arg_i)'
  BY UnchangedVars DEF cliVars
<1>2. NotStarted' /\ CommandLineRead' /\ Exits'
  BY <1>1 DEF RunInv, cliVars, vars, replayVars, NotStarted, CommandLineRead, Exits,
              Continues
<1> QED BY <1>1, <1>2 DEF RunInv

LEMMA RunStep == RunInv /\ [RunNext]_<<vars, cliVars>> => RunInv'
BY ParseStep, StartStep, ReplayKeepsRunInv, ExitStep, RunStutter
   DEF RunNext, Exited

-----------------------------------------------------------------------------
(* The program's inductive invariant.                                      *)
THEOREM RunSafety == RunSpec => []RunInv
BY RunInit0, RunStep, PTL DEF RunSpec

(* Exit status 0 without --published-features means that every row matched *)
(* and that nothing traded (lobster_replay.cpp:9-10).                      *)
THEOREM SuccessIsAlwaysHonest == RunSpec => []SuccessIsHonest
<1>1. RunInv => SuccessIsHonest
  BY DEF RunInv, ReplayInv, Judgement, JudgedTo, Exits, ExitsWith, SuccessIsHonest
<1> QED BY <1>1, RunSafety, PTL

(* Only the path of --emit-features can hide an option                     *)
(* (lobster_replay.cpp:30-60).                                             *)
THEOREM OptionsAlwaysTakeEffect == RunSpec => []OptionsTakeEffect
<1>1. RunInv => OptionsTakeEffect
  <2> SUFFICES ASSUME RunInv, phase = "replay", NEW k \in DOMAIN argv
               PROVE  argv[k] \in Flag /\ Option(argv[k]) \notin opts =>
                        k > 1 /\ argv[k - 1] = "--emit-features"
    BY DEF OptionsTakeEffect
  <2>1. k < arg_i
    BY DEF RunInv, CommandLineRead
  <2> QED BY <2>1 DEF RunInv, CommandLineRead, OptionsRead
<1> QED BY <1>1, RunSafety, PTL
=============================================================================
