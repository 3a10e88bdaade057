-------------------------- MODULE BookCallsProofs ---------------------------
(***************************************************************************)
(* A book as the calls on it see it: that every call keeps it in good      *)
(* order, what rests afterwards, when it trades, and the order of its      *)
(* levels, for any orders, any ids and any prices.                         *)
(***************************************************************************)
EXTENDS BookCalls, BookLemmas

-----------------------------------------------------------------------------
(***************************************************************************)
(* Books in good order: entries are never empty, an id rests once, and no  *)
(* bid reaches an ask.                                                     *)
(***************************************************************************)
IdsUnique(b) ==
  \A s, t \in Side, p, q \in Price : \A i \in 1 .. Len(b[s][p]), j \in 1 .. Len(b[t][q]) :
    b[s][p][i].id = b[t][q][j].id => s = t /\ p = q /\ i = j

NotCrossed(b) == \A p \in Tracked(b, "buy"), q \in Tracked(b, "sell") : p < q

BookOK(b, Ids) ==
  /\ b \in [Side -> [Price -> Seq(Entries(Ids))]]
  /\ IdsUnique(b)
  /\ NotCrossed(b)

Holds(b, id) == \E s \in Side, p \in Price : \E i \in 1 .. Len(b[s][p]) : b[s][p][i].id = id

(* g has entries of f only, in their order, and none has grown.            *)
Thins(g, f) ==
  \E w \in [1 .. Len(g) -> 1 .. Len(f)] :
    /\ \A i \in 1 .. Len(g) : g[i].id = f[w[i]].id /\ g[i].qty <= f[w[i]].qty
    /\ \A i, j \in 1 .. Len(g) : i < j => w[i] < w[j]

LEMMA ThinsSelf ==
  ASSUME NEW Ids, NEW f \in Seq(Entries(Ids))
  PROVE  Thins(f, f) /\ Thins(<<>>, f)
<1>1. Thins(f, f)
  <2> DEFINE w == [i \in 1 .. Len(f) |-> i]
  <2>1. /\ w \in [1 .. Len(f) -> 1 .. Len(f)]
        /\ \A i \in 1 .. Len(f) : w[i] = i
    OBVIOUS
  <2>2. \A i \in 1 .. Len(f) : f[i].qty \in Nat
    BY FifoShares
  <2> HIDE DEF w
  <2> QED
    BY <2>1, <2>2 DEF Thins
<1>2. Thins(<<>>, f)
  <2>1. PICK z : z = <<>>
    OBVIOUS
  <2>2. z \in [1 .. Len(z) -> 1 .. Len(f)] /\ 1 .. Len(z) = {}
    BY <2>1
  <2>3. Thins(z, f)
    BY <2>2 DEF Thins
  <2> QED
    BY <2>1, <2>3
<1> QED
  BY <1>1, <1>2

LEMMA EntriesAtThins ==
  ASSUME NEW Ids, NEW f \in Seq(Entries(Ids)), NEW D
  PROVE  EntriesAt(f, D) \in Seq(Entries(Ids)) /\ Thins(EntriesAt(f, D), f)
<1>1. PICK g : g = EntriesAt(f, D)
  OBVIOUS
<1>2. PICK w : g \in Seq(Entries(Ids)) /\ Positions(w, g, f, D, Len(f))
  BY <1>1, EntriesAtPositions
<1>3. w \in [1 .. Len(g) -> 1 .. Len(f)]
  BY <1>2 DEF Positions
<1>4. \A i \in 1 .. Len(g) : g[i] = f[w[i]] /\ g[i].qty \in Nat
  BY <1>2, FifoShares DEF Positions
<1>5. \A i \in 1 .. Len(g) : g[i].id = f[w[i]].id /\ g[i].qty <= f[w[i]].qty
  BY <1>4
<1>6. Thins(g, f)
  BY <1>2, <1>3, <1>5 DEF Thins, Positions
<1> QED
  BY <1>1, <1>2, <1>6

LEMMA TakeFrontThins ==
  ASSUME NEW Ids, NEW f \in Seq(Entries(Ids)), NEW n \in Nat
  PROVE  TakeFront(f, n) \in Seq(Entries(Ids)) /\ Thins(TakeFront(f, n), f)
<1>1. PICK g : g = TakeFront(f, n)
  OBVIOUS
<1>2. CASE n >= Volume(f)
  BY <1>2, TakeFrontFacts, ThinsSelf
<1>3. CASE n < Volume(f)
  <2>1. g \in Seq(Entries(Ids)) /\ \E k : TakenFrom(g, f, n, k)
    BY <1>1, <1>3, TakeFrontFacts
  <2>2. PICK k : TakenFrom(g, f, n, k)
    BY <2>1
  <2>3. /\ k \in 1 .. Len(f) /\ Len(g) = Len(f) - k + 1
        /\ Shares(f, k - 1) <= n /\ n < Shares(f, k)
        /\ g[1] = [id |-> f[k].id, qty |-> Shares(f, k) - n]
        /\ \A i \in 2 .. Len(g) : g[i] = f[i + k - 1]
    BY <2>2 DEF TakenFrom
  <2>4. /\ Shares(f, k) = Shares(f, k - 1) + f[k].qty
        /\ Shares(f, k) \in Nat /\ Shares(f, k - 1) \in Nat /\ f[k].qty \in Nat
        /\ \A i \in 1 .. Len(f) : f[i].qty \in Nat
    <3>1. k \in 0 .. Len(f) /\ k - 1 \in 0 .. Len(f)
      BY <2>3
    <3>2. /\ \A j \in 0 .. Len(f) : Shares(f, j) \in Nat
          /\ \A j \in 1 .. Len(f) : Shares(f, j) = Shares(f, j - 1) + f[j].qty
          /\ \A i \in 1 .. Len(f) : f[i].qty \in Nat
      BY FifoShares
    <3> QED
      BY <2>3, <3>1, <3>2
  <2>5. g[1].id = f[k].id /\ g[1].qty <= f[k].qty
    BY <2>3, <2>4
  <2> DEFINE w == [i \in 1 .. Len(g) |-> i + k - 1]
  <2>6. /\ w \in [1 .. Len(g) -> 1 .. Len(f)]
        /\ \A i, j \in 1 .. Len(g) : i < j => w[i] < w[j]
        /\ \A i \in 1 .. Len(g) : i = 1 \/ i \in 2 .. Len(g)
        /\ \A i \in 1 .. Len(g) : w[i] = i + k - 1 /\ w[i] \in 1 .. Len(f)
    <3>1. PICK l \in Nat, m \in Nat : l = Len(f) /\ m = Len(g)
      BY <2>1
    <3>2. k \in 1 .. l /\ m = l - k + 1
      BY <2>3, <3>1
    <3>3. \A i \in 1 .. m : i + k - 1 \in 1 .. l /\ (i = 1 \/ i \in 2 .. m)
      BY <3>2
    <3> QED
      BY <3>1, <3>2, <3>3
  <2>7. ASSUME NEW i \in 1 .. Len(g)
        PROVE  g[i].id = f[w[i]].id /\ g[i].qty <= f[w[i]].qty
    <3>1. CASE i = 1
      BY <2>3, <2>5, <2>6, <3>1
    <3>2. CASE i # 1
      <4>1. g[i] = f[w[i]] /\ f[w[i]].qty \in Nat
        BY <2>3, <2>4, <2>6, <3>2
      <4> QED
        BY <4>1
    <3> QED
      BY <3>1, <3>2
  <2> HIDE DEF w
  <2>8. Thins(g, f)
    BY <2>6, <2>7 DEF Thins
  <2> QED
    BY <1>1, <2>1, <2>8
<1>4. Volume(f) \in Nat
  BY FifoShares
<1> QED
  BY <1>2, <1>3, <1>4

(* A book whose levels have only been thinned is still in order.           *)
LEMMA ThinnedBook ==
  ASSUME NEW Ids, NEW b, BookOK(b, Ids), NEW c \in [Side -> [Price -> Seq(Entries(Ids))]],
         \A s \in Side, p \in Price : Thins(c[s][p], b[s][p])
  PROVE  /\ BookOK(c, Ids)
         /\ \A s \in Side : Tracked(c, s) \subseteq Tracked(b, s)
         /\ \A id : Holds(c, id) => Holds(b, id)
<1>1. \A s \in Side, p \in Price : c[s][p] \in Seq(Entries(Ids)) /\ b[s][p] \in Seq(Entries(Ids))
  BY DEF BookOK
<1>2. \A s \in Side, p \in Price : \A i \in 1 .. Len(c[s][p]) :
        \E k \in 1 .. Len(b[s][p]) : c[s][p][i].id = b[s][p][k].id
  BY DEF Thins
<1>3. \A s \in Side : Tracked(c, s) \subseteq Tracked(b, s)
  <2> SUFFICES ASSUME NEW s \in Side, NEW p \in Price, c[s][p] # <<>>
               PROVE  b[s][p] # <<>>
    BY DEF Tracked
  <2>1. 1 \in 1 .. Len(c[s][p])
    BY <1>1
  <2>2. PICK k \in 1 .. Len(b[s][p]) : TRUE
    BY <1>2, <2>1
  <2> QED
    BY <2>2
<1>4. NotCrossed(c)
  BY <1>3 DEF BookOK, NotCrossed, Side
<1>5. IdsUnique(c)
  <2> SUFFICES ASSUME NEW s \in Side, NEW t \in Side, NEW p \in Price, NEW q \in Price,
                      NEW i \in 1 .. Len(c[s][p]), NEW j \in 1 .. Len(c[t][q]),
                      c[s][p][i].id = c[t][q][j].id
               PROVE  s = t /\ p = q /\ i = j
    BY DEF IdsUnique
  <2>1. PICK v \in [1 .. Len(c[s][p]) -> 1 .. Len(b[s][p])] :
          /\ \A m \in 1 .. Len(c[s][p]) : c[s][p][m].id = b[s][p][v[m]].id
          /\ \A m, n \in 1 .. Len(c[s][p]) : m < n => v[m] < v[n]
    <3>1. PICK g, f : g = c[s][p] /\ f = b[s][p]
      OBVIOUS
    <3>2. Thins(g, f)
      BY <3>1
    <3>3. \E v \in [1 .. Len(g) -> 1 .. Len(f)] :
            /\ \A m \in 1 .. Len(g) : g[m].id = f[v[m]].id
            /\ \A m, n \in 1 .. Len(g) : m < n => v[m] < v[n]
      BY <3>2 DEF Thins
    <3> QED
      BY <3>1, <3>3
  <2>2. PICK k \in 1 .. Len(b[t][q]) : c[t][q][j].id = b[t][q][k].id
    BY <1>2
  <2>3. v[i] \in 1 .. Len(b[s][p]) /\ b[s][p][v[i]].id = b[t][q][k].id
    BY <2>1, <2>2
  <2>4. s = t /\ p = q
    BY <2>3 DEF BookOK, IdsUnique
  <2>5. v[j] \in 1 .. Len(b[s][p]) /\ b[s][p][v[i]].id = b[s][p][v[j]].id
    BY <2>1, <2>4
  <2>6. v[i] = v[j]
    <3>1. \A x, y \in 1 .. Len(b[s][p]) : b[s][p][x].id = b[s][p][y].id => x = y
      BY DEF BookOK, IdsUnique
    <3> QED
      BY <2>3, <2>5, <3>1
  <2>7. /\ i \in Int /\ j \in Int /\ v[i] \in Int /\ j \in 1 .. Len(c[s][p])
        /\ i < j => v[i] < v[j]
        /\ j < i => v[j] < v[i]
    BY <2>1, <2>3, <2>4
  <2> QED
    BY <2>4, <2>6, <2>7
<1>6. ASSUME NEW id, Holds(c, id) PROVE Holds(b, id)
  <2>1. PICK s \in Side, p \in Price : \E i \in 1 .. Len(c[s][p]) : c[s][p][i].id = id
    BY <1>6 DEF Holds
  <2>2. PICK i \in 1 .. Len(c[s][p]) : c[s][p][i].id = id
    BY <2>1
  <2>3. \E j \in 1 .. Len(b[s][p]) : b[s][p][j].id = id
    BY <1>2, <2>2
  <2> QED
    BY <2>3 DEF Holds
<1> QED
  BY <1>3, <1>4, <1>5, <1>6 DEF BookOK

(* What rests, entry by entry.                                             *)
EntriesRest(b) ==
  \A s \in Side, p \in Price : \A i \in 1 .. Len(b[s][p]) :
    [id |-> b[s][p][i].id, qty |-> b[s][p][i].qty, side |-> s, price |-> p] \in Resting(b)

RestsIn(b, o) ==
  \E s \in Side, p \in Price : \E i \in 1 .. Len(b[s][p]) :
    o = [id |-> b[s][p][i].id, qty |-> b[s][p][i].qty, side |-> s, price |-> p]

LEMMA RestingEntries ==
  ASSUME NEW Ids, NEW b, BookOK(b, Ids)
  PROVE  EntriesRest(b) /\ \A o \in Resting(b) : RestsIn(b, o)
<1>1. \A s \in Side, p \in Price : DOMAIN b[s][p] = 1 .. Len(b[s][p])
  BY DEF BookOK
<1>2. ASSUME NEW s \in Side, NEW p \in Price, NEW i \in 1 .. Len(b[s][p])
      PROVE  [id |-> b[s][p][i].id, qty |-> b[s][p][i].qty, side |-> s, price |-> p]
               \in Resting(b)
  <2> DEFINE At(t, q) ==
               {[id |-> b[t][q][j].id, qty |-> b[t][q][j].qty, side |-> t, price |-> q] :
                  j \in DOMAIN b[t][q]}
  <2>1. [id |-> b[s][p][i].id, qty |-> b[s][p][i].qty, side |-> s, price |-> p] \in At(s, p)
    BY <1>1
  <2>2. Resting(b) = UNION {At(t, q) : t \in Side, q \in Price}
    BY DEF Resting
  <2> HIDE DEF At
  <2> QED
    BY <2>1, <2>2
<1>3. ASSUME NEW o \in Resting(b)
      PROVE  \E s \in Side, p \in Price : \E i \in 1 .. Len(b[s][p]) :
               o = [id |-> b[s][p][i].id, qty |-> b[s][p][i].qty, side |-> s, price |-> p]
  <2> DEFINE At(t, q) ==
               {[id |-> b[t][q][j].id, qty |-> b[t][q][j].qty, side |-> t, price |-> q] :
                  j \in DOMAIN b[t][q]}
  <2>1. Resting(b) = UNION {At(t, q) : t \in Side, q \in Price}
    BY DEF Resting
  <2>2. PICK s \in Side, p \in Price : o \in At(s, p)
    <3> HIDE DEF At
    <3> QED
      BY <2>1
  <2>3. PICK i \in 1 .. Len(b[s][p]) :
          o = [id |-> b[s][p][i].id, qty |-> b[s][p][i].qty, side |-> s, price |-> p]
    BY <1>1, <2>2
  <2> QED
    BY <2>3
<1> QED
  BY <1>2, <1>3 DEF EntriesRest, RestsIn

(* An id's quantity is that of the one entry that has it.                  *)
LEMMA OrderQty ==
  ASSUME NEW Ids, NEW b, BookOK(b, Ids)
  PROVE  /\ \A s \in Side, p \in Price : \A i \in 1 .. Len(b[s][p]) :
              /\ GetOrderQty(b, b[s][p][i].id) = b[s][p][i].qty
              /\ b[s][p][i].qty \in Nat \ {0} /\ b[s][p][i].id \in Ids
         /\ \A id : ~Holds(b, id) => GetOrderQty(b, id) = 0
         /\ \A id : GetOrderQty(b, id) \in Nat
<1>1. \A s \in Side, p \in Price :
        /\ DOMAIN b[s][p] = 1 .. Len(b[s][p])
        /\ \A i \in 1 .. Len(b[s][p]) : b[s][p][i].qty \in Nat \ {0} /\ b[s][p][i].id \in Ids
  <2> SUFFICES ASSUME NEW s \in Side, NEW p \in Price
               PROVE  /\ DOMAIN b[s][p] = 1 .. Len(b[s][p])
                      /\ \A i \in 1 .. Len(b[s][p]) :
                           b[s][p][i].qty \in Nat \ {0} /\ b[s][p][i].id \in Ids
    OBVIOUS
  <2>1. b[s][p] \in Seq(Entries(Ids))
    BY DEF BookOK
  <2> QED
    BY <2>1, FifoShares
<1>2. /\ \A s \in Side, p \in Price : \A i \in 1 .. Len(b[s][p]) :
           [id |-> b[s][p][i].id, qty |-> b[s][p][i].qty, side |-> s, price |-> p]
             \in Resting(b)
      /\ \A o \in Resting(b) : \E s \in Side, p \in Price : \E i \in 1 .. Len(b[s][p]) :
           o = [id |-> b[s][p][i].id, qty |-> b[s][p][i].qty, side |-> s, price |-> p]
  <2>1. EntriesRest(b) /\ \A o \in Resting(b) : RestsIn(b, o)
    BY RestingEntries
  <2> QED
    BY <2>1 DEF EntriesRest, RestsIn
<1>3. ASSUME NEW s \in Side, NEW p \in Price, NEW i \in 1 .. Len(b[s][p])
      PROVE  GetOrderQty(b, b[s][p][i].id) = b[s][p][i].qty
  <2> DEFINE id == b[s][p][i].id
             o == [id |-> id, qty |-> b[s][p][i].qty, side |-> s, price |-> p]
  <2>1. o \in Resting(b) /\ o.id = id
    BY <1>2
  <2>2. \A x \in Resting(b) : x.id = id => x.qty = b[s][p][i].qty
    <3> SUFFICES ASSUME NEW x \in Resting(b), x.id = id
                 PROVE  x.qty = b[s][p][i].qty
      OBVIOUS
    <3>1. PICK t \in Side, q \in Price : \E j \in 1 .. Len(b[t][q]) :
            x = [id |-> b[t][q][j].id, qty |-> b[t][q][j].qty, side |-> t, price |-> q]
      BY <1>2
    <3>2. PICK j \in 1 .. Len(b[t][q]) :
            x = [id |-> b[t][q][j].id, qty |-> b[t][q][j].qty, side |-> t, price |-> q]
      BY <3>1
    <3>3. x.id = b[t][q][j].id /\ x.qty = b[t][q][j].qty
      BY <3>2
    <3>4. b[t][q][j].id = b[s][p][i].id
      BY <3>3 DEF id
    <3>5. t = s /\ q = p /\ j = i
      BY <3>4 DEF BookOK, IdsUnique
    <3> QED
      BY <3>3, <3>5
  <2> HIDE DEF o, id
  <2>3. GetOrderQty(b, id) = (CHOOSE x \in Resting(b) : x.id = id).qty
    BY <2>1 DEF GetOrderQty
  <2>4. PICK c : c = CHOOSE x \in Resting(b) : x.id = id
    OBVIOUS
  <2>5. c \in Resting(b) /\ c.id = id
    BY <2>1, <2>4
  <2> QED
    BY <2>2, <2>3, <2>4, <2>5 DEF id
<1>4. ASSUME NEW id, ~Holds(b, id) PROVE GetOrderQty(b, id) = 0
  <2>1. ~\E o \in Resting(b) : o.id = id
    BY <1>2, <1>4 DEF Holds
  <2> QED
    BY <2>1 DEF GetOrderQty
<1>5. ASSUME NEW id, Holds(b, id) PROVE GetOrderQty(b, id) \in Nat
  <2>1. PICK s \in Side, p \in Price : \E i \in 1 .. Len(b[s][p]) : b[s][p][i].id = id
    BY <1>5 DEF Holds
  <2>2. PICK i \in 1 .. Len(b[s][p]) : b[s][p][i].id = id
    BY <2>1
  <2> QED
    BY <1>1, <1>3, <2>2
<1> QED
  BY <1>1, <1>3, <1>4, <1>5

LEMMA RestingIds ==
  ASSUME NEW Ids, NEW b, BookOK(b, Ids), NEW id
  PROVE  (\E o \in Resting(b) : o.id = id) <=> Holds(b, id)
<1>1. \A s \in Side, p \in Price : DOMAIN b[s][p] = 1 .. Len(b[s][p])
  BY DEF BookOK
<1>2. /\ \A s \in Side, p \in Price : \A i \in 1 .. Len(b[s][p]) :
           [id |-> b[s][p][i].id, qty |-> b[s][p][i].qty, side |-> s, price |-> p]
             \in Resting(b)
      /\ \A o \in Resting(b) : \E s \in Side, p \in Price : \E i \in 1 .. Len(b[s][p]) :
           o = [id |-> b[s][p][i].id, qty |-> b[s][p][i].qty, side |-> s, price |-> p]
  <2>1. EntriesRest(b) /\ \A o \in Resting(b) : RestsIn(b, o)
    BY RestingEntries
  <2> QED
    BY <2>1 DEF EntriesRest, RestsIn
<1>3. ASSUME Holds(b, id) PROVE \E o \in Resting(b) : o.id = id
  <2>1. PICK s \in Side, p \in Price : \E i \in 1 .. Len(b[s][p]) : b[s][p][i].id = id
    BY <1>3 DEF Holds
  <2>2. PICK i \in 1 .. Len(b[s][p]) : b[s][p][i].id = id
    BY <2>1
  <2> DEFINE o == [id |-> b[s][p][i].id, qty |-> b[s][p][i].qty, side |-> s, price |-> p]
  <2>3. o \in Resting(b) /\ o.id = id
    BY <1>2, <2>2
  <2> QED
    BY <2>3
<1>4. ASSUME NEW o \in Resting(b), o.id = id PROVE Holds(b, id)
  <2>1. PICK s \in Side, p \in Price : \E i \in 1 .. Len(b[s][p]) :
          o = [id |-> b[s][p][i].id, qty |-> b[s][p][i].qty, side |-> s, price |-> p]
    BY <1>2
  <2>2. PICK i \in 1 .. Len(b[s][p]) :
          o = [id |-> b[s][p][i].id, qty |-> b[s][p][i].qty, side |-> s, price |-> p]
    BY <2>1
  <2>3. b[s][p][i].id = id
    BY <1>4, <2>2
  <2> QED
    BY <2>3 DEF Holds
<1> QED
  BY <1>3, <1>4

(* A cancel takes out the id's entry and nothing else.                     *)
LEMMA CancelBook ==
  ASSUME NEW Ids, NEW b, BookOK(b, Ids), NEW id
  PROVE  /\ BookOK(CancelOrder(b, id), Ids)
         /\ ~Holds(CancelOrder(b, id), id)
         /\ \A s \in Side, p \in Price : Thins(CancelOrder(b, id)[s][p], b[s][p])
<1> DEFINE c == CancelOrder(b, id)
<1>1. \A s \in Side, p \in Price :
        c[s][p] = EntriesAt(b[s][p], {i \in DOMAIN b[s][p] : b[s][p][i].id # id})
  BY DEF CancelOrder, WithoutId
<1>2. \A s \in Side, p \in Price : b[s][p] \in Seq(Entries(Ids))
  BY DEF BookOK
<1>3. ASSUME NEW s \in Side, NEW p \in Price
      PROVE  c[s][p] \in Seq(Entries(Ids)) /\ Thins(c[s][p], b[s][p])
  <2>1. PICK f \in Seq(Entries(Ids)) : f = b[s][p]
    BY <1>2
  <2> DEFINE D == {i \in DOMAIN f : f[i].id # id}
  <2>2. c[s][p] = EntriesAt(f, D)
    BY <1>1, <2>1
  <2> HIDE DEF D, c
  <2>3. EntriesAt(f, D) \in Seq(Entries(Ids)) /\ Thins(EntriesAt(f, D), f)
    BY EntriesAtThins
  <2> QED
    BY <2>1, <2>2, <2>3
<1>4. c = [s \in Side |-> [p \in Price |-> c[s][p]]]
  BY DEF CancelOrder
<1> HIDE DEF c
<1>5. c \in [Side -> [Price -> Seq(Entries(Ids))]]
  BY <1>3, <1>4
<1>6. BookOK(c, Ids)
  BY <1>3, <1>5, ThinnedBook
<1>7. ASSUME NEW s \in Side, NEW p \in Price, NEW i \in 1 .. Len(c[s][p])
      PROVE  c[s][p][i].id # id
  <2> DEFINE D == {k \in DOMAIN b[s][p] : b[s][p][k].id # id}
  <2>0. PICK f \in Seq(Entries(Ids)) : f = b[s][p]
    BY <1>2
  <2>1. PICK g : f = b[s][p] /\ g = c[s][p]
    BY <2>0
  <2>2. g = EntriesAt(f, D)
    BY <1>1, <2>1
  <2> HIDE DEF D
  <2>3. PICK w : Positions(w, g, f, D, Len(f))
    BY <2>2, EntriesAtPositions
  <2>4. g[i] = f[w[i]] /\ w[i] \in D
    BY <2>1, <2>3 DEF Positions
  <2> QED
    BY <2>1, <2>4 DEF D
<1>8. ~Holds(c, id)
  BY <1>7 DEF Holds
<1> QED
  BY <1>3, <1>6, <1>8 DEF c

(* A reduction takes shares from the id's entry and nothing else.          *)
LEMMA ReduceBook ==
  ASSUME NEW Ids, NEW b, BookOK(b, Ids), NEW id, NEW delta \in Nat
  PROVE  /\ BookOK(ReduceOrder(b, id, delta), Ids)
         /\ \A s \in Side, p \in Price : Thins(ReduceOrder(b, id, delta)[s][p], b[s][p])
<1> DEFINE c == ReduceOrder(b, id, delta)
<1>1. CASE delta >= GetOrderQty(b, id)
  BY <1>1, CancelBook DEF ReduceOrder
<1>2. CASE ~(delta >= GetOrderQty(b, id))
  <2>1. c = [s \in Side |-> [p \in Price |->
              [i \in DOMAIN b[s][p] |->
                IF b[s][p][i].id = id THEN [b[s][p][i] EXCEPT !.qty = @ - delta]
                                      ELSE b[s][p][i]]]]
    BY <1>2 DEF ReduceOrder
  <2> HIDE DEF c
  <2>2. ASSUME NEW s \in Side, NEW p \in Price
        PROVE  c[s][p] \in Seq(Entries(Ids)) /\ Thins(c[s][p], b[s][p])
    <3>1. PICK f \in Seq(Entries(Ids)) : f = b[s][p]
      BY DEF BookOK
    <3>2. PICK g : g = c[s][p]
      OBVIOUS
    <3>3. /\ DOMAIN f = 1 .. Len(f) /\ Len(f) \in Nat
          /\ \A i \in 1 .. Len(f) : f[i].qty \in Nat \ {0} /\ f[i].id \in Ids
      BY FifoShares
    <3>4. \A i \in 1 .. Len(f) : f[i].id = id => f[i].qty = GetOrderQty(b, id)
      BY <3>1, OrderQty
    <3>5. g = [i \in 1 .. Len(f) |->
                IF f[i].id = id THEN [f[i] EXCEPT !.qty = @ - delta] ELSE f[i]]
      BY <2>1, <3>1, <3>2, <3>3
    <3>6. ASSUME NEW i \in 1 .. Len(f)
          PROVE  g[i] \in Entries(Ids) /\ g[i].id = f[i].id /\ g[i].qty <= f[i].qty
      <4>1. f[i] \in Entries(Ids) /\ f[i].qty \in Nat
        BY <3>3
      <4>2. CASE f[i].id = id
        <5>1. g[i] = [f[i] EXCEPT !.qty = @ - delta]
          BY <3>5, <4>2
        <5>2. f[i].qty - delta \in Nat \ {0} /\ f[i].qty - delta <= f[i].qty
          BY <1>2, <3>3, <3>4, <4>2
        <5> QED
          BY <4>1, <5>1, <5>2 DEF Entries
      <4>3. CASE f[i].id # id
        BY <3>5, <4>1, <4>3
      <4> QED
        BY <4>2, <4>3
    <3>7. g \in Seq(Entries(Ids)) /\ Len(g) = Len(f)
      BY <3>3, <3>5, <3>6
    <3>8. Thins(g, f)
      <4> DEFINE w == [i \in 1 .. Len(f) |-> i]
      <4>1. w \in [1 .. Len(f) -> 1 .. Len(f)] /\ \A i \in 1 .. Len(f) : w[i] = i
        OBVIOUS
      <4> HIDE DEF w
      <4> QED
        BY <3>6, <3>7, <4>1 DEF Thins
    <3> QED
      BY <3>1, <3>2, <3>7, <3>8
  <2>3. c = [s \in Side |-> [p \in Price |-> c[s][p]]]
    BY <2>1
  <2>4. c \in [Side -> [Price -> Seq(Entries(Ids))]]
    BY <2>2, <2>3
  <2> QED
    BY <2>2, <2>4, ThinnedBook DEF c
<1> QED
  BY <1>1, <1>2

(* An order that is new, not empty and out of the other side's reach may   *)
(* rest at the end of a level.                                             *)
LEMMA RestBook ==
  ASSUME NEW Ids, NEW b, BookOK(b, Ids), NEW s \in Side, NEW p \in Price,
         NEW id \in Ids, ~Holds(b, id), NEW n \in Nat \ {0},
         \A q \in Tracked(b, Opposite(s)) : ~Crosses(s, q, p)
  PROVE  BookOK([b EXCEPT ![s][p] = Append(@, [id |-> id, qty |-> n])], Ids)
<1> DEFINE e == [id |-> id, qty |-> n]
           c == [b EXCEPT ![s][p] = Append(@, e)]
<1>1. e \in Entries(Ids) /\ e.id = id
  BY DEF Entries
<1>2. PICK f \in Seq(Entries(Ids)) : f = b[s][p]
  BY DEF BookOK
<1>3. PICK g : g = Append(f, e)
  OBVIOUS
<1> HIDE DEF e
<1>4. /\ g \in Seq(Entries(Ids)) /\ Len(g) = Len(f) + 1 /\ Len(f) \in Nat
      /\ g[Len(f) + 1] = e /\ \A i \in 1 .. Len(f) : g[i] = f[i]
  BY <1>1, <1>3
<1>5. /\ c \in [Side -> [Price -> Seq(Entries(Ids))]]
      /\ c[s][p] = g
      /\ \A t \in Side, q \in Price : t # s \/ q # p => c[t][q] = b[t][q]
  BY <1>2, <1>3, <1>4 DEF BookOK
<1> HIDE DEF c
<1>6. NotCrossed(c)
  <2>1. \A t \in Side : Tracked(c, t) \subseteq Tracked(b, t) \cup (IF t = s THEN {p} ELSE {})
    BY <1>5 DEF Tracked
  <2>2. p \in Int /\ \A t \in Side : Tracked(b, t) \subseteq Int
    BY BookAssumption DEF Price, Tracked
  <2>3. CASE s = "buy"
    <3>1. \A q \in Tracked(b, "sell") : p < q
      BY <2>2, <2>3 DEF Opposite, Crosses, Side
    <3>2. Tracked(c, "buy") \subseteq Tracked(b, "buy") \cup {p}
          /\ Tracked(c, "sell") \subseteq Tracked(b, "sell")
      BY <2>1, <2>3 DEF Side
    <3> QED
      BY <3>1, <3>2 DEF BookOK, NotCrossed
  <2>4. CASE s = "sell"
    <3>1. \A q \in Tracked(b, "buy") : q < p
      BY <2>2, <2>4 DEF Opposite, Crosses, Side
    <3>2. Tracked(c, "sell") \subseteq Tracked(b, "sell") \cup {p}
          /\ Tracked(c, "buy") \subseteq Tracked(b, "buy")
      BY <2>1, <2>4 DEF Side
    <3> QED
      BY <3>1, <3>2 DEF BookOK, NotCrossed
  <2> QED
    BY <2>3, <2>4 DEF Side
<1>7. IdsUnique(c)
  <2>1. ASSUME NEW t \in Side, NEW q \in Price, NEW j \in 1 .. Len(c[t][q])
        PROVE  \/ /\ j \in 1 .. Len(b[t][q]) /\ c[t][q][j] = b[t][q][j]
                  /\ c[t][q][j].id # id
               \/ t = s /\ q = p /\ j = Len(f) + 1 /\ c[t][q][j].id = id
    <3>1. CASE t = s /\ q = p
      <4>1. j \in 1 .. Len(f) + 1 /\ c[t][q] = g
        BY <1>4, <1>5, <3>1
      <4>2. CASE j = Len(f) + 1
        BY <1>1, <1>4, <3>1, <4>1, <4>2
      <4>3. CASE j # Len(f) + 1
        <5>1. j \in 1 .. Len(b[t][q]) /\ c[t][q][j] = b[t][q][j]
          BY <1>2, <1>4, <3>1, <4>1, <4>3
        <5> QED
          BY <5>1 DEF Holds
      <4> QED
        BY <4>2, <4>3
    <3>2. CASE ~(t = s /\ q = p)
      <4>1. j \in 1 .. Len(b[t][q]) /\ c[t][q][j] = b[t][q][j]
        BY <1>5, <3>2
      <4> QED
        BY <4>1 DEF Holds
    <3> QED
      BY <3>1, <3>2
  <2> SUFFICES ASSUME NEW t \in Side, NEW u \in Side, NEW q \in Price, NEW r \in Price,
                      NEW i \in 1 .. Len(c[t][q]), NEW j \in 1 .. Len(c[u][r]),
                      c[t][q][i].id = c[u][r][j].id
               PROVE  t = u /\ q = r /\ i = j
    BY DEF IdsUnique
  <2>2. \/ /\ i \in 1 .. Len(b[t][q]) /\ c[t][q][i] = b[t][q][i]
           /\ c[t][q][i].id # id
        \/ t = s /\ q = p /\ i = Len(f) + 1 /\ c[t][q][i].id = id
    BY <2>1
  <2>3. \/ /\ j \in 1 .. Len(b[u][r]) /\ c[u][r][j] = b[u][r][j]
           /\ c[u][r][j].id # id
        \/ u = s /\ r = p /\ j = Len(f) + 1 /\ c[u][r][j].id = id
    BY <2>1
  <2>4. CASE c[t][q][i].id = id
    BY <2>2, <2>3, <2>4
  <2>5. CASE c[t][q][i].id # id
    <3>1. /\ i \in 1 .. Len(b[t][q]) /\ j \in 1 .. Len(b[u][r])
          /\ b[t][q][i].id = b[u][r][j].id
      BY <2>2, <2>3, <2>5
    <3> QED
      BY <3>1 DEF BookOK, IdsUnique
  <2> QED
    BY <2>4, <2>5
<1> QED
  BY <1>5, <1>6, <1>7 DEF BookOK, c, e

(* A sum of natural numbers over a part is at most that over the whole.    *)
LEMMA SumSubset ==
  ASSUME NEW S, IsFiniteSet(S), NEW f, \A x \in S : f[x] \in Nat, NEW R \in SUBSET S
  PROVE  /\ SumFunctionOnSet(f, R) \in Nat /\ SumFunctionOnSet(f, S) \in Nat
         /\ SumFunctionOnSet(f, R) <= SumFunctionOnSet(f, S)
<1> DEFINE G == {T \in SUBSET S :
                   SumFunctionOnSet(f, T \cap R) <= SumFunctionOnSet(f, T)}
<1>0. \A T \in SUBSET S : IsFiniteSet(T) /\ SumFunctionOnSet(f, T) \in Nat
  <2> SUFFICES ASSUME NEW T \in SUBSET S
               PROVE  IsFiniteSet(T) /\ SumFunctionOnSet(f, T) \in Nat
    OBVIOUS
  <2>1. IsFiniteSet(T) /\ \A x \in T : f[x] \in Nat
    BY FS_Subset
  <2> QED
    BY <2>1, SumType
<1>1. {} \in G
  <2>1. {} \cap R = {} /\ SumFunctionOnSet(f, {}) = 0
    BY SumEmpty
  <2> QED
    BY <2>1
<1>2. ASSUME NEW T \in SUBSET S, T # {}, \A x \in T : T \ {x} \in G
      PROVE  T \in G
  <2>1. PICK x \in T : TRUE
    BY <1>2
  <2> DEFINE U == T \ {x}
  <2>2. /\ U \in SUBSET S /\ U \cap R \in SUBSET S /\ IsFiniteSet(T) /\ f[x] \in Nat
        /\ \A y \in T : f[y] \in Int
    BY <1>0
  <2>3. SumFunctionOnSet(f, T) = f[x] + SumFunctionOnSet(f, U)
    BY <2>2, SumRemove
  <2>4. SumFunctionOnSet(f, U \cap R) <= SumFunctionOnSet(f, U)
    BY <1>2
  <2>5. PICK a \in Nat, c \in Nat :
          a = SumFunctionOnSet(f, U) /\ c = SumFunctionOnSet(f, U \cap R)
    BY <1>0, <2>2
  <2>6. CASE x \in R
    <3>1. T \cap R = (U \cap R) \cup {x} /\ x \notin U \cap R /\ IsFiniteSet(U \cap R)
      BY <1>0, <2>2, <2>6
    <3>2. SumFunctionOnSet(f, T \cap R) = f[x] + SumFunctionOnSet(f, U \cap R)
      BY <2>2, <3>1, SumAdd
    <3> HIDE DEF U
    <3> QED
      BY <2>2, <2>3, <2>4, <2>5, <3>2
  <2>7. CASE x \notin R
    <3>1. T \cap R = U \cap R
      BY <2>7
    <3>2. SumFunctionOnSet(f, T \cap R) = SumFunctionOnSet(f, U \cap R)
      BY <3>1
    <3>3. SumFunctionOnSet(f, T \cap R) <= SumFunctionOnSet(f, T)
      <4> HIDE DEF U, G
      <4> QED
        BY <2>2, <2>3, <2>4, <2>5, <3>2
    <3> QED
      BY <3>3
  <2> QED
    BY <2>6, <2>7
<1> HIDE DEF G
<1>3. \A T \in SUBSET S : T \in G
  BY <1>1, <1>2, SubsetInduction
<1>4. SumFunctionOnSet(f, S \cap R) <= SumFunctionOnSet(f, S) /\ S \cap R = R
  BY <1>3 DEF G
<1> QED
  BY <1>0, <1>4

-----------------------------------------------------------------------------
(* A side of a book has finitely many levels.                              *)
LEMMA TrackedFinite ==
  ASSUME NEW book, NEW s
  PROVE  /\ Tracked(book, s) \subseteq Price
         /\ IsFiniteSet(Tracked(book, s)) /\ Size(book, s) \in Nat
<1>1. IsFiniteSet(Price)
  BY BookAssumption, FS_Interval DEF Price
<1>2. Tracked(book, s) \in SUBSET Price
  BY DEF Tracked
<1>3. IsFiniteSet(Tracked(book, s))
  BY <1>1, <1>2, FS_Subset
<1> QED
  BY <1>2, <1>3, FS_CardinalityType DEF Size

(* The shares that an insertion finds ahead of a level, and those it finds *)
(* in all: never fewer than those ahead of and at a level that it crosses. *)
Queued(b, s, p) == SumFunctionOnSet([q \in Price |-> Volume(b[s][q])],
                                    {q \in Tracked(b, s) : Better(s, q, p)})

LEMMA MatchSums ==
  ASSUME NEW Ids, NEW b, BookOK(b, Ids), NEW s \in Side, NEW limit
  PROVE  /\ Available(b, s, limit) \in Nat
         /\ \A q \in Price :
              /\ Queued(b, Opposite(s), q) \in Nat
              /\ \A qty : MatchAt(b, s, limit, qty, q) =
                   IF Crosses(s, q, limit) /\ qty > Queued(b, Opposite(s), q)
                   THEN TakeFront(b[Opposite(s)][q], qty - Queued(b, Opposite(s), q))
                   ELSE b[Opposite(s)][q]
         /\ limit \in Int => \A q \in Tracked(b, Opposite(s)) : Crosses(s, q, limit) =>
              Queued(b, Opposite(s), q) + Volume(b[Opposite(s)][q]) <= Available(b, s, limit)
<1> DEFINE o == Opposite(s)
           v == [q \in Price |-> Volume(b[o][q])]
           T == Tracked(b, o)
           C == {q \in T : Crosses(s, q, limit)}
           A(p) == {q \in T : Better(o, q, p)}
<1>1. o \in Side /\ T \subseteq Price /\ IsFiniteSet(T)
  BY TrackedFinite DEF Opposite, Side
<1>2. \A q \in Price : v[q] = Volume(b[o][q]) /\ v[q] \in Nat
  <2> SUFFICES ASSUME NEW q \in Price PROVE Volume(b[o][q]) \in Nat
    OBVIOUS
  <2>1. b[o][q] \in Seq(Entries(Ids))
    BY <1>1 DEF BookOK
  <2> QED
    BY <2>1, FifoShares
<1> HIDE DEF o
<1>3. \A R \in SUBSET T : IsFiniteSet(R) /\ R \subseteq Price
  BY <1>1, FS_Subset
<1>4. \A R \in SUBSET T : /\ SumFunction([q \in R |-> Volume(b[o][q])]) = SumFunctionOnSet(v, R)
                          /\ SumFunctionOnSet(v, R) \in Nat
  <2> SUFFICES ASSUME NEW R \in SUBSET T
               PROVE  /\ SumFunction([q \in R |-> Volume(b[o][q])]) = SumFunctionOnSet(v, R)
                      /\ SumFunctionOnSet(v, R) \in Nat
    OBVIOUS
  <2> DEFINE f == [q \in R |-> Volume(b[o][q])]
  <2>1. IsFiniteSet(R) /\ DOMAIN f = R /\ \A q \in R : f[q] = v[q] /\ v[q] \in Nat
    BY <1>2, <1>3
  <2> HIDE DEF f, v
  <2> QED
    BY <2>1, TotalSame, SumType DEF f
<1>5. C \in SUBSET T /\ \A p : A(p) \in SUBSET T
  OBVIOUS
<1>6. Available(b, s, limit) = SumFunctionOnSet(v, C)
  <2>1. Available(b, s, limit) = SumFunction([q \in C |-> Volume(b[o][q])])
    BY DEF Available, o
  <2> HIDE DEF C, v
  <2> QED
    BY <1>4, <1>5, <2>1
<1>7. Available(b, s, limit) \in Nat
  BY <1>4, <1>5, <1>6
<1>8. \A p : Queued(b, o, p) = SumFunctionOnSet(v, A(p)) /\ Queued(b, o, p) \in Nat
  BY <1>4, <1>5 DEF Queued
<1>9. ASSUME NEW q \in Price, NEW qty
      PROVE  MatchAt(b, s, limit, qty, q) =
               IF Crosses(s, q, limit) /\ qty > Queued(b, o, q)
               THEN TakeFront(b[o][q], qty - Queued(b, o, q)) ELSE b[o][q]
  <2>1. SumFunction([p \in A(q) |-> Volume(b[o][p])]) = Queued(b, o, q)
    <3> HIDE DEF A, v
    <3> QED
      BY <1>4, <1>5, <1>8
  <2> QED
    BY <2>1 DEF MatchAt, o
<1>10. ASSUME NEW q \in T, Crosses(s, q, limit), limit \in Int
       PROVE  Queued(b, o, q) + Volume(b[o][q]) <= Available(b, s, limit)
  <2>1. q \notin A(q) /\ A(q) \cup {q} \in SUBSET C
    <3>1. q \in Int /\ T \subseteq Int
      BY <1>1, BookAssumption DEF Price
    <3>2. q \notin A(q)
      BY <3>1 DEF Better
    <3>3. \A p \in T : Better(o, p, q) => Crosses(s, p, limit)
      BY <1>10, <3>1 DEF Better, Crosses, o, Opposite, Side
    <3> QED
      BY <1>10, <3>2, <3>3
  <2>2. SumFunctionOnSet(v, A(q) \cup {q}) = v[q] + SumFunctionOnSet(v, A(q))
    <3>1. IsFiniteSet(A(q)) /\ A(q) \subseteq Price /\ q \in Price
      BY <1>1, <1>3, <1>5
    <3>2. v[q] \in Int /\ \A y \in A(q) : v[y] \in Int
      BY <1>2, <3>1
    <3> HIDE DEF A, v
    <3> QED
      BY <2>1, <3>1, <3>2, SumAdd
  <2>3. SumFunctionOnSet(v, A(q) \cup {q}) <= SumFunctionOnSet(v, C)
    <3>1. IsFiniteSet(C) /\ \A x \in C : v[x] \in Nat
      BY <1>2, <1>3, <1>5
    <3> HIDE DEF A, v, C
    <3> QED
      BY <2>1, <3>1, SumSubset
  <2>4. v[q] = Volume(b[o][q]) /\ v[q] \in Nat
    BY <1>1, <1>2
  <2> HIDE DEF A, v, C
  <2>5. PICK x \in Nat, y \in Nat : x = Volume(b[o][q]) /\ y = Queued(b, o, q)
    BY <1>8, <2>4
  <2> QED
    BY <1>6, <1>8, <2>2, <2>3, <2>4, <2>5
<1> QED
  BY <1>7, <1>8, <1>9, <1>10 DEF o

(* The book that the matching loop of an insertion leaves.                 *)
Matched(b, s, p, qty) ==
  [b EXCEPT ![Opposite(s)] = [q \in Price |-> MatchAt(b, s, p, qty, q)]]

LEMMA MatchedBook ==
  ASSUME NEW Ids, NEW b, BookOK(b, Ids), NEW s \in Side, NEW p \in Price, NEW qty \in Nat
  PROVE  /\ BookOK(Matched(b, s, p, qty), Ids)
         /\ \A t \in Side, q \in Price : Thins(Matched(b, s, p, qty)[t][q], b[t][q])
         /\ \A q \in Price : Matched(b, s, p, qty)[s][q] = b[s][q]
         /\ \A id : Holds(Matched(b, s, p, qty), id) => Holds(b, id)
         /\ Available(b, s, p) < qty =>
              \A q \in Tracked(Matched(b, s, p, qty), Opposite(s)) : ~Crosses(s, q, p)
<1> DEFINE c == Matched(b, s, p, qty)
           o == Opposite(s)
<1>1. s \in Side /\ o \in Side /\ s # o /\ \A t \in Side : t = s \/ t = o
  BY DEF Opposite, Side
<1>2. \A t \in Side, q \in Price : b[t][q] \in Seq(Entries(Ids))
  BY DEF BookOK
<1>a. /\ c = [t \in Side |-> c[t]]
      /\ \A t \in Side : c[t] = [q \in Price |-> c[t][q]]
      /\ \A q \in Price : c[s][q] = b[s][q] /\ c[o][q] = MatchAt(b, s, p, qty, q)
  <2>1. b \in [Side -> [Price -> Seq(Entries(Ids))]]
    BY DEF BookOK
  <2>2. c = [b EXCEPT ![o] = [q \in Price |-> MatchAt(b, s, p, qty, q)]]
    BY DEF Matched
  <2> HIDE DEF c, o
  <2>3. c[o] = [q \in Price |-> MatchAt(b, s, p, qty, q)] /\ c[s] = b[s] /\ DOMAIN c = Side
        /\ c = [t \in Side |-> c[t]]
    BY <1>1, <2>1, <2>2
  <2>4. \A t \in Side : c[t] = [q \in Price |-> c[t][q]]
    BY <1>1, <2>1, <2>3
  <2> QED
    BY <2>3, <2>4
<1>3. /\ Available(b, s, p) \in Nat
      /\ \A q \in Price : /\ Queued(b, o, q) \in Nat
                          /\ MatchAt(b, s, p, qty, q) =
                               IF Crosses(s, q, p) /\ qty > Queued(b, o, q)
                               THEN TakeFront(b[o][q], qty - Queued(b, o, q)) ELSE b[o][q]
      /\ \A q \in Tracked(b, o) : Crosses(s, q, p) =>
           Queued(b, o, q) + Volume(b[o][q]) <= Available(b, s, p)
  <2>1. p \in Int
    BY BookAssumption DEF Price
  <2> QED
    BY <2>1, MatchSums
<1> HIDE DEF c, o
<1>4. ASSUME NEW q \in Price
      PROVE  c[o][q] \in Seq(Entries(Ids)) /\ Thins(c[o][q], b[o][q])
  <2>1. PICK f \in Seq(Entries(Ids)) : f = b[o][q]
    BY <1>1, <1>2
  <2>2. CASE Crosses(s, q, p) /\ qty > Queued(b, o, q)
    <3>1. PICK n \in Nat : n = qty - Queued(b, o, q)
      BY <1>3, <2>2
    <3>2. c[o][q] = TakeFront(f, n)
      BY <1>a, <1>3, <2>1, <2>2, <3>1
    <3> QED
      BY <2>1, <3>2, TakeFrontThins
  <2>3. CASE ~(Crosses(s, q, p) /\ qty > Queued(b, o, q))
    <3>1. c[o][q] = f
      BY <1>a, <1>3, <2>1, <2>3
    <3> QED
      BY <2>1, <3>1, ThinsSelf
  <2> QED
    BY <2>2, <2>3
<1>5. ASSUME NEW q \in Price
      PROVE  c[s][q] \in Seq(Entries(Ids)) /\ Thins(c[s][q], b[s][q])
  <2>1. PICK f \in Seq(Entries(Ids)) : f = b[s][q] /\ f = c[s][q]
    BY <1>1, <1>2, <1>a
  <2> QED
    BY <2>1, ThinsSelf
<1>6. c \in [Side -> [Price -> Seq(Entries(Ids))]]
  BY <1>1, <1>a, <1>4, <1>5
<1>7. \A t \in Side, q \in Price : Thins(c[t][q], b[t][q])
  BY <1>1, <1>4, <1>5
<1>8. BookOK(c, Ids) /\ \A id : Holds(c, id) => Holds(b, id)
  BY <1>6, <1>7, ThinnedBook
<1>9. ASSUME Available(b, s, p) < qty, NEW q \in Tracked(c, o), Crosses(s, q, p)
      PROVE  FALSE
  <2>1. q \in Price /\ c[o][q] # <<>>
    BY DEF Tracked
  <2>2. q \in Tracked(b, o)
    BY <1>1, <1>6, <1>7, ThinnedBook
  <2>3. PICK f \in Seq(Entries(Ids)) : f = b[o][q]
    BY <1>1, <1>2, <2>1
  <2>4. Volume(f) \in Nat
    BY FifoShares
  <2>5. /\ Queued(b, o, q) + Volume(f) <= Available(b, s, p)
        /\ Queued(b, o, q) \in Nat
    BY <1>3, <1>9, <2>1, <2>2, <2>3
  <2>6. PICK n \in Nat : n = qty - Queued(b, o, q) /\ n >= Volume(f) /\ qty > Queued(b, o, q)
    BY <1>3, <1>9, <2>4, <2>5
  <2>7. c[o][q] = TakeFront(f, n)
    BY <1>a, <1>3, <1>9, <2>1, <2>3, <2>6
  <2>8. TakeFront(f, n) = <<>>
    BY <2>6 DEF TakeFront
  <2> QED
    BY <2>1, <2>7, <2>8
<1> QED
  BY <1>a, <1>7, <1>8, <1>9 DEF c, o

(* An insertion matches and then rests what is left.                       *)
LEMMA InsertBook ==
  ASSUME NEW Ids, NEW b, BookOK(b, Ids), NEW s \in Side, NEW p, NEW qty \in Nat,
         NEW id \in Ids
  PROVE  /\ BookOK(InsertOrder(b, id, s, p, qty), Ids)
         /\ Insertable(b, id, p, qty) =>
              /\ p \in Price /\ qty > 0 /\ ~Holds(b, id)
              /\ InsertOrder(b, id, s, p, qty) =
                   IF Available(b, s, p) < qty
                   THEN [Matched(b, s, p, qty) EXCEPT
                          ![s][p] = Append(@, [id |-> id, qty |-> qty - Available(b, s, p)])]
                   ELSE Matched(b, s, p, qty)
<1>1. CASE ~Insertable(b, id, p, qty)
  BY <1>1 DEF InsertOrder
<1>2. CASE Insertable(b, id, p, qty)
  <2> DEFINE n == qty - Available(b, s, p)
             c == Matched(b, s, p, qty)
             e == [id |-> id, qty |-> n]
  <2>1. p \in Price /\ qty > 0 /\ ~Holds(b, id)
    <3>1. ~\E o \in Resting(b) : o.id = id
      BY <1>2 DEF Insertable
    <3>2. ~Holds(b, id)
      BY <3>1, RestingIds
    <3> QED
      BY <1>2, <3>2 DEF Insertable
  <2>2. /\ BookOK(c, Ids) /\ ~Holds(c, id) /\ \A q \in Price : c[s][q] = b[s][q]
        /\ Available(b, s, p) < qty => \A q \in Tracked(c, Opposite(s)) : ~Crosses(s, q, p)
    BY <2>1, MatchedBook
  <2>3. Available(b, s, p) \in Nat
    BY MatchSums
  <2>4. s # Opposite(s) /\ Opposite(s) \in Side
    BY DEF Opposite, Side
  <2>5. c \in [Side -> [Price -> Seq(Entries(Ids))]] /\ b \in [Side -> [Price -> Seq(Entries(Ids))]]
    BY <2>2 DEF BookOK
  <2>6. InsertOrder(b, id, s, p, qty) =
          [b EXCEPT ![Opposite(s)] = [q \in Price |-> MatchAt(b, s, p, qty, q)],
                    ![s][p] = IF Available(b, s, p) < qty THEN Append(@, e) ELSE @]
    BY <1>2 DEF InsertOrder
  <2>7. c = [b EXCEPT ![Opposite(s)] = [q \in Price |-> MatchAt(b, s, p, qty, q)]]
    BY DEF Matched
  <2> HIDE DEF c, e, n
  <2>8. InsertOrder(b, id, s, p, qty) =
          [c EXCEPT ![s][p] = IF Available(b, s, p) < qty THEN Append(@, e) ELSE @]
    BY <2>1, <2>4, <2>5, <2>6, <2>7
  <2>9. CASE Available(b, s, p) < qty
    <3>1. InsertOrder(b, id, s, p, qty) = [c EXCEPT ![s][p] = Append(@, e)]
      BY <2>8, <2>9
    <3>2. n \in Nat \ {0}
      BY <2>3, <2>9 DEF n
    <3>3. BookOK([c EXCEPT ![s][p] = Append(@, [id |-> id, qty |-> n])], Ids)
      BY <2>1, <2>2, <2>9, <3>2, RestBook
    <3> QED
      BY <2>1, <2>9, <3>1, <3>3 DEF c, e, n
  <2>10. CASE ~(Available(b, s, p) < qty)
    <3>1. InsertOrder(b, id, s, p, qty) = [c EXCEPT ![s][p] = @]
      BY <2>8, <2>10
    <3>2. InsertOrder(b, id, s, p, qty) = c
      BY <2>5, <3>1
    <3> QED
      BY <2>1, <2>2, <2>10, <3>2 DEF c
  <2> QED
    BY <2>9, <2>10
<1> QED
  BY <1>1, <1>2

\* The book with n shares of id at the end of a level.
Stacked(b, s, p, id, n) == [b EXCEPT ![s][p] = Append(@, [id |-> id, qty |-> n])]

\* Nothing on the other side would trade with an order for side s at p.
Clear(b, s, p) == \A q \in Tracked(b, Opposite(s)) : ~Crosses(s, q, p)

(* When nothing it could meet crosses it, an insertion only rests.         *)
LEMMA QuietInsert ==
  ASSUME NEW Ids, NEW b, BookOK(b, Ids), NEW s \in Side, NEW p, NEW qty \in Nat,
         NEW id \in Ids, Clear(b, s, p)
  PROVE  /\ InsertOrder(b, id, s, p, qty) =
              IF Insertable(b, id, p, qty)
              THEN Stacked(b, s, p, id, qty) ELSE b
         /\ Fills(b, id, s, p, qty) = {}
<1> DEFINE a == InsertOrder(b, id, s, p, qty)
           e == [id |-> id, qty |-> qty]
           o == Opposite(s)
<1>0. b \in [Side -> [Price -> Seq(Entries(Ids))]] /\ o \in Side /\ s # o
  BY DEF BookOK, Opposite, Side
<1>1. a = IF Insertable(b, id, p, qty) THEN [b EXCEPT ![s][p] = Append(@, e)] ELSE b
  <2>1. CASE ~Insertable(b, id, p, qty)
    BY <2>1 DEF InsertOrder
  <2>2. CASE Insertable(b, id, p, qty)
    <3>1. /\ p \in Price /\ qty > 0
          /\ a = IF Available(b, s, p) < qty
                 THEN [Matched(b, s, p, qty) EXCEPT
                        ![s][p] = Append(@, [id |-> id, qty |-> qty - Available(b, s, p)])]
                 ELSE Matched(b, s, p, qty)
      BY <2>2, InsertBook
    <3>2. Available(b, s, p) = 0
      <4>1. {q \in Tracked(b, o) : Crosses(s, q, p)} = {}
        BY DEF Clear
      <4>2. Available(b, s, p) = SumFunction([q \in {} |-> Volume(b[o][q])])
        BY <4>1 DEF Available
      <4>3. DOMAIN [q \in {} |-> Volume(b[o][q])] = {}
        OBVIOUS
      <4> QED
        BY <4>2, <4>3, SumEmpty DEF SumFunction
    <3>3. \A q \in Price : MatchAt(b, s, p, qty, q) = b[o][q]
      <4> SUFFICES ASSUME NEW q \in Price PROVE MatchAt(b, s, p, qty, q) = b[o][q]
        OBVIOUS
      <4>1. PICK f \in Seq(Entries(Ids)) : f = b[o][q]
        BY <1>0
      <4>2. MatchAt(b, s, p, qty, q) =
              IF Crosses(s, q, p) /\ qty > Queued(b, o, q)
              THEN TakeFront(f, qty - Queued(b, o, q)) ELSE f
        BY <4>1, MatchSums
      <4>3. CASE f = <<>>
        <5>1. /\ Queued(b, o, q) \in Nat
              /\ Volume(f) = 0
          BY <4>3, MatchSums, FifoShares
        <5>2. \A n \in Nat : TakeFront(f, n) = <<>>
          BY <5>1, <4>3 DEF TakeFront
        <5>3. qty > Queued(b, o, q) => qty - Queued(b, o, q) \in Nat
          BY <5>1
        <5> QED
          BY <4>1, <4>2, <4>3, <5>2, <5>3
      <4>4. CASE f # <<>>
        <5>1. q \in Tracked(b, o)
          BY <4>1, <4>4 DEF Tracked
        <5> QED
          BY <4>1, <4>2, <5>1 DEF Clear
      <4> QED
        BY <4>3, <4>4
    <3>4. Matched(b, s, p, qty) = b
      <4>1. [q \in Price |-> MatchAt(b, s, p, qty, q)] = b[o]
        BY <1>0, <3>3
      <4> QED
        BY <1>0, <4>1 DEF Matched
    <3>5. a = [b EXCEPT ![s][p] = Append(@, [id |-> id, qty |-> qty - Available(b, s, p)])]
      <4> HIDE DEF a
      <4> QED
        BY <3>1, <3>2, <3>4
    <3>6. qty - Available(b, s, p) = qty
      BY <3>2
    <3>7. a = [b EXCEPT ![s][p] = Append(@, e)]
      <4> HIDE DEF a
      <4> QED
        BY <3>5, <3>6
    <3> QED
      BY <2>2, <3>7
  <2> QED
    BY <2>1, <2>2
<1>2. BookOK(a, Ids)
  BY InsertBook
<1> HIDE DEF a, o
<1>3. ASSUME NEW r \in Resting(b) PROVE GetOrderQty(a, r.id) = r.qty
  <2>1. PICK t \in Side, q \in Price : \E i \in 1 .. Len(b[t][q]) :
          r = [id |-> b[t][q][i].id, qty |-> b[t][q][i].qty, side |-> t, price |-> q]
    <3>1. RestsIn(b, r)
      BY RestingEntries
    <3> QED
      BY <3>1 DEF RestsIn
  <2>2. PICK i \in 1 .. Len(b[t][q]) :
          r = [id |-> b[t][q][i].id, qty |-> b[t][q][i].qty, side |-> t, price |-> q]
    BY <2>1
  <2>3. i \in 1 .. Len(a[t][q]) /\ a[t][q][i] = b[t][q][i]
    <3>1. PICK f \in Seq(Entries(Ids)) : f = b[t][q]
      BY <1>0
    <3>2. a[t][q] = f \/ a[t][q] = Append(f, e)
      BY <1>0, <1>1, <3>1
    <3>3. i \in 1 .. Len(f) /\ Len(Append(f, e)) = Len(f) + 1 /\ Append(f, e)[i] = f[i]
          /\ Len(f) \in Nat
      BY <2>2, <3>1
    <3> HIDE DEF e
    <3> QED
      BY <3>1, <3>2, <3>3
  <2>4. GetOrderQty(a, a[t][q][i].id) = a[t][q][i].qty
    <3>1. \A u \in Side, w \in Price : \A j \in 1 .. Len(a[u][w]) :
            GetOrderQty(a, a[u][w][j].id) = a[u][w][j].qty
      BY <1>2, OrderQty
    <3> QED
      BY <2>3, <3>1
  <2>5. r.id = b[t][q][i].id /\ r.qty = b[t][q][i].qty
    BY <2>2
  <2> QED
    BY <2>3, <2>4, <2>5
<1>4. {r \in Resting(b) : GetOrderQty(a, r.id) # r.qty} = {}
  BY <1>3
<1>5. Fills(b, id, s, p, qty) = {}
  BY <1>4 DEF Fills, a
<1> QED
  BY <1>1, <1>5 DEF a, e, Stacked

-----------------------------------------------------------------------------
(* All the entries of a FIFO are the FIFO.                                 *)
LEMMA EntriesAtAll ==
  ASSUME NEW E, NEW f \in Seq(E), NEW D, \A i \in 1 .. Len(f) : i \in D
  PROVE  EntriesAt(f, D) = f
<1> DEFINE G == {g \in Seq(E) : \A C : (\A i \in 1 .. Len(g) : i \in C) => EntriesAt(g, C) = g}
<1>1. <<>> \in G
  BY EntriesAtEmpty
<1>2. ASSUME NEW g \in Seq(E), NEW x \in E, g \in G PROVE Append(g, x) \in G
  <2>1. PICK h : h = Append(g, x)
    OBVIOUS
  <2>2. h \in Seq(E) /\ Len(h) = Len(g) + 1 /\ Len(g) \in Nat
    BY <2>1
  <2>3. ASSUME NEW C, \A i \in 1 .. Len(h) : i \in C PROVE EntriesAt(h, C) = h
    <3>1. \A i \in 1 .. Len(g) : i \in C
      BY <2>2, <2>3
    <3>2. EntriesAt(g, C) = g
      BY <1>2, <3>1
    <3>3. EntriesAt(Append(g, x), C)
            = IF Len(g) + 1 \in C THEN Append(EntriesAt(g, C), x) ELSE EntriesAt(g, C)
      BY EntriesAtAppend
    <3>4. Len(g) + 1 \in C
      BY <2>2, <2>3
    <3> QED
      BY <2>1, <3>2, <3>3, <3>4
  <2> QED
    BY <2>1, <2>2, <2>3
<1> HIDE DEF G
<1>3. \A g \in Seq(E) : g \in G
  BY <1>1, <1>2, SeqInduction
<1>4. f \in G
  BY <1>3
<1> QED
  BY <1>4 DEF G

\* No entry of a FIFO has the id.
Lacks(f, id) == \A i \in 1 .. Len(f) : f[i].id # id

LEMMA WithoutLacking ==
  ASSUME NEW Ids, NEW f \in Seq(Entries(Ids)), NEW id, Lacks(f, id)
  PROVE  WithoutId(f, id) = f
<1> DEFINE D == {i \in DOMAIN f : f[i].id # id}
<1>1. DOMAIN f = 1 .. Len(f)
  OBVIOUS
<1>2. \A i \in 1 .. Len(f) : i \in D
  BY <1>1 DEF Lacks
<1> HIDE DEF D
<1>3. EntriesAt(f, D) = f
  BY <1>2, EntriesAtAll
<1> QED
  BY <1>3 DEF WithoutId, D

(* A cancel or a reduction leaves alone every level where the id is not.   *)
LEMMA ReducedElsewhere ==
  ASSUME NEW Ids, NEW b, BookOK(b, Ids), NEW id, NEW delta,
         NEW s \in Side, NEW p \in Price, Lacks(b[s][p], id)
  PROVE  /\ CancelOrder(b, id)[s][p] = b[s][p]
         /\ ReduceOrder(b, id, delta)[s][p] = b[s][p]
<1>1. PICK f \in Seq(Entries(Ids)) : f = b[s][p]
  BY DEF BookOK
<1>2. CancelOrder(b, id)[s][p] = b[s][p]
  <2>1. CancelOrder(b, id)[s][p] = WithoutId(b[s][p], id)
    BY DEF CancelOrder
  <2>2. Lacks(f, id)
    BY <1>1
  <2>3. WithoutId(f, id) = f
    BY <2>2, WithoutLacking
  <2> QED
    BY <1>1, <2>1, <2>3
<1>3. CASE delta >= GetOrderQty(b, id)
  BY <1>2, <1>3 DEF ReduceOrder
<1>4. CASE ~(delta >= GetOrderQty(b, id))
  <2>1. ReduceOrder(b, id, delta)[s][p] =
          [i \in DOMAIN b[s][p] |->
            IF b[s][p][i].id = id THEN [b[s][p][i] EXCEPT !.qty = @ - delta] ELSE b[s][p][i]]
    BY <1>4 DEF ReduceOrder
  <2>2. DOMAIN f = 1 .. Len(f) /\ f = [i \in 1 .. Len(f) |-> f[i]]
    OBVIOUS
  <2>3. \A i \in 1 .. Len(f) : f[i].id # id
    BY <1>1 DEF Lacks
  <2>4. ReduceOrder(b, id, delta)[s][p] =
          [i \in 1 .. Len(f) |->
            IF f[i].id = id THEN [f[i] EXCEPT !.qty = @ - delta] ELSE f[i]]
    BY <1>1, <2>1, <2>2
  <2>5. [i \in 1 .. Len(f) |->
            IF f[i].id = id THEN [f[i] EXCEPT !.qty = @ - delta] ELSE f[i]]
          = [i \in 1 .. Len(f) |-> f[i]]
    BY <2>3, Zenon
  <2> QED
    BY <1>1, <1>2, <2>2, <2>4, <2>5, Zenon
<1> QED
  BY <1>2, <1>3, <1>4

(* The id of an order that rests is at its level only.                     *)
LEMMA RestingLevel ==
  ASSUME NEW Ids, NEW b, BookOK(b, Ids), NEW o \in Resting(b)
  PROVE  /\ o.side \in Side /\ o.price \in Price /\ o.id \in Ids /\ o.qty \in Nat \ {0}
         /\ GetOrderQty(b, o.id) = o.qty
         /\ \E i \in 1 .. Len(b[o.side][o.price]) : /\ b[o.side][o.price][i].id = o.id
                                                   /\ b[o.side][o.price][i].qty = o.qty
         /\ \A t \in Side, q \in Price : t # o.side \/ q # o.price => Lacks(b[t][q], o.id)
<1>1. PICK s \in Side, p \in Price : \E i \in 1 .. Len(b[s][p]) :
        o = [id |-> b[s][p][i].id, qty |-> b[s][p][i].qty, side |-> s, price |-> p]
  <2>1. RestsIn(b, o)
    BY RestingEntries
  <2> QED
    BY <2>1 DEF RestsIn
<1>2. PICK i \in 1 .. Len(b[s][p]) :
        o = [id |-> b[s][p][i].id, qty |-> b[s][p][i].qty, side |-> s, price |-> p]
  BY <1>1
<1>3. o.side = s /\ o.price = p /\ o.id = b[s][p][i].id /\ o.qty = b[s][p][i].qty
  BY <1>2
<1>4. /\ GetOrderQty(b, b[s][p][i].id) = b[s][p][i].qty
      /\ b[s][p][i].qty \in Nat \ {0} /\ b[s][p][i].id \in Ids
  BY OrderQty
<1>5. ASSUME NEW t \in Side, NEW q \in Price, t # s \/ q # p PROVE Lacks(b[t][q], o.id)
  BY <1>3, <1>5 DEF BookOK, IdsUnique, Lacks
<1> QED
  BY <1>3, <1>4, <1>5

(* A book that has the same levels but for one that is not the best has    *)
(* the same touch.                                                         *)
LEMMA SameBest ==
  ASSUME NEW b, NEW c, NEW s \in Side, NEW p \in Price,
         \A t \in Side, q \in Price : t # s \/ q # p => (q \in Tracked(b, t) <=> q \in Tracked(c, t)),
         NEW better \in Tracked(b, s), Better(s, better, p)
  PROVE  BestBid(c) = BestBid(b) /\ BestAsk(c) = BestAsk(b)
<1>1. /\ p \in Int /\ \A t \in Side, d \in {b, c} : Tracked(d, t) \subseteq Int /\ Tracked(d, t) \subseteq Price
      /\ NO_ASK \in Int
  BY BookAssumption DEF Price, Tracked
<1>2. better # p /\ better \in Tracked(c, s) /\ better \in Price
  BY <1>1 DEF Better
<1>3. CASE s = "buy"
  <2>1. Tracked(b, "sell") = Tracked(c, "sell")
    BY <1>1, <1>3 DEF Side
  <2>2. Tracked(b, "buy") \ {p} = Tracked(c, "buy") \ {p}
    BY <1>1, <1>3 DEF Side
  <2>3. Max(Tracked(b, "buy")) = Max(Tracked(c, "buy"))
    <3>1. \A x : (x \in Tracked(b, "buy") /\ \A y \in Tracked(b, "buy") : x >= y)
             <=> (x \in Tracked(c, "buy") /\ \A y \in Tracked(c, "buy") : x >= y)
      BY <1>1, <1>2, <1>3, <2>2 DEF Better
    <3> QED
      BY <3>1 DEF Max
  <2> QED
    BY <1>2, <1>3, <2>1, <2>3 DEF BestBid, BestAsk
<1>4. CASE s = "sell"
  <2>1. Tracked(b, "buy") = Tracked(c, "buy")
    BY <1>1, <1>4 DEF Side
  <2>2. Tracked(b, "sell") \ {p} = Tracked(c, "sell") \ {p}
    BY <1>1, <1>4 DEF Side
  <2>3. Min(Tracked(b, "sell")) = Min(Tracked(c, "sell"))
    <3>1. \A x : (x \in Tracked(b, "sell") /\ \A y \in Tracked(b, "sell") : x <= y)
             <=> (x \in Tracked(c, "sell") /\ \A y \in Tracked(c, "sell") : x <= y)
      BY <1>1, <1>2, <1>4, <2>2 DEF Better
    <3> QED
      BY <3>1 DEF Min
  <2> QED
    BY <1>2, <1>4, <2>1, <2>3 DEF BestBid, BestAsk
<1> QED
  BY <1>3, <1>4 DEF Side

LEMMA StackedElsewhere ==
  ASSUME NEW Ids, NEW b, BookOK(b, Ids), NEW s \in Side, NEW p \in Price, NEW id, NEW n
  PROVE  /\ Stacked(b, s, p, id, n)[s][p] = Append(b[s][p], [id |-> id, qty |-> n])
         /\ \A t \in Side, q \in Price : t # s \/ q # p =>
              Stacked(b, s, p, id, n)[t][q] = b[t][q]
<1> DEFINE c == Stacked(b, s, p, id, n)
           e == [id |-> id, qty |-> n]
<1>1. b \in [Side -> [Price -> Seq(Entries(Ids))]]
  BY DEF BookOK
<1> HIDE DEF e
<1>2. c = [b EXCEPT ![s][p] = Append(@, e)]
  BY DEF Stacked, e
<1> HIDE DEF c
<1>3. /\ c[s][p] = Append(b[s][p], e)
      /\ \A t \in Side, q \in Price : t # s \/ q # p => c[t][q] = b[t][q]
  BY <1>1, <1>2
<1> QED
  BY <1>3 DEF c, e

(* The best ask is not above any ask and is one of them, if there is any.  *)
LEMMA TouchFacts ==
  ASSUME NEW b
  PROVE  /\ BestAsk(b) \in 1 .. NO_ASK /\ BestBid(b) \in 0 .. NO_ASK - 1
         /\ \A q \in Tracked(b, "sell") : BestAsk(b) <= q
         /\ \A q \in Tracked(b, "buy") : q <= BestBid(b)
         /\ BestAsk(b) \in Tracked(b, "sell") \/ (Tracked(b, "sell") = {} /\ BestAsk(b) = NO_ASK)
         /\ BestBid(b) \in Tracked(b, "buy") \/ (Tracked(b, "buy") = {} /\ BestBid(b) = 0)
<1> DEFINE A == Tracked(b, "sell")
           B == Tracked(b, "buy")
<1>1. A \subseteq 1 .. NO_ASK - 1 /\ B \subseteq 1 .. NO_ASK - 1 /\ NO_ASK \in Nat /\ NO_ASK >= 2
  BY BookAssumption DEF Tracked, Price
<1>2. BestAsk(b) = IF A = {} THEN NO_ASK ELSE Min(A)
  BY DEF BestAsk
<1>3. BestBid(b) = IF B = {} THEN 0 ELSE Max(B)
  BY DEF BestBid, NO_BID
<1> HIDE DEF A, B
<1>4. ASSUME A # {} PROVE Min(A) \in A /\ \A q \in A : Min(A) <= q
  <2>1. \E x \in A : \A y \in A : x <= y
    BY <1>1, <1>4, LeastNumber
  <2> QED
    BY <2>1 DEF Min
<1>5. ASSUME B # {} PROVE Max(B) \in B /\ \A q \in B : q <= Max(B)
  <2> DEFINE C == {n \in Nat : NO_ASK - n \in B}
  <2>1. C \in SUBSET Nat /\ C # {}
    <3>1. PICK q \in B : TRUE
      BY <1>5
    <3>2. q \in Int /\ NO_ASK - q \in Nat /\ NO_ASK - (NO_ASK - q) = q
      BY <1>1
    <3> QED
      BY <3>2
  <2>2. PICK x \in C : \A y \in C : x <= y
    <3> HIDE DEF C
    <3> QED
      BY <2>1, LeastNumber
  <2>3. NO_ASK - x \in B /\ x \in Nat
    BY <2>2
  <2>4. ASSUME NEW q \in B PROVE q <= NO_ASK - x
    <3>1. q \in Int /\ NO_ASK - q \in Nat /\ NO_ASK - (NO_ASK - q) = q
      BY <1>1
    <3>2. NO_ASK - q \in C
      BY <3>1
    <3>3. x <= NO_ASK - q
      BY <2>2, <3>2
    <3> QED
      BY <1>1, <2>3, <3>1, <3>3
  <2>5. \E y \in B : \A q \in B : y >= q
    <3>1. \A q \in B : NO_ASK - x >= q
      BY <1>1, <2>3, <2>4
    <3> QED
      BY <2>3, <3>1
  <2> HIDE DEF C
  <2>6. Max(B) \in B /\ \A q \in B : Max(B) >= q
    BY <2>5 DEF Max
  <2> QED
    BY <1>1, <2>6
<1>6. CASE A = {}
  <2>1. BestAsk(b) = NO_ASK
    BY <1>2, <1>6
  <2> QED
    BY <1>1, <1>3, <1>5, <1>6, <2>1 DEF A, B
<1>7. CASE A # {}
  <2>1. BestAsk(b) \in A /\ \A q \in A : BestAsk(b) <= q
    BY <1>2, <1>4, <1>7
  <2>2. BestAsk(b) \in 1 .. NO_ASK
    <3>1. PICK x : x = BestAsk(b)
      OBVIOUS
    <3>2. x \in 1 .. NO_ASK - 1
      BY <1>1, <2>1, <3>1
    <3>3. x \in 1 .. NO_ASK
      BY <1>1, <3>2
    <3> QED
      BY <3>1, <3>3
  <2> QED
    BY <1>1, <1>3, <1>5, <2>1, <2>2 DEF A, B
<1> QED
  BY <1>6, <1>7

-----------------------------------------------------------------------------
(***************************************************************************)
(* Ranking the levels of a side numbers them from one, best first.         *)
(***************************************************************************)
Ahead(book, s, p) == {q \in Tracked(book, s) : Better(s, q, p)}
Rank(book, s, p) == Cardinality(Ahead(book, s, p))

(* A rank is less than the number of levels, and the better of two levels  *)
(* has the smaller rank.                                                   *)
LEMMA RankIsOrder ==
  ASSUME NEW book, NEW s, NEW q \in Tracked(book, s)
  PROVE  /\ Rank(book, s, q) \in Nat /\ Rank(book, s, q) < Size(book, s)
         /\ \A p \in Tracked(book, s) :
              Better(s, p, q) => Rank(book, s, p) < Rank(book, s, q)
<1> DEFINE T == Tracked(book, s)
<1>1. T \subseteq Int /\ IsFiniteSet(T)
  BY TrackedFinite, BookAssumption DEF Price
<1>2. \A p \in T : /\ IsFiniteSet(Ahead(book, s, p)) /\ Rank(book, s, p) \in Nat
                   /\ p \notin Ahead(book, s, p) /\ Ahead(book, s, p) \subseteq T
  <2> SUFFICES ASSUME NEW p \in T
               PROVE  /\ IsFiniteSet(Ahead(book, s, p)) /\ Rank(book, s, p) \in Nat
                      /\ p \notin Ahead(book, s, p) /\ Ahead(book, s, p) \subseteq T
    OBVIOUS
  <2>1. Ahead(book, s, p) \in SUBSET T
    BY DEF Ahead
  <2>2. IsFiniteSet(Ahead(book, s, p))
    BY <1>1, <2>1, FS_Subset
  <2>3. ~Better(s, p, p)
    BY <1>1 DEF Better
  <2> QED BY <2>1, <2>2, <2>3, FS_CardinalityType DEF Ahead, Rank
<1>3. Rank(book, s, q) < Size(book, s)
  <2>1. Ahead(book, s, q) \in SUBSET T /\ Ahead(book, s, q) # T
    BY <1>2
  <2>2. Cardinality(Ahead(book, s, q)) <= Cardinality(T)
        /\ Cardinality(T) # Cardinality(Ahead(book, s, q))
    BY <1>1, <2>1, FS_Subset
  <2> QED BY <1>2, <2>2, TrackedFinite DEF Rank, Size
<1>4. ASSUME NEW p \in T, Better(s, p, q)
      PROVE  Rank(book, s, p) < Rank(book, s, q)
  <2>1. Ahead(book, s, p) \in SUBSET Ahead(book, s, q)
    BY <1>1, <1>4 DEF Ahead, Better
  <2>2. p \in Ahead(book, s, q) /\ p \notin Ahead(book, s, p)
    BY <1>2, <1>4 DEF Ahead
  <2>3. /\ Rank(book, s, p) <= Rank(book, s, q)
        /\ Rank(book, s, p) # Rank(book, s, q)
    BY <1>2, <2>1, <2>2, FS_Subset DEF Rank
  <2> QED BY <1>2, <2>3
<1> QED BY <1>2, <1>3, <1>4

(* The i-th level exists and has rank i - 1: the snapshot leaves no level  *)
(* out (OrderBook.hpp:206-222).                                            *)
LEMMA PriceAtRank ==
  ASSUME NEW book, NEW s, NEW i \in 1 .. Size(book, s)
  PROVE  /\ PriceAt(book, s, i) \in Tracked(book, s)
         /\ Rank(book, s, PriceAt(book, s, i)) = i - 1
<1> DEFINE T == Tracked(book, s)
           n == Size(book, s)
           f == [p \in T |-> Rank(book, s, p) + 1]
<1>1. T \subseteq Int /\ IsFiniteSet(T) /\ n \in Nat
  BY TrackedFinite, BookAssumption DEF Price
<1>2. f \in [T -> 1 .. n]
  BY <1>1, RankIsOrder
<1>3. ASSUME NEW p \in T, NEW q \in T, f[p] = f[q] PROVE p = q
  <2>1. Rank(book, s, p) = Rank(book, s, q)
    BY <1>3, RankIsOrder
  <2>2. ~Better(s, p, q) /\ ~Better(s, q, p)
    BY <2>1, RankIsOrder
  <2> QED BY <1>1, <2>2 DEF Better
<1>4. f \in Injection(T, 1 .. n)
  BY <1>2, <1>3 DEF Injection, IsInjective
<1>5. IsFiniteSet(1 .. n) /\ Cardinality(1 .. n) = n
  BY <1>1, FS_Interval
<1>6. f \in Surjection(T, 1 .. n)
  BY <1>4, <1>5, FS_Injection DEF Size
<1>7. \E p \in T : Rank(book, s, p) = i - 1
  <2>1. PICK p \in T : f[p] = i
    BY <1>6 DEF Surjection
  <2> QED BY <2>1, RankIsOrder
<1> QED BY <1>7 DEF PriceAt, Rank, Ahead

-----------------------------------------------------------------------------
(***************************************************************************)
(* Snapshots of a book at two depths agree as far as both go.              *)
(***************************************************************************)
DepthLen(book, s, n) == IF n < Size(book, s) THEN n ELSE Size(book, s)

LEMMA DepthFacts ==
  ASSUME NEW book, NEW s, NEW n \in Nat
  PROVE  /\ DepthLen(book, s, n) \in Nat
         /\ DOMAIN Depth(book, s, n) = 1 .. DepthLen(book, s, n)
         /\ \A i \in 1 .. DepthLen(book, s, n) :
              Depth(book, s, n)[i] = LevelAt(book, s, i)
BY TrackedFinite DEF Depth, DepthLen

LEMMA DepthLength ==
  ASSUME NEW book, NEW s, NEW n \in Nat
  PROVE  Len(Depth(book, s, n)) = DepthLen(book, s, n)
<1>1. Depth(book, s, n) \in Seq({LevelAt(book, s, i) : i \in Nat})
  BY TrackedFinite DEF Depth
<1> QED BY <1>1, DepthFacts

-----------------------------------------------------------------------------
(***************************************************************************)
(* The shares of a book, added up order by order or level by level.        *)
(***************************************************************************)
Slots == Side \X Price
HeldShares(b) == SumFunctionOnSet([k \in Slots |-> Volume(b[k[1]][k[2]])], Slots)

\* The orders of the level whose FIFO is f.
OrdersOf(f, s, p) ==
  {[id |-> f[i].id, qty |-> f[i].qty, side |-> s, price |-> p] : i \in 1 .. Len(f)}

LEMMA SlotsFinite == IsFiniteSet(Side) /\ IsFiniteSet(Price) /\ IsFiniteSet(Slots)
<1>1. IsFiniteSet(Price)
  BY BookAssumption, FS_Interval DEF Price
<1>2. IsFiniteSet(Side)
  <2>1. IsFiniteSet({"buy"})
    BY FS_Singleton
  <2>2. Side = {"buy"} \cup {"sell"}
    BY DEF Side
  <2> QED
    BY <2>1, <2>2, FS_AddElement
<1> QED
  BY <1>1, <1>2, FS_Product DEF Slots

LEMMA LevelSum ==
  ASSUME NEW Ids, NEW f \in Seq(Entries(Ids)), NEW s, NEW p,
         \A i, j \in 1 .. Len(f) : f[i].id = f[j].id => i = j,
         NEW R, R = OrdersOf(f, s, p), NEW h, \A o \in R : h[o] = o.qty
  PROVE  IsFiniteSet(R) /\ SumFunctionOnSet(h, R) = Volume(f) /\ \A o \in R : h[o] \in Nat
<1>1. PICK n \in Nat : n = Len(f)
  OBVIOUS
<1>2. PICK a : a = [i \in 1 .. n |-> f[i].qty]
  OBVIOUS
<1>3. PICK u : u = [i \in 1 .. n |-> [id |-> f[i].id, qty |-> f[i].qty, side |-> s, price |-> p]]
  OBVIOUS
<1>3a. R = {[id |-> f[i].id, qty |-> f[i].qty, side |-> s, price |-> p] : i \in 1 .. n}
  BY <1>1 DEF OrdersOf
<1>4. \A i \in 1 .. n : f[i].qty \in Nat
  BY <1>1, FifoShares
<1>5. Volume(f) = SumFunctionOnSet(a, 1 .. n)
  <2>1. Volume(f) = SumFunction(a)
    BY <1>1, <1>2, Zenon DEF Volume, Shares
  <2>2. DOMAIN a = 1 .. n /\ IsFiniteSet(1 .. n)
    BY <1>2, FS_Interval
  <2> QED
    BY <2>1, <2>2, TotalSame
<1>6. Recounts(u, a, 1 .. n, h, R)
  <2>1. \A i \in 1 .. n : u[i] \in R /\ u[i].id = f[i].id /\ u[i].qty = f[i].qty
    BY <1>3, <1>3a
  <2>2. \A o \in R : \E i \in 1 .. n : u[i] = o
    BY <1>3, <1>3a
  <2>3. \A i, j \in 1 .. n : u[i] = u[j] => i = j
    BY <1>1, <2>1
  <2>4. \A i \in 1 .. n : a[i] = h[u[i]] /\ a[i] \in Int
    <3> SUFFICES ASSUME NEW i \in 1 .. n PROVE a[i] = h[u[i]] /\ a[i] \in Int
      OBVIOUS
    <3>1. a[i] = f[i].qty /\ f[i].qty \in Int
      BY <1>2, <1>4
    <3>2. h[u[i]] = u[i].qty
      BY <2>1
    <3> QED
      BY <2>1, <3>1, <3>2
  <2>5. u \in [1 .. n -> R]
    BY <1>3, <2>1
  <2> QED
    BY <2>2, <2>3, <2>4, <2>5 DEF Recounts
<1>7. IsFiniteSet(1 .. n)
  BY FS_Interval
<1>8. IsFiniteSet(R) /\ SumFunctionOnSet(a, 1 .. n) = SumFunctionOnSet(h, R)
  BY <1>6, <1>7, SumInjection
<1>9. \A o \in R : h[o] \in Nat
  BY <1>3a, <1>4
<1> QED
  BY <1>5, <1>8, <1>9

LEMMA RestingSum ==
  ASSUME NEW Ids, NEW b, BookOK(b, Ids)
  PROVE  /\ IsFiniteSet(Resting(b)) /\ HeldShares(b) \in Nat
         /\ SumFunction([o \in Resting(b) |-> o.qty]) = HeldShares(b)
         /\ SumFunctionOnSet([o \in Resting(b) |-> o.qty], Resting(b)) = HeldShares(b)
<1>1. PICK P, h, g : /\ P = [k \in Slots |-> OrdersOf(b[k[1]][k[2]], k[1], k[2])] /\ h = [o \in Resting(b) |-> o.qty]
                     /\ g = [k \in Slots |-> Volume(b[k[1]][k[2]])]
  OBVIOUS
<1>2. Resting(b) = UNION {P[k] : k \in Slots}
  <2>1. \A s \in Side, p \in Price : DOMAIN b[s][p] = 1 .. Len(b[s][p])
    BY DEF BookOK
  <2> DEFINE At(s, p) ==
               {[id |-> b[s][p][i].id, qty |-> b[s][p][i].qty, side |-> s, price |-> p] :
                  i \in DOMAIN b[s][p]}
  <2>2. \A s \in Side, p \in Price : <<s, p>> \in Slots /\ P[<<s, p>>] = At(s, p)
    BY <1>1, <2>1 DEF OrdersOf, Slots
  <2>3. \A k \in Slots : k[1] \in Side /\ k[2] \in Price /\ P[k] = At(k[1], k[2])
    BY <1>1, <2>1 DEF OrdersOf, Slots
  <2>4. Resting(b) = UNION {At(s, p) : s \in Side, p \in Price}
    BY DEF Resting
  <2> HIDE DEF At
  <2>5. ASSUME NEW o \in Resting(b) PROVE \E k \in Slots : o \in P[k]
    <3>1. PICK s \in Side, p \in Price : o \in At(s, p)
      BY <2>4
    <3> QED
      BY <2>2, <3>1
  <2>6. ASSUME NEW k \in Slots, NEW o \in P[k] PROVE o \in Resting(b)
    BY <2>3, <2>4, <2>6
  <2> QED
    BY <2>5, <2>6
<1>3. ASSUME NEW k \in Slots
      PROVE  /\ IsFiniteSet(P[k]) /\ g[k] = SumFunctionOnSet(h, P[k])
             /\ g[k] \in Nat /\ \A o \in P[k] : h[o] \in Int
  <2>1. PICK f \in Seq(Entries(Ids)) : f = b[k[1]][k[2]]
    BY DEF BookOK, Slots
  <2>2. \A i, j \in 1 .. Len(f) : f[i].id = f[j].id => i = j
    BY <2>1 DEF BookOK, IdsUnique, Slots
  <2>3. P[k] = OrdersOf(f, k[1], k[2])
    BY <1>1, <2>1
  <2>4. \A o \in P[k] : h[o] = o.qty
    BY <1>1, <1>2
  <2>5. /\ IsFiniteSet(P[k]) /\ SumFunctionOnSet(h, P[k]) = Volume(f)
        /\ \A o \in P[k] : h[o] \in Nat
    BY <2>2, <2>3, <2>4, LevelSum
  <2>6. Volume(f) \in Nat
    BY FifoShares
  <2>7. g[k] = Volume(f)
    BY <1>1, <2>1
  <2> QED
    BY <2>5, <2>6, <2>7
<1>4. \A k, l \in Slots : k # l => P[k] \cap P[l] = {}
  BY <1>1 DEF OrdersOf, Slots
<1>5. IsFiniteSet(Resting(b)) /\ SumFunctionOnSet(h, Resting(b)) = SumFunctionOnSet(g, Slots)
  <2>1. /\ IsFiniteSet(UNION {P[k] : k \in Slots})
        /\ SumFunctionOnSet(h, UNION {P[k] : k \in Slots}) = SumFunctionOnSet(g, Slots)
    <3>1. Parts(P, h, g, Slots)
      BY <1>3, <1>4 DEF Parts
    <3> QED
      BY <3>1, SlotsFinite, SumUnion
  <2> QED
    BY <1>2, <2>1
<1>6. SumFunctionOnSet(g, Slots) \in Nat
  BY <1>3, SlotsFinite, SumType
<1>7. SumFunction(h) = SumFunctionOnSet(h, Resting(b))
  BY <1>1, <1>5, TotalSame
<1> QED
  BY <1>1, <1>5, <1>6, <1>7 DEF HeldShares

(* A side's levels are served in an order that has a last one.             *)
LEMMA LastServed ==
  ASSUME NEW s \in Side, NEW T \in SUBSET Price, T # {}
  PROVE  \E x \in T : \A y \in T : y = x \/ Better(s, y, x)
<1>1. NO_ASK \in Nat /\ \A p \in Price : p \in Nat /\ NO_ASK - p \in Nat
  BY BookAssumption DEF Price
<1>2. CASE s = "buy"
  <2>1. T \in SUBSET Nat
    BY <1>1
  <2>2. PICK x \in T : \A y \in T : x <= y
    BY <2>1, LeastNumber
  <2>3. \A y \in T : y \in Nat /\ x \in Nat
    BY <1>1
  <2> QED
    BY <1>2, <2>2, <2>3 DEF Better
<1>3. CASE s = "sell"
  <2>1. PICK N : N = {NO_ASK - p : p \in T}
    OBVIOUS
  <2>2. N \in SUBSET Nat /\ N # {}
    BY <1>1, <2>1
  <2>3. PICK n \in N : \A m \in N : n <= m
    BY <2>2, LeastNumber
  <2>4. PICK x \in T : n = NO_ASK - x
    BY <2>1
  <2>5. \A y \in T : NO_ASK - x <= NO_ASK - y /\ y \in Nat /\ x \in Nat
    BY <1>1, <2>1, <2>3, <2>4
  <2>6. \A y \in T : y <= x
    BY <1>1, <2>5
  <2> QED
    BY <1>1, <1>3, <2>5, <2>6 DEF Better
<1> QED
  BY <1>2, <1>3 DEF Side

(* An order of n shares that takes from the levels of T, best first: each  *)
(* gives what the better ones leave to be taken.  Together they give n     *)
(* shares, or all they have.                                               *)
Gives(g, v, T, s, n) ==
  \A q \in T :
    LET ahead == SumFunctionOnSet(v, {r \in T : Better(s, r, q)})
    IN g[q] = IF n > ahead THEN IF n - ahead >= v[q] THEN v[q] ELSE n - ahead ELSE 0

LEMMA Waterfall ==
  ASSUME NEW s \in Side, NEW T \in SUBSET Price, IsFiniteSet(T), NEW n \in Nat,
         NEW v, \A q \in T : v[q] \in Nat, NEW g, Gives(g, v, T, s, n)
  PROVE  SumFunctionOnSet(g, T) = IF n < SumFunctionOnSet(v, T) THEN n
                                                               ELSE SumFunctionOnSet(v, T)
<1> DEFINE Closed(U) == \A x \in U, y \in T : Better(s, y, x) => y \in U
           G == {U \in SUBSET T : Closed(U) =>
                   SumFunctionOnSet(g, U) = IF n < SumFunctionOnSet(v, U) THEN n
                                                                         ELSE SumFunctionOnSet(v, U)}
<1>0. \A p \in Price : p \in Int
  BY BookAssumption DEF Price
<1>1. {} \in G
  BY SumEmpty
<1>2. ASSUME NEW U \in SUBSET T, U # {}, \A x \in U : U \ {x} \in G PROVE U \in G
  <2> SUFFICES ASSUME Closed(U)
               PROVE  SumFunctionOnSet(g, U) = IF n < SumFunctionOnSet(v, U) THEN n
                                                                            ELSE SumFunctionOnSet(v, U)
    OBVIOUS
  <2>1. PICK x \in U : \A y \in U : y = x \/ Better(s, y, x)
    BY <1>2, LastServed
  <2>2. PICK W : W = U \ {x}
    OBVIOUS
  <2>3. {r \in T : Better(s, r, x)} = W
    <3>1. ASSUME NEW r \in T, Better(s, r, x) PROVE r \in W
      <4>1. r # x
        BY <1>0, <3>1 DEF Better
      <4> QED
        BY <2>2, <3>1, <4>1
    <3>2. \A r \in W : r \in T /\ Better(s, r, x)
      BY <2>1, <2>2
    <3> QED
      BY <3>1, <3>2
  <2>4. Closed(W)
    <3> SUFFICES ASSUME NEW z \in W, NEW y \in T, Better(s, y, z) PROVE y \in W
      OBVIOUS
    <3>1. y \in U /\ Better(s, z, x) /\ z \in Int /\ y \in Int /\ x \in Int
      BY <1>0, <2>1, <2>2
    <3>2. y # x
      BY <3>1 DEF Better
    <3> QED
      BY <2>2, <3>1, <3>2
  <2>5. SumFunctionOnSet(g, W) = IF n < SumFunctionOnSet(v, W) THEN n ELSE SumFunctionOnSet(v, W)
    BY <1>2, <2>2, <2>4
  <2>6. IsFiniteSet(W) /\ IsFiniteSet(U) /\ \A q \in U : v[q] \in Nat /\ v[q] \in Int
    BY <2>2, FS_Subset
  <2>7. \A q \in U : g[q] \in Int
    <3> SUFFICES ASSUME NEW q \in U PROVE g[q] \in Int
      OBVIOUS
    <3>1. PICK R : R = {r \in T : Better(s, r, q)}
      OBVIOUS
    <3>2. IsFiniteSet(R) /\ \A r \in R : v[r] \in Nat
      BY <3>1, FS_Subset
    <3>3. SumFunctionOnSet(v, R) \in Nat
      BY <3>2, SumType
    <3>4. g[q] = IF n > SumFunctionOnSet(v, R)
                 THEN IF n - SumFunctionOnSet(v, R) >= v[q] THEN v[q]
                      ELSE n - SumFunctionOnSet(v, R) ELSE 0
      BY <3>1 DEF Gives
    <3> QED
      BY <2>6, <3>3, <3>4
  <2>8. /\ SumFunctionOnSet(v, U) = v[x] + SumFunctionOnSet(v, W)
        /\ SumFunctionOnSet(g, U) = g[x] + SumFunctionOnSet(g, W)
    BY <2>2, <2>6, <2>7, SumRemove
  <2>9. PICK a \in Nat, d \in Nat : a = SumFunctionOnSet(v, W) /\ d = v[x]
    <3>1. \A q \in W : v[q] \in Nat
      BY <2>2, <2>6
    <3>2. SumFunctionOnSet(v, W) \in Nat
      BY <2>6, <3>1, SumType
    <3> QED
      BY <2>6, <3>2
  <2>10. g[x] = IF n > a THEN IF n - a >= d THEN d ELSE n - a ELSE 0
    BY <2>3, <2>9 DEF Gives
  <2>11. SumFunctionOnSet(g, W) = IF n < a THEN n ELSE a
    BY <2>5, <2>9
  <2>12. SumFunctionOnSet(v, U) = d + a
    BY <2>8, <2>9
  <2>13. SumFunctionOnSet(g, U) = IF n < d + a THEN n ELSE d + a
    BY <2>8, <2>10, <2>11
  <2> QED
    BY <2>12, <2>13
<1> HIDE DEF G
<1>3. \A U \in SUBSET T : U \in G
  BY <1>1, <1>2, SubsetInduction
<1> QED
  BY <1>3 DEF G

LEMMA SumZero ==
  ASSUME NEW S, IsFiniteSet(S), NEW f, \A x \in S : f[x] = 0
  PROVE  SumFunctionOnSet(f, S) = 0
<1>1. \A x \in S : f[x] \in Int /\ f[x] = f[x] - f[x]
  OBVIOUS
<1>2. SumFunctionOnSet(f, S) = SumFunctionOnSet(f, S) - SumFunctionOnSet(f, S)
  BY <1>1, SumMinus
<1>3. SumFunctionOnSet(f, S) \in Int
  BY <1>1, SumType
<1> QED
  BY <1>2, <1>3

\* The levels an order at a limit may trade at, and what is there.
Reachable(b, s, limit) == {q \in Tracked(b, Opposite(s)) : Crosses(s, q, limit)}
Volumes(b, s) == [q \in Price |-> Volume(b[s][q])]

LEMMA AvailableSum ==
  ASSUME NEW Ids, NEW b, BookOK(b, Ids), NEW s \in Side, NEW limit
  PROVE  /\ Available(b, s, limit)
              = SumFunctionOnSet(Volumes(b, Opposite(s)), Reachable(b, s, limit))
         /\ Reachable(b, s, limit) \in SUBSET Price /\ IsFiniteSet(Reachable(b, s, limit))
         /\ \A t \in Side, q \in Price : /\ Volumes(b, t)[q] = Volume(b[t][q])
                                         /\ Volumes(b, t)[q] \in Nat
                                         /\ Volumes(b, t)[q] = 0 <=> b[t][q] = <<>>
<1>1. PICK o, C, v : o = Opposite(s) /\ C = Reachable(b, s, limit) /\ v = Volumes(b, o)
  OBVIOUS
<1>2. o \in Side
  BY <1>1 DEF Opposite, Side
<1>3. C \in SUBSET Price /\ IsFiniteSet(C)
  BY <1>1, TrackedFinite, FS_Subset DEF Reachable
<1>4. \A t \in Side, q \in Price : /\ Volumes(b, t)[q] = Volume(b[t][q])
                                   /\ Volume(b[t][q]) \in Nat
                                   /\ Volume(b[t][q]) = 0 <=> b[t][q] = <<>>
  <2> SUFFICES ASSUME NEW t \in Side, NEW q \in Price
               PROVE  /\ Volumes(b, t)[q] = Volume(b[t][q])
                      /\ Volume(b[t][q]) \in Nat /\ (Volume(b[t][q]) = 0 <=> b[t][q] = <<>>)
    OBVIOUS
  <2>1. b[t][q] \in Seq(Entries(Ids))
    BY DEF BookOK
  <2>2. Volume(b[t][q]) \in Nat /\ (Volume(b[t][q]) = 0 <=> b[t][q] = <<>>)
    BY <2>1, FifoShares
  <2> QED
    BY <2>2 DEF Volumes
<1>5. PICK f : f = [q \in C |-> Volume(b[o][q])]
  OBVIOUS
<1>6. Available(b, s, limit) = SumFunction(f)
  BY <1>1, <1>5 DEF Available, Reachable
<1>7. DOMAIN f = C /\ \A q \in C : f[q] = v[q]
  BY <1>1, <1>2, <1>3, <1>4, <1>5
<1>8. SumFunction(f) = SumFunctionOnSet(v, C)
  BY <1>3, <1>7, TotalSame
<1> QED
  BY <1>1, <1>3, <1>4, <1>6, <1>8

(* What each level gives to an order that is being matched.                *)
LEMMA MatchGives ==
  ASSUME NEW Ids, NEW b, BookOK(b, Ids), NEW s \in Side, NEW p \in Price, NEW qty \in Nat,
         NEW g, g = [q \in Price |-> Volume(b[Opposite(s)][q])
                                       - Volume(MatchAt(b, s, p, qty, q))]
  PROVE  /\ Gives(g, Volumes(b, Opposite(s)), Reachable(b, s, p), Opposite(s), qty)
         /\ \A q \in Price : g[q] \in Int /\ (q \notin Reachable(b, s, p) => g[q] = 0)
<1>1. PICK o, C, v : o = Opposite(s) /\ C = Reachable(b, s, p) /\ v = Volumes(b, o)
  OBVIOUS
<1>2. o \in Side /\ C \in SUBSET Price /\ p \in Int
  BY <1>1, AvailableSum, BookAssumption DEF Opposite, Side, Price
<1>3. \A q \in Price : /\ v[q] = Volume(b[o][q]) /\ v[q] \in Nat
                       /\ v[q] = 0 <=> b[o][q] = <<>>
  BY <1>1, <1>2, AvailableSum
<1>4. \A q \in Price : /\ Queued(b, o, q) \in Nat
                       /\ MatchAt(b, s, p, qty, q) =
                            IF Crosses(s, q, p) /\ qty > Queued(b, o, q)
                            THEN TakeFront(b[o][q], qty - Queued(b, o, q)) ELSE b[o][q]
  BY <1>1, MatchSums
<1>5. ASSUME NEW q \in Price
      PROVE  g[q] = IF Crosses(s, q, p) /\ qty > Queued(b, o, q)
                    THEN IF qty - Queued(b, o, q) >= v[q] THEN v[q] ELSE qty - Queued(b, o, q)
                    ELSE 0
  <2>0. g[q] = v[q] - Volume(MatchAt(b, s, p, qty, q))
    BY <1>1, <1>3
  <2>1. CASE Crosses(s, q, p) /\ qty > Queued(b, o, q)
    <3>1. PICK n \in Nat : n = qty - Queued(b, o, q)
      BY <1>4, <2>1
    <3>2. PICK f \in Seq(Entries(Ids)) : f = b[o][q]
      BY <1>2 DEF BookOK
    <3>3. g[q] = v[q] - Volume(TakeFront(f, n))
      BY <1>4, <2>0, <2>1, <3>1, <3>2
    <3>4. CASE n >= v[q]
      <4>1. PICK z : z = <<>>
        OBVIOUS
      <4>2. TakeFront(f, n) = z
        BY <1>3, <3>2, <3>4, <4>1, TakeFrontFacts
      <4>3. z \in Seq(Entries(Ids))
        BY <4>1
      <4>4. Volume(z) = 0
        BY <4>1, <4>3, FifoShares
      <4> QED
        BY <1>3, <2>1, <3>1, <3>3, <3>4, <4>2, <4>4
    <3>5. CASE n < v[q]
      <4>1. PICK t : t = TakeFront(f, n)
        OBVIOUS
      <4>2. t \in Seq(Entries(Ids)) /\ \E k : TakenFrom(t, f, n, k)
        BY <1>3, <3>2, <3>5, <4>1, TakeFrontFacts
      <4>3. Volume(t) = Volume(f) - n
        BY <4>2, VolumeTaken
      <4> QED
        BY <1>3, <2>1, <3>1, <3>2, <3>3, <3>5, <4>1, <4>3
    <3> QED
      BY <1>3, <3>4, <3>5
  <2>2. CASE ~(Crosses(s, q, p) /\ qty > Queued(b, o, q))
    BY <1>3, <1>4, <2>0, <2>2
  <2> QED
    BY <2>1, <2>2
<1>6. ASSUME NEW q \in C
      PROVE  Queued(b, o, q) = SumFunctionOnSet(v, {r \in C : Better(o, r, q)})
  <2>1. {r \in C : Better(o, r, q)} = {r \in Tracked(b, o) : Better(o, r, q)}
    <3>1. ASSUME NEW r \in Tracked(b, o), Better(o, r, q) PROVE r \in C
      <4>1. q \in Int /\ r \in Int /\ Crosses(s, q, p)
        BY <1>1, <1>2, BookAssumption DEF Reachable, Tracked, Price
      <4>2. Crosses(s, r, p)
        BY <1>1, <1>2, <3>1, <4>1 DEF Better, Crosses, Opposite, Side
      <4> QED
        BY <1>1, <4>2 DEF Reachable
    <3>2. C \subseteq Tracked(b, o)
      BY <1>1 DEF Reachable
    <3> QED
      BY <3>1, <3>2
  <2>2. v = [r \in Price |-> Volume(b[o][r])]
    BY <1>1 DEF Volumes
  <2> QED
    BY <2>1, <2>2 DEF Queued
<1>7. \A q \in C : Crosses(s, q, p) /\ q \in Price
  BY <1>1, <1>2 DEF Reachable
<1>8. Gives(g, v, C, o, qty)
  BY <1>5, <1>6, <1>7 DEF Gives
<1>9. ASSUME NEW q \in Price PROVE g[q] \in Int /\ (q \notin C => g[q] = 0)
  <2>1. g[q] \in Int
    BY <1>3, <1>4, <1>5
  <2>2. ASSUME q \notin C PROVE g[q] = 0
    <3>1. CASE Crosses(s, q, p)
      <4>1. v[q] = 0
        BY <1>1, <1>3, <2>2, <3>1 DEF Reachable, Tracked
      <4> QED
        BY <1>4, <1>5, <4>1
    <3>2. CASE ~Crosses(s, q, p)
      BY <1>5, <3>2
    <3> QED
      BY <3>1, <3>2
  <2> QED
    BY <2>1, <2>2
<1> QED
  BY <1>1, <1>8, <1>9

\* The shares that an order of qty shares at a limit trades.
Traded(b, s, p, qty) == IF qty < Available(b, s, p) THEN qty ELSE Available(b, s, p)

LEMMA VolumeIsNat ==
  ASSUME NEW Ids, NEW b, BookOK(b, Ids)
  PROVE  \A k \in Slots : Volume(b[k[1]][k[2]]) \in Nat
<1> SUFFICES ASSUME NEW k \in Slots PROVE Volume(b[k[1]][k[2]]) \in Nat
  OBVIOUS
<1>1. PICK f \in Seq(Entries(Ids)) : f = b[k[1]][k[2]]
  BY DEF BookOK, Slots
<1> QED
  BY <1>1, FifoShares

(* The loop of an insertion takes what it trades from the book, no more.   *)
LEMMA MatchedHeld ==
  ASSUME NEW Ids, NEW b, BookOK(b, Ids), NEW s \in Side, NEW p \in Price, NEW qty \in Nat
  PROVE  /\ Traded(b, s, p, qty) \in Nat
         /\ HeldShares(Matched(b, s, p, qty)) = HeldShares(b) - Traded(b, s, p, qty)
<1>1. PICK o, C, v, c : /\ o = Opposite(s) /\ C = Reachable(b, s, p) /\ v = Volumes(b, o)
                        /\ c = Matched(b, s, p, qty)
  OBVIOUS
<1>2. PICK g : g = [q \in Price |-> Volume(b[o][q]) - Volume(MatchAt(b, s, p, qty, q))]
  OBVIOUS
<1>3. /\ o \in Side /\ o # s /\ C \in SUBSET Price /\ IsFiniteSet(C)
      /\ \A q \in C : v[q] \in Nat
      /\ Available(b, s, p) = SumFunctionOnSet(v, C)
  BY <1>1, AvailableSum DEF Opposite, Side
<1>4. /\ Gives(g, v, C, o, qty)
      /\ \A q \in Price : g[q] \in Int /\ (q \notin C => g[q] = 0)
  BY <1>1, <1>2, MatchGives
<1>5. SumFunctionOnSet(g, C) = Traded(b, s, p, qty)
  BY <1>3, <1>4, Waterfall DEF Traded
<1>6. PICK f, h, d : /\ f = [k \in Slots |-> Volume(b[k[1]][k[2]])]
                     /\ h = [k \in Slots |-> Volume(c[k[1]][k[2]])]
                     /\ d = [k \in Slots |-> f[k] - h[k]]
  OBVIOUS
<1>7. BookOK(c, Ids)
  BY <1>1, MatchedBook
<1>8. \A k \in Slots : f[k] \in Int /\ h[k] \in Int /\ d[k] = f[k] - h[k]
  BY <1>6, <1>7, VolumeIsNat
<1>9. SumFunctionOnSet(d, Slots) = HeldShares(b) - HeldShares(c)
  <2>1. SumFunctionOnSet(d, Slots) = SumFunctionOnSet(f, Slots) - SumFunctionOnSet(h, Slots)
    BY <1>8, SlotsFinite, SumMinus
  <2> QED
    BY <1>6, <2>1 DEF HeldShares
<1>10. /\ \A q \in Price : <<o, q>> \in Slots /\ d[<<o, q>>] = g[q]
       /\ \A k \in Slots : (k[1] # o => d[k] = 0) /\ k[2] \in Price /\ k = <<k[1], k[2]>>
  <2>1. ASSUME NEW q \in Price PROVE <<o, q>> \in Slots /\ d[<<o, q>>] = g[q]
    <3>1. <<o, q>> \in Slots /\ <<o, q>>[1] = o /\ <<o, q>>[2] = q
      BY <1>3 DEF Slots
    <3>2. c[o][q] = MatchAt(b, s, p, qty, q)
      BY <1>1, <1>3 DEF Matched, BookOK
    <3> QED
      BY <1>2, <1>6, <3>1, <3>2
  <2>2. ASSUME NEW k \in Slots
        PROVE  (k[1] # o => d[k] = 0) /\ k[2] \in Price /\ k = <<k[1], k[2]>>
    <3>1. k[1] \in Side /\ k[2] \in Price /\ k = <<k[1], k[2]>>
      BY DEF Slots
    <3>2. k[1] # o => c[k[1]] = b[k[1]]
      BY <1>1, <3>1 DEF Matched, BookOK
    <3>3. k[1] # o => f[k] = h[k]
      BY <1>6, <3>2
    <3> QED
      BY <1>8, <3>1, <3>3
  <2> QED
    BY <2>1, <2>2
<1>11. PICK K, R : K = {<<o, q>> : q \in C} /\ R = Slots \ K
  OBVIOUS
<1>12. SumFunctionOnSet(d, R) = 0 /\ IsFiniteSet(R) /\ R \in SUBSET Slots
  <2>1. \A k \in R : d[k] = 0
    BY <1>4, <1>10, <1>11
  <2>2. IsFiniteSet(R) /\ R \in SUBSET Slots
    BY <1>11, SlotsFinite, FS_Subset
  <2> QED
    BY <2>1, <2>2, SumZero
<1>13. IsFiniteSet(K) /\ SumFunctionOnSet(g, C) = SumFunctionOnSet(d, K)
  <2>1. PICK u : u = [q \in C |-> <<o, q>>]
    OBVIOUS
  <2>2. Recounts(u, g, C, d, K)
    BY <1>3, <1>4, <1>10, <1>11, <2>1 DEF Recounts
  <2> QED
    BY <1>3, <2>2, SumInjection
<1>14. K \cup R = Slots /\ K \cap R = {} /\ \A k \in K \cup R : d[k] \in Int
  BY <1>3, <1>8, <1>10, <1>11
<1>15. SumFunctionOnSet(d, Slots) = SumFunctionOnSet(d, K) + SumFunctionOnSet(d, R)
  <2>1. SumFunctionOnSet(d, K \cup R) = SumFunctionOnSet(d, K) + SumFunctionOnSet(d, R)
    BY <1>12, <1>13, <1>14, SumDisjoint
  <2> QED
    BY <1>14, <2>1
<1>16. Traded(b, s, p, qty) \in Nat /\ HeldShares(b) \in Nat /\ HeldShares(c) \in Nat
  <2>1. Available(b, s, p) \in Nat
    BY MatchSums
  <2> QED
    BY <1>7, <2>1, RestingSum DEF Traded
<1> QED
  BY <1>1, <1>5, <1>9, <1>12, <1>13, <1>15, <1>16

(* An order that rests adds its shares.                                    *)
LEMMA AppendHeld ==
  ASSUME NEW Ids, NEW b, BookOK(b, Ids), NEW s \in Side, NEW p \in Price,
         NEW id \in Ids, NEW n \in Nat \ {0}
  PROVE  HeldShares(Stacked(b, s, p, id, n)) = HeldShares(b) + n
<1>00. PICK e : e = [id |-> id, qty |-> n]
  OBVIOUS
<1>01. e \in Entries(Ids) /\ e.qty = n
  BY <1>00 DEF Entries
<1>0. PICK c : c = [b EXCEPT ![s][p] = Append(@, e)] /\ c = Stacked(b, s, p, id, n)
  BY <1>00 DEF Stacked
<1>1. PICK f, g, x : /\ f = [k \in Slots |-> Volume(b[k[1]][k[2]])]
                     /\ g = [k \in Slots |-> Volume(c[k[1]][k[2]])]
                     /\ x = <<s, p>>
  OBVIOUS
<1>2. x \in Slots /\ x[1] = s /\ x[2] = p
  BY <1>1 DEF Slots
<1>3. \A k \in Slots : f[k] \in Nat
  BY <1>1, VolumeIsNat
<1>4. g[x] = f[x] + e.qty /\ e.qty \in Nat
  <2>1. PICK q \in Seq(Entries(Ids)) : q = b[s][p]
    BY DEF BookOK
  <2>2. c[s][p] = Append(q, e)
    BY <1>0, <2>1 DEF BookOK
  <2>3. Volume(Append(q, e)) = Volume(q) + e.qty /\ e.qty \in Nat
    BY <1>01, VolumeAppend
  <2> QED
    BY <1>1, <1>2, <2>1, <2>2, <2>3
<1>5. ASSUME NEW k \in Slots \ {x} PROVE g[k] = f[k]
  <2>1. k[1] \in Side /\ k[2] \in Price /\ (k[1] # s \/ k[2] # p)
    BY <1>1 DEF Slots
  <2>2. c[k[1]][k[2]] = b[k[1]][k[2]]
    BY <1>0, <2>1 DEF BookOK
  <2> QED
    BY <1>1, <2>2
<1>6. SumFunctionOnSet(g, Slots) = SumFunctionOnSet(f, Slots) + g[x] - f[x]
  <2>1. \A k \in Slots : f[k] \in Int
    BY <1>3
  <2>2. g[x] \in Int
    BY <1>2, <1>3, <1>4
  <2> QED
    BY ONLY <1>2, <1>5, <2>1, <2>2, SlotsFinite, SumChange
<1>7. SumFunctionOnSet(f, Slots) \in Nat
  BY <1>3, SlotsFinite, SumType
<1> QED
  BY <1>0, <1>01, <1>1, <1>2, <1>3, <1>4, <1>6, <1>7 DEF HeldShares

(* An insertion: what it trades leaves the book twice, once as the maker's *)
(* and once as its own.                                                    *)
LEMMA InsertHeld ==
  ASSUME NEW Ids, NEW b, BookOK(b, Ids), NEW s \in Side, NEW p, NEW qty \in Nat,
         NEW id \in Ids, Insertable(b, id, p, qty)
  PROVE  /\ Traded(b, s, p, qty) \in Nat
         /\ HeldShares(InsertOrder(b, id, s, p, qty)) = HeldShares(b) + qty - 2 * Traded(b, s, p, qty)
<1>1. PICK a, c, n : /\ a = InsertOrder(b, id, s, p, qty) /\ c = Matched(b, s, p, qty)
                     /\ n = Available(b, s, p)
  OBVIOUS
<1>2. /\ p \in Price /\ ~Holds(b, id)
      /\ a = IF n < qty THEN [c EXCEPT ![s][p] = Append(@, [id |-> id, qty |-> qty - n])] ELSE c
  BY <1>1, InsertBook
<1>3. /\ Traded(b, s, p, qty) \in Nat /\ BookOK(c, Ids) /\ n \in Nat
      /\ HeldShares(c) = HeldShares(b) - Traded(b, s, p, qty) /\ HeldShares(b) \in Nat
  <2>1. Traded(b, s, p, qty) \in Nat /\ HeldShares(c) = HeldShares(b) - Traded(b, s, p, qty)
    BY <1>1, <1>2, MatchedHeld
  <2>2. BookOK(c, Ids)
    BY <1>1, <1>2, MatchedBook
  <2>3. n \in Nat
    BY <1>1, MatchSums
  <2>4. HeldShares(b) \in Nat
    BY RestingSum
  <2> QED
    BY <2>1, <2>2, <2>3, <2>4
<1>4. CASE n < qty
  <2>1. PICK m \in Nat \ {0} : m = qty - n
    BY <1>3, <1>4
  <2>2. a = Stacked(c, s, p, id, m)
    BY <1>2, <1>4, <2>1 DEF Stacked
  <2>3. BookOK(c, Ids) /\ p \in Price
    BY <1>2, <1>3
  <2>4. HeldShares(Stacked(c, s, p, id, m)) = HeldShares(c) + m
    BY ONLY <2>1, <2>3, id \in Ids, s \in Side, AppendHeld
  <2>5. Traded(b, s, p, qty) = n
    BY <1>1, <1>3, <1>4 DEF Traded
  <2> QED
    BY <1>1, <1>3, <2>1, <2>2, <2>4, <2>5
<1>5. CASE ~(n < qty)
  <2>1. a = c
    BY <1>2, <1>5
  <2>2. Traded(b, s, p, qty) = qty
    BY <1>1, <1>3, <1>5 DEF Traded
  <2> QED
    BY <1>1, <1>3, <2>1, <2>2
<1> QED
  BY <1>4, <1>5

(* An id names one order.                                                  *)
LEMMA UniqueResting ==
  ASSUME NEW Ids, NEW b, BookOK(b, Ids), NEW o \in Resting(b), NEW r \in Resting(b), o.id = r.id
  PROVE  o = r
<1>1. RestsIn(b, o) /\ RestsIn(b, r)
  BY RestingEntries
<1>2. PICK s \in Side, p \in Price : \E i \in 1 .. Len(b[s][p]) :
        o = [id |-> b[s][p][i].id, qty |-> b[s][p][i].qty, side |-> s, price |-> p]
  BY <1>1 DEF RestsIn
<1>3. PICK i \in 1 .. Len(b[s][p]) :
        o = [id |-> b[s][p][i].id, qty |-> b[s][p][i].qty, side |-> s, price |-> p]
  BY <1>2
<1>4. PICK t \in Side, q \in Price : \E j \in 1 .. Len(b[t][q]) :
        r = [id |-> b[t][q][j].id, qty |-> b[t][q][j].qty, side |-> t, price |-> q]
  BY <1>1 DEF RestsIn
<1>5. PICK j \in 1 .. Len(b[t][q]) :
        r = [id |-> b[t][q][j].id, qty |-> b[t][q][j].qty, side |-> t, price |-> q]
  BY <1>4
<1>6. b[s][p][i].id = b[t][q][j].id
  BY <1>3, <1>5
<1>7. s = t /\ p = q /\ i = j
  BY <1>6 DEF BookOK, IdsUnique
<1> QED
  BY <1>3, <1>5, <1>7

(* The quantities that the orders of b have in a book of the same orders   *)
(* add up to its shares.                                                   *)
LEMMA QtysHeld ==
  ASSUME NEW Ids, NEW b, BookOK(b, Ids), NEW c, BookOK(c, Ids),
         \A id : Holds(c, id) => Holds(b, id),
         NEW f, \A o \in Resting(b) : f[o] = GetOrderQty(c, o.id)
  PROVE  SumFunctionOnSet(f, Resting(b)) = HeldShares(c)
<1>1. PICK B, C, h : B = Resting(b) /\ C = Resting(c) /\ h = [o \in C |-> o.qty]
  OBVIOUS
<1>2. /\ IsFiniteSet(B) /\ IsFiniteSet(C) /\ SumFunctionOnSet(h, C) = HeldShares(c)
  BY <1>1, RestingSum
<1>3. \A o \in C : /\ Holds(c, o.id) /\ GetOrderQty(c, o.id) = o.qty /\ o.qty \in Int
                   /\ h[o] = o.qty
  <2> SUFFICES ASSUME NEW o \in C
               PROVE  /\ Holds(c, o.id) /\ GetOrderQty(c, o.id) = o.qty /\ o.qty \in Int
                      /\ h[o] = o.qty
    OBVIOUS
  <2>1. GetOrderQty(c, o.id) = o.qty /\ o.qty \in Int
    BY <1>1, RestingLevel
  <2>2. Holds(c, o.id)
    BY <1>1, RestingIds
  <2> QED
    BY <1>1, <2>1, <2>2
<1>4. PICK I, R : I = {r \in B : Holds(c, r.id)} /\ R = B \ I
  OBVIOUS
<1>5. PICK u : u = [o \in C |-> CHOOSE r \in B : r.id = o.id]
  OBVIOUS
<1>6. \A o \in C : u[o] \in B /\ u[o].id = o.id
  <2> SUFFICES ASSUME NEW o \in C PROVE \E r \in B : r.id = o.id
    BY <1>5
  <2>1. Holds(b, o.id)
    BY <1>3
  <2> QED
    BY <1>1, <2>1, RestingIds
<1>7. Recounts(u, h, C, f, I)
  <2>1. ASSUME NEW o \in C PROVE u[o] \in I /\ h[o] = f[u[o]] /\ h[o] \in Int
    <3>1. u[o] \in I
      BY <1>3, <1>4, <1>6
    <3>2. f[u[o]] = GetOrderQty(c, o.id)
      BY <1>1, <1>6
    <3> QED
      BY <1>3, <3>1, <3>2
  <2>2. ASSUME NEW x \in C, NEW y \in C, u[x] = u[y] PROVE x = y
    <3>1. x.id = y.id
      BY <1>6, <2>2
    <3> QED
      BY <1>1, <3>1, UniqueResting
  <2>3. ASSUME NEW r \in I PROVE \E o \in C : u[o] = r
    <3>1. PICK o \in C : o.id = r.id
      BY <1>1, <1>4, RestingIds
    <3>2. u[o] \in B /\ u[o].id = r.id /\ r \in B
      BY <1>4, <1>6, <3>1
    <3>3. u[o] = r
      BY <1>1, <3>2, UniqueResting
    <3> QED
      BY <3>3
  <2>4. u \in [C -> I]
    BY <1>5, <2>1
  <2> QED
    BY <2>1, <2>2, <2>3, <2>4 DEF Recounts
<1>8. IsFiniteSet(I) /\ SumFunctionOnSet(h, C) = SumFunctionOnSet(f, I)
  BY <1>2, <1>7, SumInjection
<1>9. IsFiniteSet(R) /\ SumFunctionOnSet(f, R) = 0
  <2>1. \A r \in R : f[r] = 0
    BY <1>1, <1>4, OrderQty
  <2>2. IsFiniteSet(R)
    BY <1>2, <1>4, FS_Subset
  <2> QED
    BY <2>1, <2>2, SumZero
<1>10. I \cup R = B /\ I \cap R = {} /\ \A r \in I \cup R : f[r] \in Int
  <2>1. \A r \in B : f[r] \in Nat
    BY <1>1, OrderQty
  <2> QED
    BY <1>4, <2>1
<1>11. SumFunctionOnSet(f, I \cup R) = SumFunctionOnSet(f, I) + SumFunctionOnSet(f, R)
  BY <1>8, <1>9, <1>10, SumDisjoint
<1>12. HeldShares(c) \in Nat
  BY RestingSum
<1>13. SumFunctionOnSet(f, I) = HeldShares(c)
  BY <1>2, <1>8
<1>14. SumFunctionOnSet(f, I \cup R) = HeldShares(c)
  BY <1>9, <1>11, <1>12, <1>13
<1> QED
  BY <1>1, <1>10, <1>14

(* What the orders of a book have left after a call: a canceled order has  *)
(* nothing, and no other call adds to an order.                            *)
LEMMA EntryQty ==
  ASSUME NEW Ids, NEW b, BookOK(b, Ids), NEW s \in Side, NEW p \in Price,
         NEW i \in 1 .. Len(b[s][p]), NEW id, b[s][p][i].id = id
  PROVE  GetOrderQty(b, id) = b[s][p][i].qty /\ Holds(b, id)
<1>1. GetOrderQty(b, b[s][p][i].id) = b[s][p][i].qty
  BY OrderQty
<1> QED
  BY <1>1 DEF Holds

LEMMA ThinnedQty ==
  ASSUME NEW Ids, NEW b, BookOK(b, Ids), NEW c, BookOK(c, Ids),
         \A s \in Side, p \in Price : Thins(c[s][p], b[s][p]), NEW id
  PROVE  /\ GetOrderQty(c, id) \in Nat /\ GetOrderQty(b, id) \in Nat
         /\ GetOrderQty(c, id) <= GetOrderQty(b, id)
<1>1. GetOrderQty(c, id) \in Nat /\ GetOrderQty(b, id) \in Nat
  BY OrderQty
<1>2. CASE ~Holds(c, id)
  <2>1. GetOrderQty(c, id) = 0
    BY <1>2, OrderQty
  <2> QED
    BY <1>1, <2>1
<1>3. CASE Holds(c, id)
  <2>1. PICK s \in Side, p \in Price : \E i \in 1 .. Len(c[s][p]) : c[s][p][i].id = id
    BY <1>3 DEF Holds
  <2>2. PICK i \in 1 .. Len(c[s][p]) : c[s][p][i].id = id
    BY <2>1
  <2>3. PICK j \in 1 .. Len(b[s][p]) : b[s][p][j].id = id /\ c[s][p][i].qty <= b[s][p][j].qty
    <3>1. PICK g, f : g = c[s][p] /\ f = b[s][p]
      OBVIOUS
    <3>2. PICK w \in [1 .. Len(g) -> 1 .. Len(f)] :
            \A k \in 1 .. Len(g) : g[k].id = f[w[k]].id /\ g[k].qty <= f[w[k]].qty
      BY <3>1 DEF Thins
    <3>3. w[i] \in 1 .. Len(f) /\ g[i].id = f[w[i]].id /\ g[i].qty <= f[w[i]].qty
      BY <2>2, <3>1, <3>2
    <3> QED
      BY <2>2, <3>1, <3>3
  <2>4. GetOrderQty(c, id) = c[s][p][i].qty
    BY ONLY <2>2, BookOK(c, Ids), s \in Side, p \in Price, EntryQty
  <2>5. GetOrderQty(b, id) = b[s][p][j].qty
    BY ONLY <2>3, BookOK(b, Ids), s \in Side, p \in Price, EntryQty
  <2> QED
    BY <1>1, <2>3, <2>4, <2>5
<1> QED
  BY <1>2, <1>3

\* The other orders of a book to which one is added.
LEMMA StackedQty ==
  ASSUME NEW Ids, NEW b, BookOK(b, Ids), NEW s \in Side, NEW p \in Price,
         NEW id \in Ids, NEW n \in Nat \ {0}, BookOK(Stacked(b, s, p, id, n), Ids),
         NEW other, other # id
  PROVE  GetOrderQty(Stacked(b, s, p, id, n), other) = GetOrderQty(b, other)
<1>1. PICK c : c = Stacked(b, s, p, id, n) /\ BookOK(c, Ids)
  OBVIOUS
<1>2a. PICK e : e = [id |-> id, qty |-> n]
  OBVIOUS
<1>2. e \in Entries(Ids)
  BY <1>2a DEF Entries
<1>3. /\ Stacked(b, s, p, id, n)[s][p] = Append(b[s][p], [id |-> id, qty |-> n])
      /\ \A t \in Side, q \in Price : t # s \/ q # p =>
           Stacked(b, s, p, id, n)[t][q] = b[t][q]
  BY StackedElsewhere
<1>4. \A t \in Side, q \in Price : t # s \/ q # p => c[t][q] = b[t][q]
  BY <1>1, <1>3
<1>5. c[s][p] = Append(b[s][p], e)
  BY <1>1, <1>2a, <1>3
<1>6. PICK f \in Seq(Entries(Ids)) : f = b[s][p]
  BY DEF BookOK
<1>7. /\ Len(c[s][p]) = Len(f) + 1 /\ c[s][p][Len(f) + 1].id = id
      /\ \A i \in 1 .. Len(f) : c[s][p][i] = b[s][p][i]
  BY <1>2, <1>2a, <1>5, <1>6
<1>8. CASE Holds(b, other)
  <2>1. PICK t \in Side, q \in Price : \E i \in 1 .. Len(b[t][q]) : b[t][q][i].id = other
    BY <1>8 DEF Holds
  <2>2. PICK i \in 1 .. Len(b[t][q]) : b[t][q][i].id = other
    BY <2>1
  <2>3. i \in 1 .. Len(c[t][q]) /\ c[t][q][i] = b[t][q][i]
    <3>1. CASE t = s /\ q = p
      BY <1>6, <1>7, <3>1
    <3>2. CASE t # s \/ q # p
      BY <1>4, <3>2
    <3> QED
      BY <3>1, <3>2
  <2>4. GetOrderQty(c, other) = c[t][q][i].qty
    <3>1. BookOK(c, Ids) /\ c[t][q][i].id = other
      BY <1>1, <2>2, <2>3
    <3> QED
      BY ONLY <2>3, <3>1, t \in Side, q \in Price, EntryQty
  <2>5. GetOrderQty(b, other) = b[t][q][i].qty
    BY ONLY <2>2, BookOK(b, Ids), t \in Side, q \in Price, EntryQty
  <2> QED
    BY <1>1, <2>3, <2>4, <2>5
<1>9. CASE ~Holds(b, other)
  <2>1. ~Holds(c, other)
    <3> SUFFICES ASSUME NEW t \in Side, NEW q \in Price, NEW i \in 1 .. Len(c[t][q]),
                        c[t][q][i].id = other
                 PROVE  FALSE
      BY DEF Holds
    <3>1. CASE t = s /\ q = p
      <4>1. i \in 1 .. Len(f) \/ i = Len(f) + 1
        BY <1>7, <3>1
      <4>2. i \in 1 .. Len(f) /\ b[s][p][i].id = other
        BY <1>7, <3>1, <4>1
      <4> QED
        BY <1>6, <1>9, <4>2 DEF Holds
    <3>2. CASE t # s \/ q # p
      <4>1. c[t][q] = b[t][q]
        BY <1>4, <3>2
      <4> QED
        BY <1>9, <4>1 DEF Holds
    <3> QED
      BY <3>1, <3>2
  <2>2. GetOrderQty(c, other) = 0
    BY <1>1, <2>1, OrderQty
  <2>3. GetOrderQty(b, other) = 0
    BY <1>9, OrderQty
  <2> QED
    BY <1>1, <2>2, <2>3
<1> QED
  BY <1>8, <1>9

LEMMA CancelQty ==
  ASSUME NEW Ids, NEW b, BookOK(b, Ids), NEW id, NEW o \in Resting(b), o.id # id
  PROVE  GetOrderQty(CancelOrder(b, id), o.id) = o.qty
<1>1. RestsIn(b, o)
  BY RestingEntries
<1>2. PICK s \in Side, p \in Price : \E i \in 1 .. Len(b[s][p]) :
        o = [id |-> b[s][p][i].id, qty |-> b[s][p][i].qty, side |-> s, price |-> p]
  BY <1>1 DEF RestsIn
<1>3. PICK i \in 1 .. Len(b[s][p]) :
        o = [id |-> b[s][p][i].id, qty |-> b[s][p][i].qty, side |-> s, price |-> p]
  BY <1>2
<1>4. PICK c : c = CancelOrder(b, id) /\ BookOK(c, Ids)
  BY CancelBook
<1>5. PICK f \in Seq(Entries(Ids)) : f = b[s][p]
  BY DEF BookOK
<1>6. PICK D : D = {k \in DOMAIN f : f[k].id # id}
  OBVIOUS
<1>7. PICK g : g = c[s][p] /\ g = EntriesAt(f, D)
  BY <1>4, <1>5, <1>6 DEF CancelOrder, WithoutId
<1>8. PICK w : Positions(w, g, f, D, Len(f))
  BY <1>7, EntriesAtPositions
<1>9. i \in 1 .. Len(f) /\ i \in D
  BY <1>3, <1>5, <1>6, FifoShares
<1>10. PICK j \in 1 .. Len(g) : w[j] = i
  BY <1>8, <1>9 DEF Positions
<1>11. g[j] = f[i]
  BY <1>8, <1>10 DEF Positions
<1>12. GetOrderQty(c, o.id) = g[j].qty
  <2>1. j \in 1 .. Len(c[s][p]) /\ c[s][p][j].id = o.id
    BY <1>3, <1>5, <1>7, <1>10, <1>11
  <2> QED
    <3>1. GetOrderQty(c, o.id) = c[s][p][j].qty
      BY ONLY <1>4, <2>1, s \in Side, p \in Price, EntryQty
    <3> QED
      BY <1>7, <3>1
<1> QED
  BY <1>3, <1>4, <1>5, <1>11, <1>12

LEMMA CancelHeld ==
  ASSUME NEW Ids, NEW b, BookOK(b, Ids), NEW id
  PROVE  HeldShares(CancelOrder(b, id)) = HeldShares(b) - GetOrderQty(b, id)
<1>1. PICK c, R : c = CancelOrder(b, id) /\ R = Resting(b)
  OBVIOUS
<1>2. PICK f, g : f = [o \in R |-> o.qty] /\ g = [o \in R |-> GetOrderQty(c, o.id)]
  OBVIOUS
<1>3. /\ BookOK(c, Ids) /\ ~Holds(c, id) /\ \A k : Holds(c, k) => Holds(b, k)
  <2>1. /\ BookOK(c, Ids) /\ ~Holds(c, id)
        /\ \A s \in Side, p \in Price : Thins(c[s][p], b[s][p])
    BY <1>1, CancelBook
  <2>2. \A k : Holds(c, k) => Holds(b, k)
    <3>1. c \in [Side -> [Price -> Seq(Entries(Ids))]]
      BY <2>1 DEF BookOK
    <3> QED
      BY <2>1, <3>1, ThinnedBook
  <2> QED
    BY <2>1, <2>2
<1>4. SumFunctionOnSet(g, R) = HeldShares(c)
  <2>1. \A o \in Resting(b) : g[o] = GetOrderQty(c, o.id)
    BY <1>1, <1>2
  <2> QED
    BY <1>1, <1>3, <2>1, QtysHeld
<1>5. IsFiniteSet(R) /\ SumFunctionOnSet(f, R) = HeldShares(b) /\ HeldShares(b) \in Nat
  BY <1>1, <1>2, RestingSum
<1>6. \A o \in R : /\ f[o] = o.qty /\ f[o] \in Nat /\ GetOrderQty(b, o.id) = o.qty
                   /\ o.id # id => g[o] = f[o]
  <2> SUFFICES ASSUME NEW o \in R
               PROVE  /\ f[o] = o.qty /\ f[o] \in Nat /\ GetOrderQty(b, o.id) = o.qty
                      /\ o.id # id => g[o] = f[o]
    OBVIOUS
  <2>1. o.qty \in Nat /\ GetOrderQty(b, o.id) = o.qty
    BY <1>1, RestingLevel
  <2>2. o.id # id => GetOrderQty(c, o.id) = o.qty
    BY <1>1, CancelQty
  <2> QED
    BY <1>2, <2>1, <2>2
<1>7. CASE Holds(b, id)
  <2>1. PICK o \in R : o.id = id
    BY <1>1, <1>7, RestingIds
  <2>2. g[o] = 0 /\ f[o] = GetOrderQty(b, id)
    <3>1. GetOrderQty(c, id) = 0
      BY <1>3, OrderQty
    <3> QED
      BY <1>2, <1>6, <2>1, <3>1
  <2>3. \A k \in R \ {o} : g[k] = f[k]
    <3> SUFFICES ASSUME NEW k \in R \ {o} PROVE k.id # id
      BY <1>6
    <3> QED
      BY <1>1, <2>1, UniqueResting
  <2>4. \A k \in R : f[k] \in Int
    BY <1>6
  <2>5. g[o] \in Int
    BY <2>2
  <2>6. SumFunctionOnSet(g, R) = SumFunctionOnSet(f, R) + g[o] - f[o]
    BY ONLY <1>5, <2>1, <2>3, <2>4, <2>5, SumChange
  <2>7. f[o] \in Nat
    BY <1>6
  <2> QED
    BY <1>1, <1>4, <1>5, <2>2, <2>6, <2>7
<1>8. CASE ~Holds(b, id)
  <2>1. \A o \in R : o.id # id
    BY <1>1, <1>8, RestingIds
  <2>2. g = f
    <3>1. \A o \in R : g[o] = f[o]
      BY <1>6, <2>1
    <3> QED
      BY <1>2, <3>1
  <2>3. GetOrderQty(b, id) = 0
    BY <1>8, OrderQty
  <2> QED
    BY <1>1, <1>4, <1>5, <2>2, <2>3
<1> QED
  BY <1>7, <1>8

(* The fills of an insertion: a share that is traded is reported once.     *)
LEMMA InsertedQty ==
  ASSUME NEW Ids, NEW b, BookOK(b, Ids), NEW s \in Side, NEW p, NEW qty \in Nat,
         NEW id \in Ids, Insertable(b, id, p, qty), NEW o \in Resting(b)
  PROVE  GetOrderQty(InsertOrder(b, id, s, p, qty), o.id) = GetOrderQty(Matched(b, s, p, qty), o.id)
<1>1. PICK a, c, n : /\ a = InsertOrder(b, id, s, p, qty) /\ c = Matched(b, s, p, qty)
                     /\ n = Available(b, s, p)
  OBVIOUS
<1>2. /\ p \in Price /\ ~Holds(b, id) /\ BookOK(a, Ids)
      /\ a = IF n < qty THEN [c EXCEPT ![s][p] = Append(@, [id |-> id, qty |-> qty - n])] ELSE c
  BY <1>1, InsertBook
<1>3. BookOK(c, Ids) /\ n \in Nat
  <2>1. BookOK(c, Ids)
    BY <1>1, <1>2, MatchedBook
  <2>2. n \in Nat
    BY <1>1, MatchSums
  <2> QED
    BY <2>1, <2>2
<1>4. CASE n < qty
  <2>1. PICK m \in Nat \ {0} : m = qty - n
    BY <1>3, <1>4
  <2>2. a = Stacked(c, s, p, id, m)
    BY <1>2, <1>4, <2>1 DEF Stacked
  <2>3. o.id # id
    BY <1>2, RestingIds
  <2>4. BookOK(Stacked(c, s, p, id, m), Ids) /\ p \in Price /\ BookOK(c, Ids)
    BY <1>2, <1>3, <2>2
  <2>5. GetOrderQty(Stacked(c, s, p, id, m), o.id) = GetOrderQty(c, o.id)
    BY ONLY <2>1, <2>3, <2>4, id \in Ids, s \in Side, StackedQty
  <2> QED
    BY <1>1, <2>2, <2>5
<1>5. CASE ~(n < qty)
  BY <1>1, <1>2, <1>5
<1> QED
  BY <1>4, <1>5

\* A trade of those fills.
IsFill(f) == f.qty \in Nat \ {0} /\ f.price \in Price

LEMMA FillFacts ==
  ASSUME NEW Ids, NEW b, BookOK(b, Ids), NEW s \in Side, NEW p, NEW qty \in Nat,
         NEW id \in Ids, Insertable(b, id, p, qty), NEW F, F = Fills(b, id, s, p, qty)
  PROVE  /\ IsFiniteSet(F) /\ \A f \in F : IsFill(f)
         /\ SumFunctionOnSet([f \in F |-> f.qty], F) = Traded(b, s, p, qty)
<1>1. PICK a, c, R : a = InsertOrder(b, id, s, p, qty) /\ c = Matched(b, s, p, qty) /\ R = Resting(b)
  OBVIOUS
<1>2. /\ BookOK(c, Ids) /\ HeldShares(c) = HeldShares(b) - Traded(b, s, p, qty)
      /\ Traded(b, s, p, qty) \in Nat
      /\ \A k : GetOrderQty(c, k) \in Nat /\ GetOrderQty(c, k) <= GetOrderQty(b, k)
      /\ \A k : Holds(c, k) => Holds(b, k)
  <2>1. p \in Price
    BY DEF Insertable
  <2>2. /\ BookOK(c, Ids) /\ \A t \in Side, q \in Price : Thins(c[t][q], b[t][q])
        /\ \A k : Holds(c, k) => Holds(b, k)
    BY <1>1, <2>1, MatchedBook
  <2>3. HeldShares(c) = HeldShares(b) - Traded(b, s, p, qty) /\ Traded(b, s, p, qty) \in Nat
    BY <1>1, <2>1, MatchedHeld
  <2>4. \A k : GetOrderQty(c, k) \in Nat /\ GetOrderQty(c, k) <= GetOrderQty(b, k)
    BY <2>2, ThinnedQty
  <2> QED
    BY <2>2, <2>3, <2>4
<1>3. \A o \in R : /\ GetOrderQty(a, o.id) = GetOrderQty(c, o.id)
                   /\ o.qty \in Nat \ {0} /\ o.price \in Price /\ GetOrderQty(b, o.id) = o.qty
  <2> SUFFICES ASSUME NEW o \in R
               PROVE  /\ GetOrderQty(a, o.id) = GetOrderQty(c, o.id)
                      /\ o.qty \in Nat \ {0} /\ o.price \in Price /\ GetOrderQty(b, o.id) = o.qty
    OBVIOUS
  <2>1. GetOrderQty(a, o.id) = GetOrderQty(c, o.id)
    BY <1>1, InsertedQty
  <2>2. o.qty \in Nat \ {0} /\ o.price \in Price /\ GetOrderQty(b, o.id) = o.qty
    BY <1>1, RestingLevel
  <2> QED
    BY <2>1, <2>2
<1>4. PICK lost : lost = [o \in R |-> o.qty - GetOrderQty(c, o.id)]
  OBVIOUS
<1>5. PICK L : L = {o \in R : GetOrderQty(a, o.id) # o.qty}
  OBVIOUS
<1>6. PICK u : u = [o \in L |-> [maker_id |-> o.id, price |-> o.price,
                                 qty |-> o.qty - GetOrderQty(a, o.id)]]
  OBVIOUS
<1>7. F = {u[o] : o \in L}
  <2>1. F = {[maker_id |-> o.id, price |-> o.price, qty |-> o.qty - GetOrderQty(a, o.id)] : o \in L}
    BY <1>1, <1>5 DEF Fills
  <2> QED
    BY <1>6, <2>1
<1>8. \A o \in L : /\ o \in R /\ u[o].maker_id = o.id /\ u[o].qty = lost[o] /\ u[o].price = o.price
                   /\ lost[o] \in Nat \ {0}
  <2> SUFFICES ASSUME NEW o \in L
               PROVE  /\ o \in R /\ u[o].maker_id = o.id /\ u[o].qty = lost[o]
                      /\ u[o].price = o.price /\ lost[o] \in Nat \ {0}
    OBVIOUS
  <2>1. o \in R /\ GetOrderQty(a, o.id) # o.qty
    BY <1>5
  <2>2. /\ u[o].maker_id = o.id /\ u[o].qty = o.qty - GetOrderQty(a, o.id)
        /\ u[o].price = o.price /\ lost[o] = o.qty - GetOrderQty(a, o.id)
    BY <1>3, <1>4, <1>6, <2>1
  <2>3. GetOrderQty(a, o.id) \in Nat /\ GetOrderQty(a, o.id) <= o.qty /\ o.qty \in Nat
    BY <1>2, <1>3, <2>1
  <2> QED
    BY <2>1, <2>2, <2>3
<1>9. \A o \in R : lost[o] = o.qty - GetOrderQty(c, o.id) /\ lost[o] \in Nat
  BY <1>2, <1>3, <1>4
<1>10. IsFiniteSet(R) /\ IsFiniteSet(L) /\ L \subseteq R
  <2>1. IsFiniteSet(R)
    BY <1>1, RestingSum
  <2> QED
    BY <1>5, <2>1, FS_Subset
<1>11. SumFunctionOnSet(lost, R) = Traded(b, s, p, qty)
  <2>1. PICK f, g : f = [o \in R |-> o.qty] /\ g = [o \in R |-> GetOrderQty(c, o.id)]
    OBVIOUS
  <2>2. SumFunctionOnSet(f, R) = HeldShares(b) /\ HeldShares(b) \in Nat
    BY <1>1, <2>1, RestingSum
  <2>3. SumFunctionOnSet(g, R) = HeldShares(c)
    <3>1. \A o \in Resting(b) : g[o] = GetOrderQty(c, o.id)
      BY <1>1, <2>1
    <3> QED
      BY <1>1, <1>2, <3>1, QtysHeld
  <2>4. \A o \in R : f[o] \in Int /\ g[o] \in Int /\ lost[o] = f[o] - g[o]
    BY <1>2, <1>3, <1>4, <2>1
  <2>5. SumFunctionOnSet(lost, R) = SumFunctionOnSet(f, R) - SumFunctionOnSet(g, R)
    BY <1>10, <2>4, SumMinus
  <2> QED
    BY <1>2, <2>2, <2>3, <2>5
<1>12. SumFunctionOnSet(lost, L) = Traded(b, s, p, qty)
  <2>1. PICK N : N = R \ L
    OBVIOUS
  <2>2. IsFiniteSet(N) /\ N \cap L = {} /\ N \cup L = R
    BY <1>10, <2>1, FS_Subset
  <2>3. \A o \in N : lost[o] = 0
    <3> SUFFICES ASSUME NEW o \in N PROVE lost[o] = 0
      OBVIOUS
    <3>1. o \in R /\ GetOrderQty(a, o.id) = o.qty
      BY <1>5, <2>1
    <3> QED
      BY <1>3, <1>9, <3>1
  <2>4. SumFunctionOnSet(lost, N) = 0
    BY <2>2, <2>3, SumZero
  <2>5. \A o \in N \cup L : lost[o] \in Int
    BY <1>9, <2>2
  <2>6. SumFunctionOnSet(lost, R) = SumFunctionOnSet(lost, N) + SumFunctionOnSet(lost, L)
    BY <1>10, <2>2, <2>5, SumDisjoint
  <2>7. SumFunctionOnSet(lost, L) \in Int
    <3>1. \A o \in L : lost[o] \in Nat
      BY <1>8
    <3> QED
      BY <1>10, <3>1, SumType
  <2> QED
    BY <1>11, <2>4, <2>6, <2>7
<1>13. PICK g : g = [f \in F |-> f.qty]
  OBVIOUS
<1>14. Recounts(u, lost, L, g, F)
  <2>1. u \in [L -> F]
    BY <1>6, <1>7
  <2>2. ASSUME NEW x \in L, NEW y \in L, u[x] = u[y] PROVE x = y
    <3>1. x.id = y.id /\ x \in R /\ y \in R
      BY <1>8, <2>2
    <3> QED
      BY <1>1, <3>1, UniqueResting
  <2>3. \A z \in F : \E x \in L : u[x] = z
    BY <1>7
  <2>4. \A x \in L : lost[x] = g[u[x]] /\ lost[x] \in Int
    BY <1>8, <1>13, <2>1
  <2> QED
    BY <2>1, <2>2, <2>3, <2>4 DEF Recounts
<1>15. IsFiniteSet(F) /\ SumFunctionOnSet(g, F) = Traded(b, s, p, qty)
  BY <1>10, <1>12, <1>14, SumInjection
<1>16. \A f \in F : IsFill(f)
  BY <1>3, <1>7, <1>8 DEF IsFill
<1> QED
  BY <1>13, <1>15, <1>16

LEMMA NoFills ==
  ASSUME NEW Ids, NEW b, BookOK(b, Ids), NEW s, NEW p, NEW qty, NEW id,
         ~Insertable(b, id, p, qty)
  PROVE  Fills(b, id, s, p, qty) = {} /\ InsertOrder(b, id, s, p, qty) = b
<1>1. InsertOrder(b, id, s, p, qty) = b
  BY DEF InsertOrder
<1>2. \A o \in Resting(b) : GetOrderQty(b, o.id) = o.qty
  BY RestingLevel
<1> QED
  BY <1>1, <1>2 DEF Fills

(* What a list of fills comes to: no fill is empty, and none is at a price *)
(* outside the book.                                                       *)
LEMMA FillBounds ==
  ASSUME NEW F, IsFiniteSet(F), \A f \in F : IsFill(f),
         NEW g, g = [f \in F |-> f.qty], NEW h, h = [f \in F |-> f.price * f.qty]
  PROVE  /\ SumFunctionOnSet(g, F) \in Nat /\ SumFunctionOnSet(h, F) \in Nat
         /\ Cardinality(F) \in Nat /\ Cardinality(F) <= SumFunctionOnSet(g, F)
         /\ SumFunctionOnSet(g, F) <= SumFunctionOnSet(h, F)
         /\ SumFunctionOnSet(h, F) <= (NO_ASK - 1) * SumFunctionOnSet(g, F)
<1>1. PICK top \in Nat : top = NO_ASK - 1
  BY BookAssumption
<1>2. PICK k : k = [f \in F |-> top * f.qty]
  OBVIOUS
<1>3. \A f \in F : /\ g[f] \in Nat \ {0} /\ h[f] \in Nat /\ k[f] \in Nat
                   /\ g[f] <= h[f] /\ h[f] <= k[f] /\ k[f] = top * g[f]
  <2> SUFFICES ASSUME NEW f \in F
               PROVE  /\ g[f] \in Nat \ {0} /\ h[f] \in Nat /\ k[f] \in Nat
                      /\ g[f] <= h[f] /\ h[f] <= k[f] /\ k[f] = top * g[f]
    OBVIOUS
  <2>1. PICK q \in Nat \ {0}, x \in Nat : q = f.qty /\ x = f.price /\ 1 <= x /\ x <= top
    <3>1. f.price \in 1 .. top /\ f.qty \in Nat \ {0}
      BY <1>1 DEF IsFill, Price
    <3> QED
      BY <3>1
  <2>2. x * q \in Nat /\ q <= x * q /\ top * q \in Nat /\ x * q <= top * q
    <3>1. PICK y \in Nat, z \in Nat : y = x - 1 /\ z = top - x
      BY <1>1, <2>1
    <3>2. y * q >= 0 /\ z * q >= 0 /\ y * q \in Nat /\ z * q \in Nat
      BY <2>1
    <3>3. x * q = y * q + q /\ top * q = x * q + z * q
      BY <2>1, <3>1
    <3> QED
      BY <2>1, <3>2, <3>3
  <2> QED
    BY <1>2, <2>1, <2>2
<1>4. SumFunctionOnSet(g, F) \in Nat /\ SumFunctionOnSet(h, F) \in Nat
  <2>1. \A f \in F : g[f] \in Nat
    BY <1>3
  <2>2. \A f \in F : h[f] \in Nat
    BY <1>3
  <2> QED
    BY <2>1, <2>2, SumType
<1>5. Cardinality(F) \in Nat /\ Cardinality(F) <= SumFunctionOnSet(g, F)
  BY <1>3, SumOnes, FS_CardinalityType
<1>6. SumFunctionOnSet(g, F) <= SumFunctionOnSet(h, F)
  <2>1. \A f \in F : g[f] \in Int /\ h[f] \in Int /\ g[f] <= h[f]
    BY <1>3
  <2> QED
    BY <2>1, SumBounds
<1>7. SumFunctionOnSet(h, F) <= SumFunctionOnSet(k, F)
  <2>1. \A f \in F : h[f] \in Int /\ k[f] \in Int /\ h[f] <= k[f]
    BY <1>3
  <2> QED
    BY <2>1, SumBounds
<1>8. SumFunctionOnSet(k, F) = top * SumFunctionOnSet(g, F)
  <2>1. \A f \in F : g[f] \in Nat /\ k[f] = top * g[f]
    BY <1>3
  <2> QED
    BY <2>1, SumScaled
<1> QED
  BY <1>1, <1>4, <1>5, <1>6, <1>7, <1>8

LEMMA EmptyHeld ==
  ASSUME NEW Ids
  PROVE  BookOK(EmptyBook, Ids) /\ HeldShares(EmptyBook) = 0
<1>1. PICK b : b = EmptyBook
  OBVIOUS
<1>2. \A s \in Side, p \in Price : b[s][p] = <<>>
  BY <1>1 DEF EmptyBook
<1>3. BookOK(b, Ids)
  <2>1. <<>> \in Seq(Entries(Ids)) /\ Len(<<>>) = 0
    OBVIOUS
  <2>2. b \in [Side -> [Price -> Seq(Entries(Ids))]]
    BY <1>1, <2>1 DEF EmptyBook
  <2>3. IdsUnique(b)
    BY <1>2, <2>1 DEF IdsUnique
  <2>4. NotCrossed(b)
    BY <1>2 DEF NotCrossed, Tracked, Side
  <2> QED
    BY <2>2, <2>3, <2>4 DEF BookOK
<1>4. PICK v : v = [k \in Slots |-> Volume(b[k[1]][k[2]])]
  OBVIOUS
<1>5. \A k \in Slots : v[k] = 0
  <2> SUFFICES ASSUME NEW k \in Slots PROVE v[k] = 0
    OBVIOUS
  <2>1. b[k[1]][k[2]] = <<>>
    BY <1>2 DEF Slots
  <2>2. PICK f : f = <<>>
    OBVIOUS
  <2>2a. f \in Seq(Entries(Ids))
    BY <2>2
  <2>3. Volume(f) = 0
    BY <2>2, <2>2a, FifoShares
  <2> QED
    BY <1>4, <2>1, <2>2, <2>3
<1>6. SumFunctionOnSet(v, Slots) = 0
  BY <1>5, SlotsFinite, SumZero
<1> QED
  BY <1>1, <1>3, <1>4, <1>6 DEF HeldShares

-----------------------------------------------------------------------------
(* An insertion, fill by fill.                                             *)

\* The book after n shares were taken from the front of a level.
Bitten(b, t, q, n) == [b EXCEPT ![t][q] = TakeFront(b[t][q], n)]

LEMMA BittenBook ==
  ASSUME NEW Ids, NEW b, BookOK(b, Ids), NEW t \in Side, NEW q \in Price, NEW n \in Nat,
         NEW c, c = Bitten(b, t, q, n)
  PROVE  /\ BookOK(c, Ids)
         /\ c[t][q] = TakeFront(b[t][q], n)
         /\ \A u \in Side, r \in Price : u # t \/ r # q => c[u][r] = b[u][r]
         /\ \A u \in Side : Tracked(c, u) \subseteq Tracked(b, u)
         /\ \A id : Holds(c, id) => Holds(b, id)
<1>1. b \in [Side -> [Price -> Seq(Entries(Ids))]]
  BY DEF BookOK
<1>2. PICK f \in Seq(Entries(Ids)) : f = b[t][q]
  BY <1>1
<1>3. TakeFront(f, n) \in Seq(Entries(Ids)) /\ Thins(TakeFront(f, n), f)
  BY TakeFrontThins
<1>4. /\ c[t][q] = TakeFront(f, n)
      /\ \A u \in Side, r \in Price : u # t \/ r # q => c[u][r] = b[u][r]
      /\ c \in [Side -> [Price -> Seq(Entries(Ids))]]
  BY <1>1, <1>2, <1>3 DEF Bitten
<1>5. \A u \in Side, r \in Price : Thins(c[u][r], b[u][r])
  <2> SUFFICES ASSUME NEW u \in Side, NEW r \in Price PROVE Thins(c[u][r], b[u][r])
    OBVIOUS
  <2>1. PICK g \in Seq(Entries(Ids)) : g = b[u][r]
    BY <1>1
  <2>2. Thins(g, g)
    BY ThinsSelf
  <2> QED
    BY <1>2, <1>3, <1>4, <2>1, <2>2
<1>6. /\ BookOK(c, Ids)
      /\ \A u \in Side : Tracked(c, u) \subseteq Tracked(b, u)
      /\ \A id : Holds(c, id) => Holds(b, id)
  BY <1>4, <1>5, ThinnedBook
<1> QED
  BY <1>2, <1>4, <1>6

(* The shares of the levels with that one among them are n less.           *)
LEMMA BittenSum ==
  ASSUME NEW Ids, NEW b, BookOK(b, Ids), NEW t \in Side, NEW q \in Tracked(b, t), NEW n \in Nat,
         n <= b[t][q][1].qty, NEW c, c = Bitten(b, t, q, n),
         NEW S, S \subseteq Tracked(b, t), q \in S, NEW R, R = S \cap Tracked(c, t)
  PROVE  /\ SumFunctionOnSet(Volumes(c, t), R) = SumFunctionOnSet(Volumes(b, t), S) - n
         /\ SumFunctionOnSet(Volumes(b, t), S) \in Nat
         /\ SumFunctionOnSet(Volumes(c, t), R) \in Nat
<1>1. q \in Price /\ b[t][q] # <<>> /\ S \subseteq Price
  BY DEF Tracked
<1>2. PICK f \in Seq(Entries(Ids)) : f = b[t][q] /\ f # <<>>
  BY <1>1 DEF BookOK
<1>3. /\ BookOK(c, Ids) /\ c[t][q] = TakeFront(f, n)
      /\ \A r \in Price : r # q => c[t][r] = b[t][r]
  BY <1>1, <1>2, BittenBook
<1>4. /\ \A r \in Price : Volumes(b, t)[r] = Volume(b[t][r]) /\ Volumes(b, t)[r] \in Nat
      /\ \A r \in Price : /\ Volumes(c, t)[r] = Volume(c[t][r]) /\ Volumes(c, t)[r] \in Nat
                          /\ Volumes(c, t)[r] = 0 <=> c[t][r] = <<>>
  BY <1>3, AvailableSum
<1>5. Volume(TakeFront(f, n)) = Volume(f) - n
  BY <1>2, NibbleIsTake
<1>6. PICK vb, vc : vb = Volumes(b, t) /\ vc = Volumes(c, t)
  OBVIOUS
<1>7. /\ vc[q] = vb[q] - n /\ \A r \in S \ {q} : vc[r] = vb[r]
      /\ \A r \in S : vb[r] \in Int /\ vc[r] \in Int /\ vb[r] \in Nat /\ vc[r] \in Nat
  BY <1>1, <1>2, <1>3, <1>4, <1>5, <1>6
<1>8. IsFiniteSet(S)
  BY TrackedFinite, FS_Subset
<1>9. SumFunctionOnSet(vc, S) = SumFunctionOnSet(vb, S) + vc[q] - vb[q]
  BY <1>7, <1>8, SumChange
<1>10. /\ SumFunctionOnSet(vb, S) \in Nat /\ SumFunctionOnSet(vc, S) \in Nat
  BY <1>7, <1>8, SumType
<1>11. SumFunctionOnSet(vc, S) = SumFunctionOnSet(vb, S) - n
  BY <1>1, <1>4, <1>6, <1>7, <1>9, <1>10
<1>12. SumFunctionOnSet(vc, R) = SumFunctionOnSet(vc, S)
  <2>1. \A r \in S : r # q => r \in R
    BY <1>1, <1>3 DEF Tracked
  <2>2. CASE q \in R
    <3>1. R = S
      BY <2>1, <2>2
    <3> QED
      BY <3>1
  <2>3. CASE q \notin R
    <3>1. R = S \ {q}
      BY <2>1, <2>3
    <3>2. vc[q] = 0
      BY <1>1, <1>4, <1>6, <2>3 DEF Tracked
    <3>3. SumFunctionOnSet(vc, S) = vc[q] + SumFunctionOnSet(vc, S \ {q})
      BY <1>7, <1>8, SumRemove
    <3>4. SumFunctionOnSet(vc, S \ {q}) \in Nat
      <4>1. IsFiniteSet(S \ {q}) /\ \A r \in S \ {q} : vc[r] \in Nat
        BY <1>7, <1>8, FS_Subset
      <4> QED
        BY <4>1, SumType
    <3>5. PICK k \in Nat : k = SumFunctionOnSet(vc, S \ {q})
      BY <3>4
    <3>6. SumFunctionOnSet(vc, S) = k
      <4>1. SumFunctionOnSet(vc, S) = 0 + k /\ 0 + k = k
        BY <3>2, <3>3, <3>5
      <4> QED
        BY <4>1
    <3>7. SumFunctionOnSet(vc, R) = k
      BY <3>1, <3>5
    <3> QED
      BY <3>6, <3>7
  <2> QED
    BY <2>2, <2>3
<1> QED
  BY <1>6, <1>10, <1>11, <1>12

LEMMA EmptyTaken == \A k \in Nat : TakeFront(<<>>, k) = <<>>
<1>1. PICK f : f = <<>>
  OBVIOUS
<1>2. f \in Seq(Entries({})) /\ Len(f) = 0
  BY <1>1
<1>3. Volume(f) = 0
  <2>1. Shares(f, 0) = 0
    BY <1>2, FifoShares
  <2> QED
    BY <1>2, <2>1 DEF Volume
<1>4. \A k \in Nat : k >= Volume(f)
  BY <1>3
<1> QED
  BY <1>1, <1>4 DEF TakeFront

\* One step of a matching loop: x shares from the front of the best level on the
\* other side, which crosses; the order or the level's first is then used up.
BitesBest(b, s, p, n, q, x) ==
  /\ q \in Price /\ IsBest(Opposite(s), Tracked(b, Opposite(s)), q) /\ Crosses(s, q, p)
  /\ x \in Nat \ {0} /\ x <= n /\ x <= b[Opposite(s)][q][1].qty
  /\ x = n \/ x = b[Opposite(s)][q][1].qty

LEMMA BittenLevels ==
  ASSUME NEW Ids, NEW b, BookOK(b, Ids), NEW s \in Side, NEW p \in Price, NEW n \in Nat,
         NEW q, NEW x, BitesBest(b, s, p, n, q, x),
         NEW t \in Side, t = Opposite(s), NEW c, c = Bitten(b, t, q, x)
  PROVE  /\ Queued(b, t, q) = 0 /\ Queued(c, t, q) = 0
         /\ \A r \in Tracked(b, t) : r # q =>
              Queued(c, t, r) = Queued(b, t, r) - x /\ x <= Queued(b, t, r)
         /\ Available(c, s, p) = Available(b, s, p) - x /\ x <= Available(b, s, p)
<1>1. /\ q \in Price /\ q \in Tracked(b, t) /\ \A r \in Tracked(b, t) \ {q} : Better(t, q, r)
      /\ Crosses(s, q, p) /\ x \in Nat /\ x <= b[t][q][1].qty
  BY DEF BitesBest, IsBest
<1>2. BookOK(c, Ids) /\ Tracked(c, t) \subseteq Tracked(b, t)
  BY <1>1, BittenBook
<1>3. \A r \in Tracked(b, t) : ~Better(t, r, q)
  BY <1>1 DEF Better, Tracked, Price
<1>4. Queued(b, t, q) = 0 /\ Queued(c, t, q) = 0
  <2>1. {r \in Tracked(b, t) : Better(t, r, q)} = {} /\ {r \in Tracked(c, t) : Better(t, r, q)} = {}
    BY <1>2, <1>3
  <2> QED
    BY <2>1, SumEmpty DEF Queued
<1>5. ASSUME NEW r \in Tracked(b, t), r # q
      PROVE  Queued(c, t, r) = Queued(b, t, r) - x /\ x <= Queued(b, t, r)
  <2>1. PICK S : S = {v \in Tracked(b, t) : Better(t, v, r)}
    OBVIOUS
  <2>2. PICK R : R = {v \in Tracked(c, t) : Better(t, v, r)}
    OBVIOUS
  <2>3. S \subseteq Tracked(b, t) /\ q \in S /\ R = S \cap Tracked(c, t)
    BY <1>1, <1>2, <1>5, <2>1, <2>2
  <2>4. /\ SumFunctionOnSet(Volumes(c, t), R) = SumFunctionOnSet(Volumes(b, t), S) - x
        /\ SumFunctionOnSet(Volumes(b, t), S) \in Nat
        /\ SumFunctionOnSet(Volumes(c, t), R) \in Nat
    BY <1>1, <2>3, BittenSum
  <2>5. /\ Queued(b, t, r) = SumFunctionOnSet(Volumes(b, t), S)
        /\ Queued(c, t, r) = SumFunctionOnSet(Volumes(c, t), R)
    BY <2>1, <2>2 DEF Queued, Volumes
  <2> QED
    BY <1>1, <2>4, <2>5
<1>6. Available(c, s, p) = Available(b, s, p) - x /\ x <= Available(b, s, p)
  <2>1. PICK S, R : S = Reachable(b, s, p) /\ R = Reachable(c, s, p)
    OBVIOUS
  <2>2. S \subseteq Tracked(b, t) /\ q \in S /\ R = S \cap Tracked(c, t)
    BY <1>1, <1>2, <2>1 DEF Reachable
  <2>3. /\ SumFunctionOnSet(Volumes(c, t), R) = SumFunctionOnSet(Volumes(b, t), S) - x
        /\ SumFunctionOnSet(Volumes(b, t), S) \in Nat
        /\ SumFunctionOnSet(Volumes(c, t), R) \in Nat
    BY <1>1, <2>2, BittenSum
  <2>4. /\ Available(b, s, p) = SumFunctionOnSet(Volumes(b, t), S)
        /\ Available(c, s, p) = SumFunctionOnSet(Volumes(c, t), R)
    BY <1>2, <2>1, AvailableSum
  <2> QED
    BY <1>1, <2>3, <2>4
<1> QED
  BY <1>4, <1>5, <1>6

(* What the rest of the order does to a level of the bitten book is what   *)
(* the whole order does to it.                                             *)
LEMMA BittenMatch ==
  ASSUME NEW Ids, NEW b, BookOK(b, Ids), NEW s \in Side, NEW p \in Price, NEW n \in Nat,
         NEW q, NEW x, BitesBest(b, s, p, n, q, x),
         NEW t \in Side, t = Opposite(s), NEW c, c = Bitten(b, t, q, x)
  PROVE  \A r \in Price :
           MatchAt(b, s, p, n, r) = IF n = x THEN c[t][r] ELSE MatchAt(c, s, p, n - x, r)
<1> SUFFICES ASSUME NEW r \in Price
             PROVE  MatchAt(b, s, p, n, r) = IF n = x THEN c[t][r] ELSE MatchAt(c, s, p, n - x, r)
  OBVIOUS
<1>1. /\ q \in Price /\ q \in Tracked(b, t) /\ Crosses(s, q, p) /\ x \in Nat \ {0} /\ x <= n
      /\ x = n \/ x = b[t][q][1].qty
      /\ x <= b[t][q][1].qty
  BY DEF BitesBest, IsBest
<1>2. PICK f \in Seq(Entries(Ids)) : f = b[t][q] /\ f # <<>>
  BY <1>1 DEF BookOK, Tracked
<1>3. /\ BookOK(c, Ids) /\ c[t][q] = TakeFront(f, x)
      /\ \A v \in Price : v # q => c[t][v] = b[t][v]
  <2>1. BookOK(c, Ids)
    BY <1>1, BittenBook
  <2>2. b \in [Side -> [Price -> Seq(Entries(Ids))]]
    BY DEF BookOK
  <2> QED
    BY <1>1, <1>2, <2>1, <2>2 DEF Bitten
<1>s. s \in Side /\ p \in Int /\ n \in Int
  BY DEF Price
<1>4. /\ Queued(b, t, r) \in Nat
      /\ MatchAt(b, s, p, n, r) = IF Crosses(s, r, p) /\ n > Queued(b, t, r)
                                  THEN TakeFront(b[t][r], n - Queued(b, t, r)) ELSE b[t][r]
  <2>1. /\ Queued(b, Opposite(s), r) \in Nat
        /\ MatchAt(b, s, p, n, r) =
             IF Crosses(s, r, p) /\ n > Queued(b, Opposite(s), r)
             THEN TakeFront(b[Opposite(s)][r], n - Queued(b, Opposite(s), r)) ELSE b[Opposite(s)][r]
    <3>1. \A qty : MatchAt(b, s, p, qty, r) =
             IF Crosses(s, r, p) /\ qty > Queued(b, Opposite(s), r)
             THEN TakeFront(b[Opposite(s)][r], qty - Queued(b, Opposite(s), r)) ELSE b[Opposite(s)][r]
      BY MatchSums
    <3>2. Queued(b, Opposite(s), r) \in Nat
      BY MatchSums
    <3> QED
      BY ONLY <3>1, <3>2
  <2> QED
    BY <2>1
<1>5. PICK m \in Nat : m = n - x
  BY <1>1
<1>6. /\ Queued(c, t, r) \in Nat
      /\ MatchAt(c, s, p, m, r) = IF Crosses(s, r, p) /\ m > Queued(c, t, r)
                                  THEN TakeFront(c[t][r], m - Queued(c, t, r)) ELSE c[t][r]
  <2>1. /\ Queued(c, Opposite(s), r) \in Nat
        /\ MatchAt(c, s, p, m, r) =
             IF Crosses(s, r, p) /\ m > Queued(c, Opposite(s), r)
             THEN TakeFront(c[Opposite(s)][r], m - Queued(c, Opposite(s), r)) ELSE c[Opposite(s)][r]
    <3>1. \A qty : MatchAt(c, s, p, qty, r) =
             IF Crosses(s, r, p) /\ qty > Queued(c, Opposite(s), r)
             THEN TakeFront(c[Opposite(s)][r], qty - Queued(c, Opposite(s), r)) ELSE c[Opposite(s)][r]
      <4>1. BookOK(c, Ids) /\ s \in Side /\ r \in Price
        BY <1>3
      <4> QED
        BY ONLY <4>1, MatchSums
    <3>2. Queued(c, Opposite(s), r) \in Nat
      BY <1>3, MatchSums
    <3> QED
      BY ONLY <3>1, <3>2
  <2> QED
    BY <2>1
<1>7. /\ Queued(b, t, q) = 0 /\ Queued(c, t, q) = 0
      /\ r \in Tracked(b, t) /\ r # q =>
           Queued(c, t, r) = Queued(b, t, r) - x /\ x <= Queued(b, t, r)
  BY BittenLevels
<1>8. CASE r = q
  <2>1. MatchAt(b, s, p, n, r) = TakeFront(f, n)
    <3>1. n > 0 /\ n - 0 = n
      BY <1>1
    <3> QED
      BY <1>1, <1>2, <1>4, <1>7, <1>8, <3>1
  <2>2. CASE n = x
    BY <1>3, <1>8, <2>1, <2>2
  <2>3. CASE n # x
    <3>1. m > 0 /\ x = f[1].qty /\ n >= f[1].qty /\ m - 0 = m /\ m = n - f[1].qty
      BY <1>1, <1>2, <1>5, <2>3
    <3>2. MatchAt(c, s, p, m, r) = TakeFront(TakeFront(f, x), m)
      BY <1>1, <1>3, <1>6, <1>7, <1>8, <3>1
    <3>3. TakeFront(f, x) = Tail(f)
      BY <1>1, <1>2, <3>1, NibbleIsTake
    <3>4. TakeFront(f, n) = TakeFront(Tail(f), m)
      BY <1>2, <3>1, TakeMore
    <3> QED
      BY <1>5, <2>1, <2>3, <3>2, <3>3, <3>4
  <2> QED
    BY <2>2, <2>3
<1>9. CASE r # q /\ r \in Tracked(b, t)
  <2>1. Queued(c, t, r) = Queued(b, t, r) - x /\ x <= Queued(b, t, r) /\ c[t][r] = b[t][r]
    BY <1>3, <1>7, <1>9
  <2>2. CASE n = x
    <3>1. ~(n > Queued(b, t, r))
      BY <1>4, <2>1, <2>2
    <3> QED
      BY <1>4, <2>1, <2>2, <3>1
  <2>3. CASE n # x
    <3>1. /\ m > Queued(c, t, r) <=> n > Queued(b, t, r)
          /\ m - Queued(c, t, r) = n - Queued(b, t, r)
      BY <1>1, <1>4, <1>5, <2>1
    <3> QED
      BY <1>4, <1>5, <1>6, <2>1, <2>3, <3>1
  <2> QED
    BY <2>2, <2>3
<1>10. CASE r # q /\ r \notin Tracked(b, t)
  <2>1. b[t][r] = <<>> /\ c[t][r] = <<>>
    BY <1>3, <1>10 DEF Tracked
  <2>2. \A k \in Nat : TakeFront(<<>>, k) = <<>>
    BY EmptyTaken
  <2>3. /\ n > Queued(b, t, r) => n - Queued(b, t, r) \in Nat
        /\ m > Queued(c, t, r) => m - Queued(c, t, r) \in Nat
    BY <1>4, <1>6
  <2>4. MatchAt(b, s, p, n, r) = <<>> /\ MatchAt(c, s, p, m, r) = <<>>
    BY <1>4, <1>6, <2>1, <2>2, <2>3
  <2> QED
    BY <1>5, <2>1, <2>4
<1> QED
  BY <1>8, <1>9, <1>10

(* The first fill does not change what the insertion comes to.             *)
LEMMA BittenMatched ==
  ASSUME NEW Ids, NEW b, BookOK(b, Ids), NEW s \in Side, NEW p \in Price, NEW n \in Nat,
         NEW q, NEW x, BitesBest(b, s, p, n, q, x),
         NEW c, c = Bitten(b, Opposite(s), q, x)
  PROVE  Matched(b, s, p, n) = IF n = x THEN c ELSE Matched(c, s, p, n - x)
<1>1. PICK t \in Side : t = Opposite(s) /\ t # s /\ \A u \in Side : u = s \/ u = t
  BY DEF Opposite, Side
<1>2. q \in Price /\ x \in Nat
  BY DEF BitesBest
<1>3. BookOK(c, Ids)
  BY <1>1, <1>2, BittenBook
<1>4. b \in [Side -> [Price -> Seq(Entries(Ids))]] /\ c \in [Side -> [Price -> Seq(Entries(Ids))]]
  BY <1>3 DEF BookOK
<1>5. c[s] = b[s]
  BY <1>1, <1>2, <1>4 DEF Bitten
<1>6. PICK g : g = [r \in Price |-> MatchAt(b, s, p, n, r)]
  OBVIOUS
<1>7. PICK h : h = [r \in Price |-> MatchAt(c, s, p, n - x, r)]
  OBVIOUS
<1>8. \A r \in Price : MatchAt(b, s, p, n, r) = IF n = x THEN c[t][r] ELSE MatchAt(c, s, p, n - x, r)
  BY <1>1, BittenMatch
<1>9. Matched(b, s, p, n) = [b EXCEPT ![t] = g] /\ Matched(c, s, p, n - x) = [c EXCEPT ![t] = h]
  BY <1>1, <1>6, <1>7 DEF Matched
<1>10. CASE n = x
  <2>1. g = c[t]
    BY <1>1, <1>4, <1>6, <1>8, <1>10
  <2>2. [b EXCEPT ![t] = g] = c
    BY <1>1, <1>4, <1>5, <2>1
  <2> QED
    BY <1>9, <1>10, <2>2
<1>11. CASE n # x
  <2>1. g = h
    BY <1>6, <1>7, <1>8, <1>11
  <2>2. [b EXCEPT ![t] = g] = [c EXCEPT ![t] = g]
    BY <1>1, <1>4, <1>5
  <2> QED
    BY <1>9, <1>11, <2>1, <2>2
<1> QED
  BY <1>10, <1>11

LEMMA CanInsert ==
  ASSUME NEW Ids, NEW b, BookOK(b, Ids), NEW id, ~Holds(b, id), NEW p \in Price, NEW n \in Nat
  PROVE  Insertable(b, id, p, n) <=> n # 0
<1>1. ~\E o \in Resting(b) : o.id = id
  BY RestingIds
<1> QED
  BY <1>1 DEF Insertable

LEMMA BittenInsert ==
  ASSUME NEW Ids, NEW b, BookOK(b, Ids), NEW s \in Side, NEW p \in Price, NEW n \in Nat,
         NEW q, NEW x, BitesBest(b, s, p, n, q, x), NEW id \in Ids, ~Holds(b, id),
         NEW c, c = Bitten(b, Opposite(s), q, x)
  PROVE  InsertOrder(b, id, s, p, n) = InsertOrder(c, id, s, p, n - x)
<1>1. q \in Price /\ x \in Nat \ {0} /\ x <= n /\ Opposite(s) \in Side
  BY DEF BitesBest, Opposite, Side
<1>2. BookOK(c, Ids) /\ ~Holds(c, id)
  BY <1>1, BittenBook
<1>3. PICK m \in Nat : m = n - x
  BY <1>1
<1>4. PICK av \in Nat, aw \in Nat : av = Available(b, s, p) /\ aw = Available(c, s, p)
  <2>1. Available(b, s, p) \in Nat
    BY MatchSums
  <2>2. Available(c, s, p) \in Nat
    BY <1>2, MatchSums
  <2> QED
    BY <2>1, <2>2
<1>5. aw = av - x /\ x <= av
  BY <1>1, <1>4, BittenLevels
<1>6. Insertable(b, id, p, n) /\ (Insertable(c, id, p, m) <=> m # 0)
  BY <1>1, <1>2, CanInsert
<1>7. Matched(b, s, p, n) = IF n = x THEN c ELSE Matched(c, s, p, m)
  BY <1>3, BittenMatched
<1>8. InsertOrder(b, id, s, p, n) =
        IF av < n THEN [Matched(b, s, p, n) EXCEPT ![s][p] = Append(@, [id |-> id, qty |-> n - av])]
        ELSE Matched(b, s, p, n)
  BY <1>4, <1>6, InsertBook
<1>9. CASE n = x
  <2>1. InsertOrder(b, id, s, p, n) = c
    BY <1>5, <1>7, <1>8, <1>9
  <2>2. ~Insertable(c, id, p, m)
    BY <1>1, <1>3, <1>6, <1>9
  <2>3. InsertOrder(c, id, s, p, m) = c
    BY <2>2 DEF InsertOrder
  <2> QED
    BY <1>3, <2>1, <2>3
<1>10. CASE n # x
  <2>1. Insertable(c, id, p, m)
    BY <1>1, <1>3, <1>6, <1>10
  <2>2. InsertOrder(c, id, s, p, m) =
          IF aw < m THEN [Matched(c, s, p, m) EXCEPT ![s][p] = Append(@, [id |-> id, qty |-> m - aw])]
          ELSE Matched(c, s, p, m)
    BY <1>2, <1>4, <2>1, InsertBook
  <2>3. (aw < m <=> av < n) /\ m - aw = n - av
    BY <1>1, <1>3, <1>5
  <2> QED
    BY <1>3, <1>7, <1>8, <1>10, <2>2, <2>3
<1> QED
  BY <1>9, <1>10

(* The orders other than the one that is hit rest as they did.             *)
LEMMA BittenResting ==
  ASSUME NEW Ids, NEW b, BookOK(b, Ids), NEW t \in Side, NEW q \in Tracked(b, t), NEW x \in Nat \ {0},
         x <= b[t][q][1].qty, NEW c, c = Bitten(b, t, q, x),
         NEW hit, hit = [id |-> b[t][q][1].id, qty |-> b[t][q][1].qty, side |-> t, price |-> q]
  PROVE  /\ hit \in Resting(b)
         /\ \A o \in Resting(b) : o # hit => o \in Resting(c)
         /\ \A o \in Resting(c) : o.id # hit.id => o \in Resting(b)
         /\ GetOrderQty(c, hit.id) = hit.qty - x
         /\ x = hit.qty => ~Holds(c, hit.id)
<1>1. q \in Price /\ b[t][q] # <<>>
  BY DEF Tracked
<1>2. PICK f \in Seq(Entries(Ids)) : f = b[t][q] /\ f # <<>> /\ 1 \in 1 .. Len(f) /\ Len(f) \in Nat
  BY <1>1 DEF BookOK
<1>3. f[1].qty \in Nat \ {0} /\ hit.id = f[1].id /\ hit.qty = f[1].qty
  BY <1>2, FifoShares
<1>4. BookOK(c, Ids)
  BY <1>1, BittenBook
<1>5. PICK g \in Seq(Entries(Ids)) : g = c[t][q] /\ g = TakeFront(f, x)
  <2>1. b \in [Side -> [Price -> Seq(Entries(Ids))]] /\ c \in [Side -> [Price -> Seq(Entries(Ids))]]
    BY <1>4 DEF BookOK
  <2> QED
    BY <1>1, <1>2, <2>1 DEF Bitten
<1>6. \A u \in Side, r \in Price : u # t \/ r # q => c[u][r] = b[u][r]
  <2>1. b \in [Side -> [Price -> Seq(Entries(Ids))]]
    BY DEF BookOK
  <2> QED
    BY <1>1, <2>1 DEF Bitten
<1>7. g = IF x = f[1].qty THEN Tail(f) ELSE [f EXCEPT ![1].qty = f[1].qty - x]
  BY <1>2, <1>5, NibbleIsTake
<1>8. EntriesRest(b) /\ EntriesRest(c) /\ \A o \in Resting(b) : RestsIn(b, o)
  BY <1>4, RestingEntries
<1>8a. \A o \in Resting(c) : RestsIn(c, o)
  BY <1>4, RestingEntries
<1>9. hit \in Resting(b)
  BY <1>1, <1>2, <1>8 DEF EntriesRest
<1>10. IdsUnique(b)
  BY DEF BookOK
<1>11. \A i \in 2 .. Len(f) : \E j \in 1 .. Len(g) : g[j] = f[i]
  <2>1. CASE x = f[1].qty
    <3>1. Len(g) = Len(f) - 1 /\ \A i \in 1 .. Len(f) - 1 : g[i] = f[i + 1]
      BY <1>2, <1>7, <2>1, TailFacts
    <3>2. \A i \in 2 .. Len(f) : i - 1 \in 1 .. Len(g) /\ g[i - 1] = f[i]
      BY <1>2, <3>1
    <3> QED
      BY <3>2
  <2>2. CASE x # f[1].qty
    <3>1. Len(g) = Len(f) /\ \A i \in 2 .. Len(f) : g[i] = f[i] /\ i \in 1 .. Len(g)
      BY <1>2, <1>7, <2>2
    <3> QED
      BY <3>1
  <2> QED
    BY <2>1, <2>2
<1>12. \A j \in 1 .. Len(g) : g[j].id # hit.id => \E i \in 1 .. Len(f) : f[i] = g[j]
  <2>1. CASE x = f[1].qty
    <3>1. Len(g) = Len(f) - 1 /\ \A i \in 1 .. Len(f) - 1 : g[i] = f[i + 1]
      BY <1>2, <1>7, <2>1, TailFacts
    <3>2. \A j \in 1 .. Len(g) : j + 1 \in 1 .. Len(f) /\ f[j + 1] = g[j]
      BY <1>2, <3>1
    <3> QED
      BY <3>2
  <2>2. CASE x # f[1].qty
    <3>0. PICK v : v = f[1].qty - x
      OBVIOUS
    <3>1. g = [f EXCEPT ![1].qty = v]
      BY <1>7, <2>2, <3>0
    <3>2. f[1] = [id |-> f[1].id, qty |-> f[1].qty]
      BY <1>2, FifoEntries
    <3>3. g[1].id = f[1].id
      <4>1. PICK y, z : f[1] = [id |-> y, qty |-> z]
        BY <3>2
      <4>2. g[1] = [f[1] EXCEPT !.qty = v]
        BY <1>2, <3>1
      <4> QED
        BY <4>1, <4>2
    <3>4. Len(g) = Len(f) /\ \A j \in 1 .. Len(f) : j # 1 => g[j] = f[j]
      BY <1>2, <3>1
    <3> QED
      BY <1>3, <3>3, <3>4
  <2> QED
    BY <2>1, <2>2
<1>13. ASSUME NEW o \in Resting(b), o # hit PROVE o \in Resting(c)
  <2>1. PICK u \in Side, r \in Price : \E i \in 1 .. Len(b[u][r]) :
          o = [id |-> b[u][r][i].id, qty |-> b[u][r][i].qty, side |-> u, price |-> r]
    BY <1>8 DEF RestsIn
  <2>2. PICK i \in 1 .. Len(b[u][r]) :
          o = [id |-> b[u][r][i].id, qty |-> b[u][r][i].qty, side |-> u, price |-> r]
    BY <2>1
  <2>3. PICK j \in 1 .. Len(c[u][r]) : c[u][r][j] = b[u][r][i]
    <3>1. CASE u # t \/ r # q
      BY <1>6, <3>1
    <3>2. CASE u = t /\ r = q
      <4>1. i # 1
        BY <1>13, <2>2, <3>2
      <4>2. i \in 2 .. Len(f)
        BY <1>2, <3>2, <4>1
      <4> QED
        BY <1>2, <1>5, <1>11, <3>2, <4>2
    <3> QED
      BY <3>1, <3>2
  <2>4. [id |-> c[u][r][j].id, qty |-> c[u][r][j].qty, side |-> u, price |-> r] \in Resting(c)
    BY <1>8 DEF EntriesRest
  <2> QED
    BY <2>2, <2>3, <2>4
<1>14. ASSUME NEW o \in Resting(c), o.id # hit.id PROVE o \in Resting(b)
  <2>1. PICK u \in Side, r \in Price : \E j \in 1 .. Len(c[u][r]) :
          o = [id |-> c[u][r][j].id, qty |-> c[u][r][j].qty, side |-> u, price |-> r]
    BY <1>8a DEF RestsIn
  <2>2. PICK j \in 1 .. Len(c[u][r]) :
          o = [id |-> c[u][r][j].id, qty |-> c[u][r][j].qty, side |-> u, price |-> r]
    BY <2>1
  <2>3. PICK i \in 1 .. Len(b[u][r]) : c[u][r][j] = b[u][r][i]
    <3>1. CASE u # t \/ r # q
      BY <1>6, <3>1
    <3>2. CASE u = t /\ r = q
      BY <1>2, <1>5, <1>12, <1>14, <2>2, <3>2
    <3> QED
      BY <3>1, <3>2
  <2>4. [id |-> b[u][r][i].id, qty |-> b[u][r][i].qty, side |-> u, price |-> r] \in Resting(b)
    BY <1>8 DEF EntriesRest
  <2> QED
    BY <2>2, <2>3, <2>4
<1>15. x = hit.qty => ~Holds(c, hit.id)
  <2> SUFFICES ASSUME x = hit.qty, Holds(c, hit.id) PROVE FALSE
    OBVIOUS
  <2>1. PICK u \in Side, r \in Price : \E j \in 1 .. Len(c[u][r]) : c[u][r][j].id = hit.id
    BY DEF Holds
  <2>2. PICK j \in 1 .. Len(c[u][r]) : c[u][r][j].id = hit.id
    BY <2>1
  <2>3. CASE u # t \/ r # q
    <3>1. j \in 1 .. Len(b[u][r]) /\ b[u][r][j].id = b[t][q][1].id
      BY <1>2, <1>3, <1>6, <2>2, <2>3
    <3> QED
      BY <1>1, <1>2, <1>10, <2>3, <3>1 DEF IdsUnique
  <2>4. CASE u = t /\ r = q
    <3>1. Len(g) = Len(f) - 1 /\ \A i \in 1 .. Len(f) - 1 : g[i] = f[i + 1]
      BY <1>2, <1>3, <1>7, TailFacts
    <3>2. j + 1 \in 1 .. Len(f) /\ f[j + 1].id = f[1].id /\ j + 1 # 1
      <4>1. j \in 1 .. Len(g) /\ g[j].id = f[1].id
        BY <1>3, <1>5, <2>2, <2>4
      <4>2. PICK l \in Nat : l = Len(f) /\ j \in 1 .. l - 1
        BY <1>2, <3>1, <4>1
      <4>3. g[j] = f[j + 1] /\ j + 1 \in 1 .. l /\ j + 1 # 1
        BY <3>1, <4>2
      <4> QED
        BY <4>1, <4>2, <4>3
    <3> QED
      BY <1>1, <1>2, <1>10, <3>2 DEF IdsUnique
  <2> QED
    BY <2>3, <2>4
<1>16. GetOrderQty(c, hit.id) = hit.qty - x
  <2>1. CASE x = hit.qty
    <3>1. GetOrderQty(c, hit.id) = 0
      BY <1>4, <1>15, <2>1, OrderQty
    <3> QED
      BY <1>3, <2>1, <3>1
  <2>2. CASE x # hit.qty
    <3>0. PICK v : v = f[1].qty - x
      OBVIOUS
    <3>1. g = [f EXCEPT ![1].qty = v]
      BY <1>3, <1>7, <2>2, <3>0
    <3>2. f[1] = [id |-> f[1].id, qty |-> f[1].qty]
      BY <1>2, FifoEntries
    <3>3. g[1].id = f[1].id /\ g[1].qty = v
      <4>1. PICK y, z : f[1] = [id |-> y, qty |-> z]
        BY <3>2
      <4>2. g[1] = [f[1] EXCEPT !.qty = v]
        BY <1>2, <3>1
      <4> QED
        BY <4>1, <4>2
    <3>4. 1 \in 1 .. Len(c[t][q]) /\ c[t][q][1].id = hit.id
      BY <1>2, <1>3, <1>5, <3>1, <3>3
    <3>5. GetOrderQty(c, hit.id) = c[t][q][1].qty
      BY ONLY <1>1, <1>4, t \in Side, <3>4, EntryQty
    <3> QED
      BY <1>3, <1>5, <3>0, <3>3, <3>5
  <2> QED
    BY <2>1, <2>2
<1> QED
  BY <1>9, <1>13, <1>14, <1>15, <1>16

(* The first fill is one of those that the insertion reports, and the rest *)
(* of the order's fills are the others.                                    *)
LEMMA BittenFills ==
  ASSUME NEW Ids, NEW b, BookOK(b, Ids), NEW s \in Side, NEW p \in Price, NEW n \in Nat,
         NEW q, NEW x, BitesBest(b, s, p, n, q, x), NEW id \in Ids, ~Holds(b, id),
         NEW c, c = Bitten(b, Opposite(s), q, x)
  PROVE  Fills(b, id, s, p, n) =
           {[maker_id |-> b[Opposite(s)][q][1].id, price |-> q, qty |-> x]}
             \cup Fills(c, id, s, p, n - x)
<1>1. PICK t \in Side : t = Opposite(s)
  BY DEF Opposite, Side
<1>2. /\ q \in Tracked(b, t) /\ x \in Nat \ {0} /\ x <= n /\ x <= b[t][q][1].qty /\ q \in Price
      /\ x = n \/ x = b[t][q][1].qty
  BY <1>1 DEF BitesBest, IsBest
<1>3. PICK hit : hit = [id |-> b[t][q][1].id, qty |-> b[t][q][1].qty, side |-> t, price |-> q]
  OBVIOUS
<1>4. /\ hit \in Resting(b)
      /\ \A o \in Resting(b) : o # hit => o \in Resting(c)
      /\ \A o \in Resting(c) : o.id # hit.id => o \in Resting(b)
      /\ GetOrderQty(c, hit.id) = hit.qty - x
      /\ x = hit.qty => ~Holds(c, hit.id)
  BY <1>1, <1>2, <1>3, BittenResting
<1>5. BookOK(c, Ids) /\ ~Holds(c, id)
  BY <1>1, <1>2, BittenBook
<1>6. PICK a : a = InsertOrder(b, id, s, p, n) /\ a = InsertOrder(c, id, s, p, n - x)
  BY BittenInsert
<1>7. PICK m \in Nat : m = n - x
  BY <1>2
<1>8. \A o \in Resting(b) : o.id = hit.id => o = hit
  BY <1>4, UniqueResting
<1>9. hit.qty \in Nat \ {0} /\ hit.qty = b[t][q][1].qty
  BY <1>3, <1>4, RestingLevel
<1>10. GetOrderQty(a, hit.id) = hit.qty - x
  <2>1. Insertable(b, id, p, n)
    BY <1>2, CanInsert
  <2>2. GetOrderQty(a, hit.id) = GetOrderQty(Matched(b, s, p, n), hit.id)
    <3>1. GetOrderQty(InsertOrder(b, id, s, p, n), hit.id) = GetOrderQty(Matched(b, s, p, n), hit.id)
      <4>1. hit \in Resting(b)
        BY <1>4
      <4> QED
        BY <2>1, <4>1, InsertedQty
    <3> QED
      BY <1>6, <3>1
  <2>3. Matched(b, s, p, n) = IF n = x THEN c ELSE Matched(c, s, p, m)
    BY <1>7, BittenMatched
  <2>4. CASE n = x
    BY <1>4, <2>2, <2>3, <2>4
  <2>5. CASE n # x
    <3>1. x = hit.qty
      BY <1>2, <1>9, <2>5
    <3>2. ~Holds(c, hit.id)
      BY <1>4, <3>1
    <3>3. BookOK(Matched(c, s, p, m), Ids) /\ (Holds(Matched(c, s, p, m), hit.id) => Holds(c, hit.id))
      BY <1>5, MatchedBook
    <3>4. GetOrderQty(Matched(c, s, p, m), hit.id) = 0
      BY <3>2, <3>3, OrderQty
    <3>5. hit.qty - x = 0
      BY <1>9, <3>1
    <3> QED
      BY <2>2, <2>3, <2>5, <3>4, <3>5
  <2> QED
    BY <2>4, <2>5
<1> DEFINE Trades(r) ==
      {[maker_id |-> o.id, price |-> o.price, qty |-> o.qty - GetOrderQty(a, o.id)] :
         o \in {o \in r : GetOrderQty(a, o.id) # o.qty}}
<1>11. Fills(b, id, s, p, n) = Trades(Resting(b)) /\ Fills(c, id, s, p, m) = Trades(Resting(c))
  BY <1>6, <1>7 DEF Fills
<1>12. PICK fill : fill = [maker_id |-> b[t][q][1].id, price |-> q, qty |-> x]
  OBVIOUS
<1>13. /\ fill = [maker_id |-> hit.id, price |-> hit.price, qty |-> hit.qty - GetOrderQty(a, hit.id)]
       /\ GetOrderQty(a, hit.id) # hit.qty
  <2>1. hit.qty - (hit.qty - x) = x /\ hit.qty - x # hit.qty
    BY <1>2, <1>9
  <2>2. hit.id = b[t][q][1].id /\ hit.price = q
    BY <1>3
  <2> QED
    BY <1>10, <1>12, <2>1, <2>2
<1>14. \A o \in Resting(c) : o.id = hit.id => GetOrderQty(a, o.id) = o.qty
  <2> SUFFICES ASSUME NEW o \in Resting(c), o.id = hit.id
               PROVE  GetOrderQty(a, o.id) = o.qty
    OBVIOUS
  <2>1. GetOrderQty(c, o.id) = o.qty
    BY <1>5, RestingLevel
  <2> QED
    BY <1>4, <1>10, <2>1
<1>15. Trades(Resting(b)) = {fill} \cup Trades(Resting(c))
  <2>1. ASSUME NEW f \in Trades(Resting(b)) PROVE f \in {fill} \cup Trades(Resting(c))
    <3>1. PICK o \in Resting(b) :
            /\ GetOrderQty(a, o.id) # o.qty
            /\ f = [maker_id |-> o.id, price |-> o.price, qty |-> o.qty - GetOrderQty(a, o.id)]
      OBVIOUS
    <3>2. CASE o = hit
      BY <1>13, <3>1, <3>2
    <3>3. CASE o # hit
      BY <1>4, <3>1, <3>3
    <3> QED
      BY <3>2, <3>3
  <2>2. fill \in Trades(Resting(b))
    BY <1>4, <1>13
  <2>3. ASSUME NEW f \in Trades(Resting(c)) PROVE f \in Trades(Resting(b))
    <3>1. PICK o \in Resting(c) :
            /\ GetOrderQty(a, o.id) # o.qty
            /\ f = [maker_id |-> o.id, price |-> o.price, qty |-> o.qty - GetOrderQty(a, o.id)]
      OBVIOUS
    <3>2. o.id # hit.id
      BY <1>14, <3>1
    <3> QED
      BY <1>4, <3>1, <3>2
  <2> QED
    BY <2>1, <2>2, <2>3
<1> HIDE DEF Trades
<1> QED
  BY <1>1, <1>7, <1>11, <1>12, <1>15

(* There is one way to list the tracked prices best first: rank by rank,   *)
(* as PriceAt does.  This is the order in which a side's map is iterated.  *)
BestFirst(s, keys) == \A i, j \in DOMAIN keys : i < j => Better(s, keys[i], keys[j])

LEMMA RanksSort ==
  ASSUME NEW book, NEW s \in Side, NEW f, f = [i \in 1 .. Size(book, s) |-> PriceAt(book, s, i)]
  PROVE  f \in [1 .. Size(book, s) -> Tracked(book, s)] /\ BestFirst(s, f)
<1>1. PICK l \in Nat : l = Size(book, s) /\ Tracked(book, s) \subseteq Price
  BY TrackedFinite
<1>2. \A i \in 1 .. l : f[i] \in Tracked(book, s) /\ Rank(book, s, f[i]) = i - 1
  BY <1>1, PriceAtRank
<1>3. \A q \in Tracked(book, s) :
        \A p \in Tracked(book, s) : Better(s, p, q) => Rank(book, s, p) < Rank(book, s, q)
  BY RankIsOrder
<1>4. \A p, q \in Tracked(book, s) : p = q \/ Better(s, p, q) \/ Better(s, q, p)
  BY <1>1, BookAssumption DEF Better, Price
<1>5. ASSUME NEW i \in 1 .. l, NEW j \in 1 .. l, i < j PROVE Better(s, f[i], f[j])
  <2>1. PICK p \in Tracked(book, s), q \in Tracked(book, s) :
          /\ p = f[i] /\ Rank(book, s, p) = i - 1
          /\ q = f[j] /\ Rank(book, s, q) = j - 1
    BY <1>2
  <2>2. p # q
    BY <1>5, <2>1
  <2>3. ~Better(s, q, p)
    BY <1>3, <1>5, <2>1
  <2> QED
    BY <1>4, <2>1, <2>2, <2>3
<1> QED
  BY <1>1, <1>2, <1>5 DEF BestFirst

LEMMA SortingRanks ==
  ASSUME NEW book, NEW s \in Side, NEW k \in [1 .. Size(book, s) -> Tracked(book, s)],
         BestFirst(s, k)
  PROVE  k = [i \in 1 .. Size(book, s) |-> PriceAt(book, s, i)]
<1>1. PICK l, T : /\ l \in Nat /\ l = Size(book, s) /\ T = Tracked(book, s)
                           /\ T \subseteq Int /\ IsFiniteSet(T) /\ Cardinality(T) = l
  BY TrackedFinite, BookAssumption DEF Size, Price
<1>2. k \in [1 .. l -> T] /\ \A i, j \in 1 .. l : i < j => Better(s, k[i], k[j])
  BY <1>1 DEF BestFirst
<1>3. /\ \A p, q \in T : ~(Better(s, p, q) /\ Better(s, q, p)) /\ ~Better(s, p, p)
      /\ \A p, q \in T : p = q \/ Better(s, p, q) \/ Better(s, q, p)
  BY <1>1 DEF Better
<1>4. \A i, j \in 1 .. l : (Better(s, k[i], k[j]) <=> i < j) /\ (k[i] = k[j] => i = j)
  <2> SUFFICES ASSUME NEW i \in 1 .. l, NEW j \in 1 .. l
               PROVE  (Better(s, k[i], k[j]) <=> i < j) /\ (k[i] = k[j] => i = j)
    OBVIOUS
  <2>1. k[i] \in T /\ k[j] \in T
    BY <1>2
  <2>2. CASE i < j
    BY <1>2, <1>3, <2>1, <2>2
  <2>3. CASE j < i
    BY <1>2, <1>3, <2>1, <2>3
  <2>4. CASE i = j
    BY <1>3, <2>1, <2>4
  <2> QED
    BY <2>2, <2>3, <2>4
<1>5. k \in Surjection(1 .. l, T)
  <2>1. k \in Injection(1 .. l, T)
    BY <1>2, <1>4 DEF Injection, IsInjective
  <2>2. IsFiniteSet(1 .. l) /\ Cardinality(1 .. l) = l
    BY <1>1, FS_Interval
  <2> QED
    BY <1>1, <2>1, <2>2, FS_Injection
<1>6. ASSUME NEW i \in 1 .. l PROVE k[i] = PriceAt(book, s, i)
  <2>1. PICK A : A = Ahead(book, s, k[i])
    OBVIOUS
  <2>2. A = {p \in T : Better(s, p, k[i])}
    BY <1>1, <2>1 DEF Ahead
  <2>3. PICK g : g = [j \in 1 .. i - 1 |-> k[j]]
    OBVIOUS
  <2>4. g \in [1 .. i - 1 -> A] /\ \A j, m \in 1 .. i - 1 : g[j] = g[m] => j = m
    <3>1. \A j \in 1 .. i - 1 : j \in 1 .. l /\ j < i
      BY <1>1
    <3>2. \A j \in 1 .. i - 1 : k[j] \in A
      BY <1>2, <1>4, <2>2, <3>1
    <3> QED
      BY <1>4, <2>3, <3>1, <3>2
  <2>5. \A p \in A : \E j \in 1 .. i - 1 : g[j] = p
    <3> SUFFICES ASSUME NEW p \in A PROVE \E j \in 1 .. i - 1 : g[j] = p
      OBVIOUS
    <3>1. PICK j \in 1 .. l : k[j] = p
      BY <1>5, <2>2 DEF Surjection
    <3>2. j < i
      BY <1>4, <2>2, <3>1
    <3> QED
      BY <2>3, <3>1, <3>2
  <2>6. ExistsBijection(1 .. i - 1, A)
    <3>1. g \in Bijection(1 .. i - 1, A)
      BY <2>4, <2>5 DEF Bijection, Injection, IsInjective, Surjection
    <3> QED
      BY <3>1 DEF ExistsBijection
  <2>7. IsFiniteSet(1 .. i - 1) /\ Cardinality(1 .. i - 1) = i - 1
    <3>1. PICK m \in Nat : m = i - 1
      OBVIOUS
    <3>2. IsFiniteSet(1 .. m) /\ Cardinality(1 .. m) = IF 1 > m THEN 0 ELSE m - 1 + 1
      BY FS_Interval
    <3> QED
      BY <3>1, <3>2
  <2>8. Cardinality(A) = i - 1
    BY <2>6, <2>7, FS_Bijection
  <2>9. k[i] \in T /\ Rank(book, s, k[i]) = i - 1
    BY <1>2, <2>1, <2>8 DEF Rank
  <2>10. PriceAt(book, s, i) \in T /\ Rank(book, s, PriceAt(book, s, i)) = i - 1
    BY <1>1, PriceAtRank
  <2>11. \A p, q \in T : Better(s, p, q) => Rank(book, s, p) < Rank(book, s, q)
    BY <1>1, RankIsOrder
  <2> QED
    BY <1>3, <2>9, <2>10, <2>11
<1> QED
  BY <1>1, <1>2, <1>6

(* A snapshot deep enough lists every tracked price once, best first, and  *)
(* the first of them is the touch.                                         *)
LEMMA DepthSorts ==
  ASSUME NEW book, NEW s \in Side, NEW n \in Nat, Size(book, s) <= n,
         NEW d, d = Depth(book, s, n)
  PROVE  /\ {d[i].price : i \in DOMAIN d} = Tracked(book, s)
         /\ \A i, j \in DOMAIN d : i < j => Better(s, d[i].price, d[j].price)
         /\ d # <<>> => d[1].price = IF s = "buy" THEN BestBid(book) ELSE BestAsk(book)
<1>1. PICK l \in Nat : l = Size(book, s) /\ Tracked(book, s) \subseteq Price
  BY TrackedFinite
<1>2. DOMAIN d = 1 .. l /\ \A i \in 1 .. l : d[i].price = PriceAt(book, s, i)
  BY <1>1 DEF Depth, LevelAt
<1>3. \A i \in 1 .. l : /\ PriceAt(book, s, i) \in Tracked(book, s)
                        /\ Rank(book, s, PriceAt(book, s, i)) = i - 1
  BY <1>1, PriceAtRank
<1>4. \A q \in Tracked(book, s) :
        /\ Rank(book, s, q) \in Nat /\ Rank(book, s, q) < l
        /\ \A p \in Tracked(book, s) : Better(s, p, q) => Rank(book, s, p) < Rank(book, s, q)
  BY <1>1, RankIsOrder
<1>5. \A p, q \in Tracked(book, s) : p = q \/ Better(s, p, q) \/ Better(s, q, p)
  BY <1>1 DEF Better, Price
<1>6. ASSUME NEW q \in Tracked(book, s) PROVE \E i \in 1 .. l : PriceAt(book, s, i) = q
  <2>1. PICK i \in 1 .. l : i = Rank(book, s, q) + 1
    BY <1>4
  <2>2. PICK p \in Tracked(book, s) : p = PriceAt(book, s, i) /\ Rank(book, s, p) = i - 1
    BY <1>3
  <2>3. Rank(book, s, p) = Rank(book, s, q) /\ Rank(book, s, q) \in Nat
    BY <1>4, <2>1, <2>2
  <2>4. ~Better(s, p, q) /\ ~Better(s, q, p)
    BY <1>4, <2>3
  <2> QED
    BY <1>5, <2>2, <2>4
<1>7. {d[i].price : i \in DOMAIN d} = Tracked(book, s)
  <2>1. \A i \in DOMAIN d : d[i].price \in Tracked(book, s)
    BY <1>2, <1>3
  <2>2. \A q \in Tracked(book, s) : \E i \in DOMAIN d : d[i].price = q
    BY <1>2, <1>6
  <2> QED
    BY <2>1, <2>2
<1>8. \A i, j \in 1 .. l : i < j => Better(s, PriceAt(book, s, i), PriceAt(book, s, j))
  <2>1. PICK f : f = [i \in 1 .. Size(book, s) |-> PriceAt(book, s, i)]
    OBVIOUS
  <2>2. BestFirst(s, f)
    BY <2>1, RanksSort
  <2> QED
    BY <1>1, <2>1, <2>2 DEF BestFirst
<1>9. ASSUME d # <<>>
      PROVE  d[1].price = IF s = "buy" THEN BestBid(book) ELSE BestAsk(book)
  <2>1. 1 \in 1 .. l
    <3>1. l # 0
      <4> SUFFICES ASSUME l = 0 PROVE FALSE
        OBVIOUS
      <4>1. d = [i \in 1 .. 0 |-> LevelAt(book, s, i)]
        BY <1>1 DEF Depth
      <4> QED
        BY <1>9, <4>1
    <3> QED
      BY <3>1
  <2>2. PICK p \in Tracked(book, s) : p = d[1].price /\ Rank(book, s, p) = 0
    BY <1>2, <1>3, <2>1
  <2>3. \A q \in Tracked(book, s) : ~Better(s, q, p)
    BY <1>4, <2>2
  <2>4. CASE s = "buy"
    <3>1. BestBid(book) \in Tracked(book, "buy") /\ p <= BestBid(book)
      BY <2>2, <2>4, TouchFacts
    <3>2. ~(BestBid(book) > p)
      BY <2>3, <2>4, <3>1 DEF Better
    <3>3. p \in Int /\ BestBid(book) \in Int
      BY <1>1, <2>4, <3>1 DEF Price
    <3> QED
      BY <2>2, <2>4, <3>1, <3>2, <3>3
  <2>5. CASE s = "sell"
    <3>1. BestAsk(book) \in Tracked(book, "sell") /\ BestAsk(book) <= p
      BY <2>2, <2>5, TouchFacts
    <3>2. ~(BestAsk(book) < p)
      BY <2>3, <2>5, <3>1 DEF Better
    <3>3. p \in Int /\ BestAsk(book) \in Int
      BY <1>1, <2>5, <3>1 DEF Price
    <3> QED
      BY <2>2, <2>5, <3>1, <3>2, <3>3
  <2> QED
    BY <2>4, <2>5 DEF Side
<1>10. \A i, j \in DOMAIN d : i < j => Better(s, d[i].price, d[j].price)
  BY <1>2, <1>8
<1> QED
  BY <1>7, <1>9, <1>10
=============================================================================
