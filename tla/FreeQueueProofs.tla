--------------------------- MODULE FreeQueueProofs ---------------------------
(***************************************************************************)
(* Proofs about FreeKVCacheBlockQueue: for every list of blocks the links  *)
(* describe one queue, seen the same from both ends, and the operations on *)
(* them are those of FreeQueue.                                            *)
(***************************************************************************)
EXTENDS FreeKVCacheBlockQueue, FiniteSetTheorems, WellFoundedInduction, TLAPS

(* The links l are those of the list with the blocks q between the two fakes. *)
IsList(l, q) ==
    /\ q \in Seq(Item) /\ IsInjective(q)
    /\ l.next \in [Node -> Node \cup {None}] /\ l.prev \in [Node -> Node \cup {None}]
    /\ \A i \in 0 .. Len(q) :
          /\ l.next[Row(Head0, q, Tail0)[i]] = Row(Head0, q, Tail0)[i + 1]
          /\ l.prev[Row(Head0, q, Tail0)[i + 1]] = Row(Head0, q, Tail0)[i]
    /\ l.next[Tail0] = None /\ l.prev[Head0] = None
    /\ \A b \in Item : b \notin ToSet(q) => l.next[b] = None /\ l.prev[b] = None

(* The inductive invariant: there is such a queue, and num is its length. *)
ListInv == \E q \in Seq(Item) : IsList(Links, q) /\ num = Len(q)

-----------------------------------------------------------------------------
(* The nodes *)

LEMMA NodesDistinct ==
    /\ Head0 # Tail0 /\ Head0 # None /\ Tail0 # None
    /\ Head0 \notin Item /\ Tail0 \notin Item /\ None \notin Item
    /\ None \notin Node /\ Head0 \in Node /\ Tail0 \in Node /\ Item \subseteq Node
<1>1. Head0 # Tail0 /\ Head0 # None /\ Tail0 # None
  <2>1. ASSUME Head0 = Tail0 \/ Head0 = None \/ Tail0 = None PROVE FALSE
    <3>1. PICK u, v : {Head0, Tail0, None} = {u} \cup {v}
      <4>1. CASE Head0 = Tail0 BY <4>1
      <4>2. CASE Head0 = None BY <4>2
      <4>3. CASE Tail0 = None BY <4>3
      <4> QED BY <2>1, <4>1, <4>2, <4>3
    <3>2. IsFiniteSet({u}) /\ Cardinality({u}) = 1
      BY FS_Singleton
    <3>3. Cardinality({u} \cup {v}) = IF v \in {u} THEN 1 ELSE 2
      BY <3>2, FS_AddElement
    <3> QED BY <3>1, <3>3, NodeAssumption
  <2> QED BY <2>1
<1> QED BY <1>1, NodeAssumption DEF Node

(* Order lists every block once, so there are Len(Order) blocks, and a list of
   distinct blocks is not longer. *)
LEMMA BlocksFinite ==
    /\ IsFiniteSet(Item) /\ Cardinality(Item) = Len(Order) /\ Len(Order) \in Nat
    /\ Order \in [1 .. Len(Order) -> Item]
    /\ \A q \in Seq(Item) : IsInjective(q) => Len(q) <= Len(Order)
<1>1. Len(Order) \in Nat /\ Order \in [1 .. Len(Order) -> Item]
  BY OrderAssumption
<1>2. IsFiniteSet(1 .. Len(Order)) /\ Cardinality(1 .. Len(Order)) = Len(Order)
  <2>1. PICK n \in Nat : n = Len(Order)
    BY <1>1
  <2>2. IsFiniteSet(1 .. n) /\ Cardinality(1 .. n) = IF 1 > n THEN 0 ELSE n - 1 + 1
    BY FS_Interval
  <2>3. IsFiniteSet(1 .. n) /\ Cardinality(1 .. n) = n
    BY <2>2
  <2> QED BY <2>1, <2>3, Zenon
<1>3. IsFiniteSet(Item) /\ Cardinality(Item) = Len(Order)
  <2>1. Order \in Bijection(1 .. Len(Order), Item)
    BY <1>1, OrderAssumption DEF Bijection, Injection, Surjection, IsInjective, Item, ToSet
  <2>2. ExistsBijection(1 .. Len(Order), Item)
    BY <2>1 DEF ExistsBijection
  <2> QED BY <1>2, <2>2, FS_Bijection
<1>4. ASSUME NEW q \in Seq(Item), IsInjective(q) PROVE Len(q) <= Len(Order)
  <2>1. q \in Injection(1 .. Len(q), Item)
    BY <1>4 DEF Injection, IsInjective
  <2>2. Cardinality(1 .. Len(q)) <= Cardinality(Item)
    BY <1>3, <2>1, FS_Injection
  <2>3. Cardinality(1 .. Len(q)) = Len(q)
    <3>1. PICK n \in Nat : n = Len(q)
      OBVIOUS
    <3>2. Cardinality(1 .. n) = IF 1 > n THEN 0 ELSE n - 1 + 1
      BY FS_Interval
    <3>3. Cardinality(1 .. n) = n
      BY <3>2
    <3> QED BY <3>1, <3>3
  <2> QED BY <1>3, <2>2, <2>3
<1> QED BY <1>1, <1>3, <1>4

-----------------------------------------------------------------------------
(* Rows of nodes *)

(* A row of distinct nodes, place by place. *)
LEMMA RowPlaces ==
    ASSUME NEW x \in Node, NEW y \in Node, NEW s \in Seq(Item)
    PROVE  /\ Len(s) \in Nat
           /\ Row(x, s, y) \in [0 .. Len(s) + 1 -> Node]
           /\ Row(x, s, y)[0] = x /\ Row(x, s, y)[Len(s) + 1] = y
           /\ \A i \in 1 .. Len(s) : Row(x, s, y)[i] = s[i] /\ s[i] \in Item
<1>1. Len(s) \in Nat /\ \A i \in 1 .. Len(s) : s[i] \in Item
  OBVIOUS
<1> QED BY <1>1, NodesDistinct DEF Row

LEMMA RowDistinct ==
    ASSUME NEW x \in Node, NEW y \in Node, NEW s \in Seq(Item), IsInjective(s),
           x # y, x \notin ToSet(s), y \notin ToSet(s)
    PROVE  \A i, j \in 0 .. Len(s) + 1 : Row(x, s, y)[i] = Row(x, s, y)[j] => i = j
<1> DEFINE R == Row(x, s, y)
<1>1. /\ Len(s) \in Nat /\ R[0] = x /\ R[Len(s) + 1] = y
      /\ \A i \in 1 .. Len(s) : R[i] = s[i]
  BY RowPlaces
<1>2. \A i \in 1 .. Len(s) : s[i] \in ToSet(s)
  BY DEF ToSet
<1>3. \A i, j \in 1 .. Len(s) : s[i] = s[j] => i = j
  BY DEF IsInjective
<1> HIDE DEF R
<1>4. \A i \in 0 .. Len(s) + 1 : i = 0 \/ i = Len(s) + 1 \/ i \in 1 .. Len(s)
  BY <1>1
<1>5. \A i \in 1 .. Len(s) : R[i] # x /\ R[i] # y
  BY <1>1, <1>2
<1>6. SUFFICES ASSUME NEW i \in 0 .. Len(s) + 1, NEW j \in 0 .. Len(s) + 1, R[i] = R[j]
               PROVE  i = j
  BY DEF R
<1>7. CASE i \in 1 .. Len(s) /\ j \in 1 .. Len(s)
  BY <1>1, <1>3, <1>6, <1>7
<1> QED BY <1>1, <1>4, <1>5, <1>6, <1>7

(* Splicing a row links its nodes and leaves the others alone. *)
LEMMA SpliceLinks ==
    ASSUME NEW l, l.next \in [Node -> Node \cup {None}], l.prev \in [Node -> Node \cup {None}],
           NEW x \in Node, NEW y \in Node, NEW s \in Seq(Item), IsInjective(s),
           x # y, x \notin ToSet(s), y \notin ToSet(s)
    PROVE  LET c == Splice(l, x, s, y)
               R == Row(x, s, y)
           IN  /\ c.next \in [Node -> Node \cup {None}] /\ c.prev \in [Node -> Node \cup {None}]
               /\ \A i \in 0 .. Len(s) : c.next[R[i]] = R[i + 1] /\ c.prev[R[i + 1]] = R[i]
               /\ \A n \in Node : n # x /\ n \notin ToSet(s) => c.next[n] = l.next[n]
               /\ \A n \in Node : n # y /\ n \notin ToSet(s) => c.prev[n] = l.prev[n]
<1> DEFINE c == Splice(l, x, s, y)
           R == Row(x, s, y)
           F(n) == CHOOSE i \in 0 .. Len(s) : R[i] = n
           B(n) == CHOOSE i \in 1 .. Len(s) + 1 : R[i] = n
<1>1. /\ Len(s) \in Nat /\ R \in [0 .. Len(s) + 1 -> Node] /\ R[0] = x /\ R[Len(s) + 1] = y
      /\ \A i \in 1 .. Len(s) : R[i] = s[i]
  <2> HIDE DEF c, F, B
  <2>1. R \in [0 .. Len(s) + 1 -> Node]
    BY RowPlaces
  <2>2. R[0] = x /\ R[Len(s) + 1] = y
    BY RowPlaces
  <2>3. \A i \in 1 .. Len(s) : R[i] = s[i]
    BY RowPlaces
  <2> QED BY <2>1, <2>2, <2>3
<1>2. \A i, j \in 0 .. Len(s) + 1 : R[i] = R[j] => i = j
  BY RowDistinct
<1>3. /\ c.next = [n \in Node |-> IF \E i \in 0 .. Len(s) : R[i] = n THEN R[F(n) + 1] ELSE l.next[n]]
      /\ c.prev = [n \in Node |-> IF \E i \in 1 .. Len(s) + 1 : R[i] = n THEN R[B(n) - 1] ELSE l.prev[n]]
  BY DEF Splice
<1> HIDE DEF c, R
<1>4. \A n : (\E i \in 0 .. Len(s) : R[i] = n) => F(n) \in 0 .. Len(s) /\ R[F(n)] = n
  OBVIOUS
<1>5. \A n : (\E i \in 1 .. Len(s) + 1 : R[i] = n) => B(n) \in 1 .. Len(s) + 1 /\ R[B(n)] = n
  OBVIOUS
<1> HIDE DEF F, B
<1>6. \A i \in 0 .. Len(s) : F(R[i]) = i
  <2> SUFFICES ASSUME NEW i \in 0 .. Len(s) PROVE F(R[i]) = i
    OBVIOUS
  <2>1. F(R[i]) \in 0 .. Len(s) /\ R[F(R[i])] = R[i]
    BY <1>4
  <2> QED BY <1>1, <1>2, <2>1
<1>7. \A i \in 0 .. Len(s) : B(R[i + 1]) = i + 1
  <2> SUFFICES ASSUME NEW i \in 0 .. Len(s) PROVE B(R[i + 1]) = i + 1
    OBVIOUS
  <2>1. i + 1 \in 1 .. Len(s) + 1
    BY <1>1
  <2>2. B(R[i + 1]) \in 1 .. Len(s) + 1 /\ R[B(R[i + 1])] = R[i + 1]
    BY <1>5, <2>1
  <2> QED BY <1>1, <1>2, <2>1, <2>2
<1>8. c.next \in [Node -> Node \cup {None}] /\ c.prev \in [Node -> Node \cup {None}]
  <2>1. \A n \in Node : (\E i \in 0 .. Len(s) : R[i] = n) => R[F(n) + 1] \in Node
    BY <1>1, <1>4
  <2>2. \A n \in Node : (\E i \in 1 .. Len(s) + 1 : R[i] = n) => R[B(n) - 1] \in Node
    BY <1>1, <1>5
  <2> QED BY <1>3, <2>1, <2>2
<1>9. ASSUME NEW i \in 0 .. Len(s) PROVE c.next[R[i]] = R[i + 1] /\ c.prev[R[i + 1]] = R[i]
  <2>1. R[i] \in Node /\ R[i + 1] \in Node /\ i + 1 \in 1 .. Len(s) + 1 /\ (i + 1) - 1 = i
    BY <1>1
  <2>2. c.next[R[i]] = R[F(R[i]) + 1]
    BY <1>3, <2>1
  <2>3. c.prev[R[i + 1]] = R[B(R[i + 1]) - 1]
    BY <1>3, <2>1
  <2> QED BY <1>6, <1>7, <2>1, <2>2, <2>3
<1>10. ASSUME NEW n \in Node, n \notin ToSet(s)
       PROVE  (n # x => c.next[n] = l.next[n]) /\ (n # y => c.prev[n] = l.prev[n])
  <2>1. \A i \in 1 .. Len(s) : R[i] # n
    BY <1>1, <1>10 DEF ToSet
  <2>2. n # x => ~ \E i \in 0 .. Len(s) : R[i] = n
    BY <1>1, <2>1
  <2>3. n # y => ~ \E i \in 1 .. Len(s) + 1 : R[i] = n
    BY <1>1, <2>1
  <2> QED BY <1>3, <2>2, <2>3
<1> QED BY <1>8, <1>9, <1>10 DEF c, R

-----------------------------------------------------------------------------
(* Walking along the list *)

LEMMA LeastNat ==
    ASSUME NEW T \in SUBSET Nat, T # {}
    PROVE  \E x \in T : \A y \in T : x <= y
<1> DEFINE Less == OpToRel(<, Nat)
<1>1. IsWellFoundedOn(Less, Nat)
  BY NatLessThanWellFounded
<1>2. \A x, y \in Nat : <<y, x>> \in Less <=> y < x
  BY DEF OpToRel
<1> HIDE DEF Less
<1>3. PICK x \in T : \A y \in T : ~(<<y, x>> \in Less)
  BY <1>1, WFMin
<1>4. ASSUME NEW y \in T PROVE x <= y
  <2>1. x \in Nat /\ y \in Nat
    OBVIOUS
  <2>2. ~(y < x)
    BY <1>2, <1>3, <2>1
  <2> QED BY <2>1, <2>2
<1> QED BY <1>4

(* The row of a list. *)
LEMMA ListRow ==
    ASSUME NEW l, NEW q, IsList(l, q)
    PROVE  LET R == Row(Head0, q, Tail0)
           IN  /\ Len(q) \in Nat /\ Len(q) <= Len(Order) /\ Len(Order) \in Nat
               /\ R \in [0 .. Len(q) + 1 -> Node] /\ R[0] = Head0 /\ R[Len(q) + 1] = Tail0
               /\ \A i \in 1 .. Len(q) : R[i] = q[i] /\ q[i] \in Item
               /\ \A i, j \in 0 .. Len(q) + 1 : R[i] = R[j] => i = j
<1>1. q \in Seq(Item) /\ IsInjective(q)
  BY DEF IsList
<1>2. ToSet(q) \subseteq Item
  BY <1>1 DEF ToSet
<1>3. Head0 \notin ToSet(q) /\ Tail0 \notin ToSet(q)
  BY <1>2, NodesDistinct
<1>4. \A i, j \in 0 .. Len(q) + 1 : Row(Head0, q, Tail0)[i] = Row(Head0, q, Tail0)[j] => i = j
  BY <1>1, <1>3, NodesDistinct, RowDistinct
<1>5. /\ Len(q) \in Nat
      /\ Row(Head0, q, Tail0) \in [0 .. Len(q) + 1 -> Node]
      /\ Row(Head0, q, Tail0)[0] = Head0 /\ Row(Head0, q, Tail0)[Len(q) + 1] = Tail0
      /\ \A i \in 1 .. Len(q) : Row(Head0, q, Tail0)[i] = q[i] /\ q[i] \in Item
  BY <1>1, NodesDistinct, RowPlaces
<1>6. Len(q) <= Len(Order) /\ Len(Order) \in Nat
  BY <1>1, BlocksFinite
<1> QED BY <1>4, <1>5, <1>6

LEMMA WalkIsRow ==
    ASSUME NEW l, NEW q, IsList(l, q)
    PROVE  \A n \in 0 .. Len(q) + 1 : Forward(l)[n] = Row(Head0, q, Tail0)[n]
<1> DEFINE R == Row(Head0, q, Tail0)
           D == 0 .. Len(Order) + 1
           G(w) == [n \in D |-> IF n = 0 THEN Head0
                                ELSE IF w[n - 1] \in Node THEN l.next[w[n - 1]] ELSE None]
           v == [n \in D |-> IF n <= Len(q) + 1 THEN R[n] ELSE None]
           W == Forward(l)
<1>1. /\ Len(q) \in Nat /\ Len(q) <= Len(Order) /\ Len(Order) \in Nat
      /\ R \in [0 .. Len(q) + 1 -> Node] /\ R[0] = Head0 /\ R[Len(q) + 1] = Tail0
  <2> HIDE DEF v, W
  <2>1. Len(q) \in Nat /\ Len(q) <= Len(Order) /\ Len(Order) \in Nat
    BY ListRow
  <2>2. R \in [0 .. Len(q) + 1 -> Node]
    BY ListRow
  <2>3. R[0] = Head0 /\ R[Len(q) + 1] = Tail0
    BY ListRow
  <2> QED BY <2>1, <2>2, <2>3
<1>2. /\ \A i \in 0 .. Len(q) : l.next[R[i]] = R[i + 1]
      /\ l.next[Tail0] = None
  BY DEF IsList
<1> HIDE DEF R
<1>3. \E w : w = G(w)
  <2>1. ASSUME NEW n \in D
        PROVE  v[n] = IF n = 0 THEN Head0
                      ELSE IF v[n - 1] \in Node THEN l.next[v[n - 1]] ELSE None
    <3>1. CASE n = 0
      BY <1>1, <3>1
    <3>2. CASE n \in 1 .. Len(q) + 1
      <4>1. n - 1 \in 0 .. Len(q) /\ n - 1 \in D /\ (n - 1) + 1 = n
        BY <1>1, <3>2
      <4>2. v[n - 1] = R[n - 1] /\ v[n] = R[n] /\ R[n - 1] \in Node
        BY <1>1, <3>2, <4>1
      <4>3. l.next[R[n - 1]] = R[n]
        BY <1>2, <4>1
      <4> QED BY <1>1, <3>2, <4>2, <4>3
    <3>3. CASE n = Len(q) + 2
      <4>1. v[n - 1] = Tail0 /\ v[n] = None
        BY <1>1, <3>3
      <4> QED BY <1>1, <1>2, <3>3, <4>1, NodesDistinct
    <3>4. CASE n > Len(q) + 2
      <4>1. v[n - 1] = None /\ v[n] = None
        BY <1>1, <3>4
      <4> QED BY <1>1, <3>4, <4>1, NodesDistinct
    <3> QED BY <1>1, <3>1, <3>2, <3>3, <3>4
  <2>2. v = G(v)
    BY <2>1
  <2> HIDE DEF v, G
  <2> QED BY <2>2
<1>4. W = CHOOSE w : w = G(w)
  BY DEF Forward
<1>5. W = G(W)
  <2> HIDE DEF W, G
  <2> QED BY <1>3, <1>4
<1> HIDE DEF W
<1>6. W[0] = Head0 /\ \A n \in D : n > 0 /\ W[n - 1] \in Node => W[n] = l.next[W[n - 1]]
  <2>1. \A n \in D : W[n] = IF n = 0 THEN Head0
                            ELSE IF W[n - 1] \in Node THEN l.next[W[n - 1]] ELSE None
    BY <1>5
  <2> QED BY <1>1, <2>1
<1> HIDE DEF G
<1> DEFINE T == {n \in 0 .. Len(q) + 1 : W[n] # R[n]}
<1>7. ASSUME T # {} PROVE FALSE
  <2>1. T \in SUBSET Nat
    BY <1>1
  <2>2. PICK n \in T : \A m \in T : n <= m
    BY <1>7, <2>1, LeastNat
  <2>3. n \in 0 .. Len(q) + 1 /\ W[n] # R[n] /\ n # 0
    BY <1>1, <1>6
  <2>4. n - 1 \in 0 .. Len(q) /\ n \in D /\ n > 0 /\ (n - 1) + 1 = n
    BY <1>1, <2>3
  <2>5. W[n - 1] = R[n - 1]
    <3>1. n - 1 \in 0 .. Len(q) + 1 /\ n \in Int /\ ~(n <= n - 1)
      BY <1>1, <2>4
    <3>2. n - 1 \notin T
      BY <2>2, <3>1
    <3> QED BY <3>1, <3>2
  <2>6. W[n] = l.next[R[n - 1]]
    BY <1>1, <1>6, <2>4, <2>5
  <2>7. l.next[R[n - 1]] = R[n]
    BY <1>2, <2>4
  <2> QED BY <2>3, <2>6, <2>7
<1>8. T = {}
  BY <1>7
<1> HIDE DEF W
<1> QED BY <1>8 DEF W, R

(* get_all_free_blocks returns the blocks of the list in their order. *)
LEMMA WalkGivesQueue ==
    ASSUME NEW l, NEW q, IsList(l, q)
    PROVE  FreeBlocksOf(l) = q
<1> DEFINE R == Row(Head0, q, Tail0)
           W == Forward(l)
           Ends(n) == /\ W[n] \in Node => l.next[W[n]] = None
                      /\ \A i \in 1 .. n - 1 : W[i] \in Node /\ l.next[W[i]] # None
           end == CHOOSE n \in 1 .. Len(Order) + 1 : Ends(n)
<1>1. Len(q) \in Nat /\ Len(q) <= Len(Order) /\ Len(Order) \in Nat
  BY ListRow
<1>2. R \in [0 .. Len(q) + 1 -> Node] /\ R[Len(q) + 1] = Tail0
  BY ListRow
<1>3. \A i \in 1 .. Len(q) : R[i] = q[i]
  BY ListRow
<1>4. /\ \A i \in 0 .. Len(q) : l.next[R[i]] = R[i + 1]
      /\ l.next[Tail0] = None
  BY DEF IsList
<1>5. \A n \in 0 .. Len(q) + 1 : W[n] = R[n]
  BY WalkIsRow
<1>6. FreeBlocksOf(l) = [i \in 1 .. end - 1 |-> W[i]]
  BY DEF FreeBlocksOf
<1>7. q = [i \in 1 .. Len(q) |-> q[i]]
  BY DEF IsList
<1> HIDE DEF R, W
<1>8. \A i \in 1 .. Len(q) : W[i] \in Node /\ l.next[W[i]] # None
  <2> SUFFICES ASSUME NEW i \in 1 .. Len(q) PROVE W[i] \in Node /\ l.next[W[i]] # None
    OBVIOUS
  <2>0. i \in 0 .. Len(q) /\ i \in 0 .. Len(q) + 1 /\ i + 1 \in 0 .. Len(q) + 1
    BY <1>1
  <2>1. W[i] = R[i] /\ R[i] \in Node /\ R[i + 1] \in Node /\ l.next[R[i]] = R[i + 1]
    BY <1>2, <1>4, <1>5, <2>0
  <2> QED BY <2>1, NodesDistinct
<1>9. Ends(Len(q) + 1) /\ Len(q) + 1 \in 1 .. Len(Order) + 1
  BY <1>1, <1>2, <1>4, <1>5, <1>8
<1>10. \A n \in 1 .. Len(Order) + 1 : Ends(n) => n = Len(q) + 1
  <2> SUFFICES ASSUME NEW n \in 1 .. Len(Order) + 1, Ends(n) PROVE n = Len(q) + 1
    OBVIOUS
  <2>1. ~(n < Len(q) + 1)
    BY <1>1, <1>8
  <2>2. ~(n > Len(q) + 1)
    <3> SUFFICES ASSUME n > Len(q) + 1 PROVE FALSE
      OBVIOUS
    <3>1. Len(q) + 1 \in 1 .. n - 1
      BY <1>1
    <3>2. l.next[W[Len(q) + 1]] # None
      BY <3>1
    <3> QED BY <1>1, <1>2, <1>4, <1>5, <3>2
  <2> QED BY <1>1, <2>1, <2>2
<1> HIDE DEF Ends
<1>11. end \in 1 .. Len(Order) + 1 /\ Ends(end)
  BY <1>9
<1>12. end = Len(q) + 1
  BY <1>10, <1>11
<1> HIDE DEF end
<1>13. [i \in 1 .. end - 1 |-> W[i]] = [i \in 1 .. Len(q) |-> q[i]]
  BY <1>1, <1>3, <1>5, <1>12
<1> QED BY <1>6, <1>7, <1>13

-----------------------------------------------------------------------------
(* The operations on the links are the operations on the queue *)

(* A list, given place by place. *)
LEMMA ListByPlaces ==
    ASSUME NEW c, NEW q \in Seq(Item), IsInjective(q), NEW P,
           c.next \in [Node -> Node \cup {None}], c.prev \in [Node -> Node \cup {None}],
           P[0] = Head0, P[Len(q) + 1] = Tail0, \A i \in 1 .. Len(q) : P[i] = q[i],
           \A i \in 0 .. Len(q) : c.next[P[i]] = P[i + 1] /\ c.prev[P[i + 1]] = P[i],
           c.next[Tail0] = None, c.prev[Head0] = None,
           \A b \in Item : b \notin ToSet(q) => c.next[b] = None /\ c.prev[b] = None
    PROVE  IsList(c, q)
<1> DEFINE R == Row(Head0, q, Tail0)
<1>1. Len(q) \in Nat /\ R[0] = Head0 /\ R[Len(q) + 1] = Tail0
  BY NodesDistinct, RowPlaces
<1>2. \A i \in 1 .. Len(q) : R[i] = q[i]
  BY NodesDistinct, RowPlaces
<1> HIDE DEF R
<1>3. \A i \in 0 .. Len(q) + 1 : R[i] = P[i]
  <2>1. \A i \in 0 .. Len(q) + 1 : i = 0 \/ i = Len(q) + 1 \/ i \in 1 .. Len(q)
    BY <1>1
  <2> QED BY <1>1, <1>2, <2>1
<1>4. \A i \in 0 .. Len(q) : c.next[R[i]] = R[i + 1] /\ c.prev[R[i + 1]] = R[i]
  <2>1. \A i \in 0 .. Len(q) : i \in 0 .. Len(q) + 1 /\ i + 1 \in 0 .. Len(q) + 1
    BY <1>1
  <2> QED BY <1>3, <2>1
<1> QED BY <1>4 DEF IsList, R

LEMMA InitialList ==
    IsList(Splice([next |-> NoLinks, prev |-> NoLinks], Head0, Order, Tail0), Order)
<1> DEFINE l == [next |-> NoLinks, prev |-> NoLinks]
           c == Splice(l, Head0, Order, Tail0)
<1>1. Order \in Seq(Item) /\ IsInjective(Order) /\ ToSet(Order) = Item
  BY OrderAssumption DEF Item
<1>2. l.next \in [Node -> Node \cup {None}] /\ l.prev \in [Node -> Node \cup {None}]
      /\ l.next[Tail0] = None /\ l.prev[Head0] = None
  BY NodesDistinct DEF NoLinks
<1> HIDE DEF l
<1>3. /\ c.next \in [Node -> Node \cup {None}] /\ c.prev \in [Node -> Node \cup {None}]
      /\ \A i \in 0 .. Len(Order) :
            /\ c.next[Row(Head0, Order, Tail0)[i]] = Row(Head0, Order, Tail0)[i + 1]
            /\ c.prev[Row(Head0, Order, Tail0)[i + 1]] = Row(Head0, Order, Tail0)[i]
      /\ c.next[Tail0] = l.next[Tail0] /\ c.prev[Head0] = l.prev[Head0]
  BY <1>1, <1>2, NodesDistinct, SpliceLinks
<1> HIDE DEF c
<1>4. IsList(c, Order)
  BY <1>1, <1>2, <1>3 DEF IsList
<1> QED BY <1>4 DEF c, l

LEMMA PopList ==
    ASSUME NEW l, NEW q, IsList(l, q), NEW n \in 1 .. Len(q)
    PROVE  IsList(Connect(Clear(l, {q[i] : i \in 1 .. n}), Head0, Row(Head0, q, Tail0)[n + 1]),
                  SubSeq(q, n + 1, Len(q)))
<1> DEFINE R == Row(Head0, q, Tail0)
           bs == {q[i] : i \in 1 .. n}
           t == SubSeq(q, n + 1, Len(q))
           c == Connect(Clear(l, bs), Head0, R[n + 1])
           P == [i \in 0 .. Len(t) + 1 |-> IF i = 0 THEN Head0 ELSE R[n + i]]
<1>1. Len(q) \in Nat /\ R \in [0 .. Len(q) + 1 -> Node] /\ R[0] = Head0 /\ R[Len(q) + 1] = Tail0
  <2>1. Len(q) \in Nat BY ListRow
  <2>2. R \in [0 .. Len(q) + 1 -> Node] BY ListRow
  <2>3. R[0] = Head0 /\ R[Len(q) + 1] = Tail0 BY ListRow
  <2> QED BY <2>1, <2>2, <2>3
<1>2. \A i \in 1 .. Len(q) : R[i] = q[i] /\ q[i] \in Item
  BY ListRow
<1>3. \A i, j \in 0 .. Len(q) + 1 : R[i] = R[j] => i = j
  BY ListRow
<1>4. /\ q \in Seq(Item) /\ IsInjective(q)
      /\ l.next \in [Node -> Node \cup {None}] /\ l.prev \in [Node -> Node \cup {None}]
      /\ \A i \in 0 .. Len(q) : l.next[R[i]] = R[i + 1] /\ l.prev[R[i + 1]] = R[i]
      /\ l.next[Tail0] = None /\ l.prev[Head0] = None
      /\ \A b \in Item : b \notin ToSet(q) => l.next[b] = None /\ l.prev[b] = None
  BY DEF IsList
<1>5. t \in Seq(Item) /\ Len(t) = Len(q) - n /\ \A i \in 1 .. Len(t) : t[i] = q[n + i]
  BY <1>1, <1>4
<1>6. IsInjective(t)
  <2>1. \A i \in 1 .. Len(t) : n + i \in 1 .. Len(q)
    BY <1>1, <1>5
  <2>2. DOMAIN t = 1 .. Len(t) /\ DOMAIN q = 1 .. Len(q)
    BY <1>4, <1>5
  <2> HIDE DEF t
  <2>3. ASSUME NEW i \in 1 .. Len(t), NEW j \in 1 .. Len(t), t[i] = t[j] PROVE i = j
    <3>1. n + i \in DOMAIN q /\ n + j \in DOMAIN q /\ q[n + i] = q[n + j]
      BY <1>5, <2>1, <2>2, <2>3
    <3>2. n + i = n + j
      BY <1>4, <3>1 DEF IsInjective
    <3> QED BY <1>1, <1>5, <3>2
  <2> QED BY <2>2, <2>3 DEF IsInjective
<1>7. /\ c.next = [x \in Node |-> IF x = Head0 THEN R[n + 1] ELSE IF x \in bs THEN None ELSE l.next[x]]
      /\ c.prev = [x \in Node |-> IF x = R[n + 1] THEN Head0 ELSE IF x \in bs THEN None ELSE l.prev[x]]
  <2> HIDE DEF R, bs
  <2> QED BY DEF Connect, Clear
<1>8. n + 1 \in 0 .. Len(q) + 1 /\ R[n + 1] \in Node /\ n + 1 \in 1 .. Len(q) + 1
  BY <1>1
<1>9. c.next \in [Node -> Node \cup {None}] /\ c.prev \in [Node -> Node \cup {None}]
  <2> HIDE DEF R, bs, c
  <2> QED BY <1>4, <1>7, <1>8, NodesDistinct
<1>10. \A j \in 0 .. Len(q) + 1 : R[j] \in bs <=> j \in 1 .. n
  <2>1. ASSUME NEW j \in 0 .. Len(q) + 1, R[j] \in bs PROVE j \in 1 .. n
    <3>1. PICK i \in 1 .. n : R[j] = q[i]
      BY <2>1
    <3>2. i \in 1 .. Len(q) /\ i \in 0 .. Len(q) + 1
      BY <1>1
    <3>3. R[j] = R[i]
      BY <1>2, <3>1, <3>2
    <3> HIDE DEF R
    <3> QED BY <1>3, <3>2, <3>3
  <2>2. ASSUME NEW j \in 1 .. n PROVE R[j] \in bs
    <3>1. j \in 1 .. Len(q)
      BY <1>1
    <3> QED BY <1>2, <3>1
  <2> QED BY <2>1, <2>2
<1>11. bs \subseteq ToSet(q) /\ \A b \in ToSet(q) : b \in bs \/ b \in ToSet(t)
  <2>1. ASSUME NEW i \in 1 .. n PROVE q[i] \in ToSet(q)
    BY <1>1, <1>4 DEF ToSet
  <2>2. ASSUME NEW i \in 1 .. Len(q), i \notin 1 .. n PROVE q[i] \in ToSet(t)
    <3>1. i - n \in 1 .. Len(t) /\ n + (i - n) = i
      BY <1>1, <1>5, <2>2
    <3>2. DOMAIN t = 1 .. Len(t)
      BY <1>5
    <3> HIDE DEF t
    <3>3. t[i - n] = q[i]
      BY <1>5, <3>1
    <3> QED BY <3>1, <3>2, <3>3 DEF ToSet
  <2>3. DOMAIN q = 1 .. Len(q)
    BY <1>4
  <2> QED BY <2>1, <2>2, <2>3 DEF ToSet
<1>12. /\ P[0] = Head0 /\ P[Len(t) + 1] = Tail0 /\ \A i \in 1 .. Len(t) : P[i] = t[i]
  <2>1. P[Len(t) + 1] = R[Len(q) + 1]
    BY <1>1, <1>5
  <2> HIDE DEF R, t
  <2>2. ASSUME NEW i \in 1 .. Len(t) PROVE P[i] = t[i]
    <3>1. n + i \in 1 .. Len(q) /\ i # 0 /\ i \in 0 .. Len(t) + 1
      BY <1>1, <1>5
    <3>2. P[i] = R[n + i]
      BY <3>1
    <3> QED BY <1>2, <1>5, <3>1, <3>2
  <2>3. P[0] = Head0
    BY <1>1, <1>5
  <2> QED BY <1>1, <2>1, <2>2, <2>3
<1> HIDE DEF R, bs, t, c
<1>13. ASSUME NEW i \in 0 .. Len(t) PROVE c.next[P[i]] = P[i + 1] /\ c.prev[P[i + 1]] = P[i]
  <2>1. CASE i = 0
    <3>1. P[0] = Head0 /\ P[i + 1] = R[n + 1]
      BY <1>1, <2>1
    <3> QED BY <1>7, <1>8, <2>1, <3>1, NodesDistinct
  <2>2. CASE i # 0
    <3>1. /\ P[i] = R[n + i] /\ P[i + 1] = R[n + i + 1]
          /\ n + i \in 0 .. Len(q) /\ n + i \in 0 .. Len(q) + 1 /\ n + i + 1 \in 0 .. Len(q) + 1
          /\ n + i \notin 1 .. n /\ n + i + 1 \notin 1 .. n /\ n + i # 0 /\ n + i + 1 # n + 1
          /\ 0 \in 0 .. Len(q) + 1
      BY <1>1, <1>5, <2>2
    <3>2. R[n + i] # Head0 /\ R[n + i] \notin bs /\ R[n + i + 1] \notin bs /\ R[n + i + 1] # R[n + 1]
      BY <1>1, <1>3, <1>8, <1>10, <3>1
    <3>3. R[n + i] \in Node /\ R[n + i + 1] \in Node
      BY <1>1, <3>1
    <3>4. l.next[R[n + i]] = R[n + i + 1] /\ l.prev[R[n + i + 1]] = R[n + i]
      BY <1>4, <3>1
    <3> QED BY <1>7, <3>1, <3>2, <3>3, <3>4
  <2> QED BY <2>1, <2>2
<1>14. c.next[Tail0] = None /\ c.prev[Head0] = None
  <2>1. 0 \in 0 .. Len(q) + 1 /\ Len(q) + 1 \in 0 .. Len(q) + 1 /\ Len(q) + 1 \notin 1 .. n /\ 0 # n + 1
    BY <1>1
  <2>2. Tail0 \notin bs /\ Head0 \notin bs
    BY <1>1, <1>10, <2>1
  <2>3. Head0 # R[n + 1]
    BY <1>1, <1>3, <1>8, <2>1
  <2> QED BY <1>4, <1>7, <2>2, <2>3, NodesDistinct
<1>15. ASSUME NEW b \in Item, b \notin ToSet(t) PROVE c.next[b] = None /\ c.prev[b] = None
  <2>1. b \in Node /\ b # Head0 /\ b # Tail0
    BY NodesDistinct
  <2>2. b # R[n + 1]
    <3>1. CASE n + 1 = Len(q) + 1
      BY <1>1, <2>1, <3>1
    <3>2. CASE n + 1 # Len(q) + 1
      <4>1. n + 1 \in 1 .. Len(q) /\ 1 \in 1 .. Len(t)
        BY <1>1, <1>5, <3>2
      <4>2. t[1] = q[n + 1] /\ t[1] \in ToSet(t)
        BY <1>5, <4>1 DEF ToSet
      <4> QED BY <1>2, <1>15, <4>1, <4>2
    <3> QED BY <3>1, <3>2
  <2>3. CASE b \in bs
    BY <1>7, <2>1, <2>2, <2>3
  <2>4. CASE b \notin bs
    <3>1. b \notin ToSet(q)
      BY <1>11, <1>15, <2>4
    <3> QED BY <1>4, <1>7, <2>1, <2>2, <2>4, <3>1
  <2> QED BY <2>3, <2>4
<1> HIDE DEF P
<1>16. IsList(c, t)
  BY <1>5, <1>6, <1>9, <1>12, <1>13, <1>14, <1>15, ListByPlaces
<1> QED BY <1>16 DEF c, t, bs, R

(* A block with links is in the list, between its two neighbours. *)
LEMMA LinkedIsInList ==
    ASSUME NEW l, NEW q, IsList(l, q), NEW b \in Item, l.prev[b] # None
    PROVE  \E i \in 1 .. Len(q) :
              /\ q[i] = b /\ l.prev[b] = Row(Head0, q, Tail0)[i - 1]
              /\ l.next[b] = Row(Head0, q, Tail0)[i + 1]
<1> DEFINE R == Row(Head0, q, Tail0)
<1>1. Len(q) \in Nat /\ \A i \in 1 .. Len(q) : R[i] = q[i]
  BY ListRow
<1>2. b \in ToSet(q) /\ q \in Seq(Item)
  BY DEF IsList
<1>3. PICK i \in 1 .. Len(q) : q[i] = b
  BY <1>2 DEF ToSet
<1>4. i \in 0 .. Len(q) /\ i - 1 \in 0 .. Len(q) /\ (i - 1) + 1 = i
  BY <1>1
<1>5. \A j \in 0 .. Len(q) : l.next[R[j]] = R[j + 1] /\ l.prev[R[j + 1]] = R[j]
  BY DEF IsList
<1> HIDE DEF R
<1>6. l.prev[b] = R[i - 1] /\ l.next[b] = R[i + 1]
  <2>1. R[i] = b
    BY <1>1, <1>3
  <2>2. l.prev[R[(i - 1) + 1]] = R[i - 1] /\ l.next[R[i]] = R[i + 1]
    BY <1>4, <1>5
  <2> QED BY <1>4, <2>1, <2>2
<1> QED BY <1>3, <1>6 DEF R

LEMMA RemoveList ==
    ASSUME NEW l, NEW q, IsList(l, q), NEW k \in 1 .. Len(q)
    PROVE  LET R == Row(Head0, q, Tail0)
           IN  IsList(Clear(Connect(l, R[k - 1], R[k + 1]), {q[k]}), RemoveAt(q, k))
<1> DEFINE R == Row(Head0, q, Tail0)
           t == RemoveAt(q, k)
           c == Clear(Connect(l, R[k - 1], R[k + 1]), {q[k]})
           P == [i \in 0 .. Len(t) + 1 |-> IF i < k THEN R[i] ELSE R[i + 1]]
<1>1. Len(q) \in Nat /\ R \in [0 .. Len(q) + 1 -> Node] /\ R[0] = Head0 /\ R[Len(q) + 1] = Tail0
  <2>1. Len(q) \in Nat BY ListRow
  <2>2. R \in [0 .. Len(q) + 1 -> Node] BY ListRow
  <2>3. R[0] = Head0 /\ R[Len(q) + 1] = Tail0 BY ListRow
  <2> QED BY <2>1, <2>2, <2>3
<1>2. \A i \in 1 .. Len(q) : R[i] = q[i] /\ q[i] \in Item
  BY ListRow
<1>3. \A i, j \in 0 .. Len(q) + 1 : R[i] = R[j] => i = j
  BY ListRow
<1>4. /\ q \in Seq(Item) /\ IsInjective(q)
      /\ l.next \in [Node -> Node \cup {None}] /\ l.prev \in [Node -> Node \cup {None}]
      /\ \A i \in 0 .. Len(q) : l.next[R[i]] = R[i + 1] /\ l.prev[R[i + 1]] = R[i]
      /\ l.next[Tail0] = None /\ l.prev[Head0] = None
      /\ \A b \in Item : b \notin ToSet(q) => l.next[b] = None /\ l.prev[b] = None
  BY DEF IsList
<1>5. /\ t \in Seq(Item) /\ Len(t) = Len(q) - 1
      /\ \A i \in 1 .. Len(t) : t[i] = IF i < k THEN q[i] ELSE q[i + 1]
  <2> DEFINE u == SubSeq(q, 1, k - 1)
             v == SubSeq(q, k + 1, Len(q))
  <2>1. u \in Seq(Item) /\ Len(u) = k - 1 /\ \A i \in 1 .. k - 1 : u[i] = q[i]
    BY <1>1, <1>4
  <2>2. v \in Seq(Item) /\ Len(v) = Len(q) - k /\ \A i \in 1 .. Len(q) - k : v[i] = q[k + i]
    BY <1>1, <1>4
  <2> HIDE DEF u, v
  <2>3. t = u \o v
    BY DEF RemoveAt, u, v
  <2>4. u \o v \in Seq(Item) /\ Len(u \o v) = Len(u) + Len(v)
    <3>1. u \in Seq(Item) /\ v \in Seq(Item)
      BY <2>1, <2>2
    <3> QED BY <3>1
  <2>5. \A i \in 1 .. Len(u) + Len(v) : (u \o v)[i] = IF i <= Len(u) THEN u[i] ELSE v[i - Len(u)]
    BY <2>1, <2>2
  <2> HIDE DEF t
  <2>6. ASSUME NEW i \in 1 .. Len(t) PROVE t[i] = IF i < k THEN q[i] ELSE q[i + 1]
    <3>1. Len(t) = Len(q) - 1
      BY <1>1, <2>1, <2>2, <2>3, <2>4
    <3>2. CASE i < k
      <4>1. i \in 1 .. k - 1 /\ i <= Len(u) /\ i \in 1 .. Len(u) + Len(v)
        BY <1>1, <2>1, <2>2, <3>1, <3>2
      <4> QED BY <2>1, <2>3, <2>5, <3>2, <4>1
    <3>3. CASE ~(i < k)
      <4>1. /\ i - (k - 1) \in 1 .. Len(q) - k /\ ~(i <= Len(u)) /\ i \in 1 .. Len(u) + Len(v)
            /\ k + (i - (k - 1)) = i + 1
        BY <1>1, <2>1, <2>2, <3>1, <3>3
      <4> QED BY <2>1, <2>2, <2>3, <2>5, <3>3, <4>1
    <3> QED BY <3>2, <3>3
  <2> QED BY <1>1, <2>1, <2>2, <2>3, <2>4, <2>6
<1>6. /\ k - 1 \in 0 .. Len(q) + 1 /\ k \in 0 .. Len(q) + 1 /\ k + 1 \in 0 .. Len(q) + 1
      /\ R[k - 1] \in Node /\ R[k + 1] \in Node /\ R[k] = q[k] /\ q[k] \in Item
  BY <1>1, <1>2
<1> HIDE DEF R, t
<1>7. DOMAIN t = 1 .. Len(t) /\ DOMAIN q = 1 .. Len(q)
  BY <1>4, <1>5
<1>8. IsInjective(t)
  <2>1. ASSUME NEW i \in 1 .. Len(t), NEW j \in 1 .. Len(t), t[i] = t[j] PROVE i = j
    <3> DEFINE a == IF i < k THEN i ELSE i + 1
               d == IF j < k THEN j ELSE j + 1
    <3>1. a \in DOMAIN q /\ d \in DOMAIN q
      BY <1>1, <1>5, <1>7
    <3>2. q[a] = q[d]
      BY <1>5, <2>1
    <3> HIDE DEF a, d
    <3>3. a = d
      BY <1>4, <3>1, <3>2 DEF IsInjective
    <3> QED BY <1>1, <1>5, <3>3 DEF a, d
  <2> QED BY <1>7, <2>1 DEF IsInjective
<1>9. /\ c.next = [x \in Node |-> IF x = q[k] THEN None ELSE IF x = R[k - 1] THEN R[k + 1] ELSE l.next[x]]
      /\ c.prev = [x \in Node |-> IF x = q[k] THEN None ELSE IF x = R[k + 1] THEN R[k - 1] ELSE l.prev[x]]
  BY <1>4, <1>6 DEF Connect, Clear
<1> HIDE DEF c
<1>10. c.next \in [Node -> Node \cup {None}] /\ c.prev \in [Node -> Node \cup {None}]
  BY <1>4, <1>6, <1>9
<1>11. P[0] = Head0 /\ P[Len(t) + 1] = Tail0 /\ \A i \in 1 .. Len(t) : P[i] = t[i]
  <2>1. P[0] = R[0] /\ P[Len(t) + 1] = R[Len(q) + 1]
    BY <1>1, <1>5
  <2>2. ASSUME NEW i \in 1 .. Len(t) PROVE P[i] = t[i]
    <3>1. i \in 0 .. Len(t) + 1 /\ i \in 1 .. Len(q) /\ i + 1 \in 1 .. Len(q)
      BY <1>1, <1>5
    <3>2. P[i] = IF i < k THEN R[i] ELSE R[i + 1]
      BY <3>1
    <3> HIDE DEF P
    <3> QED BY <1>2, <1>5, <3>1, <3>2
  <2> QED BY <1>1, <2>1, <2>2
<1>12. \A j \in 0 .. Len(q) + 1 : j # k => R[j] # q[k]
  BY <1>3, <1>6
<1>13. ASSUME NEW i \in 0 .. Len(t) PROVE c.next[P[i]] = P[i + 1] /\ c.prev[P[i + 1]] = P[i]
  <2>1. /\ P[i] = IF i < k THEN R[i] ELSE R[i + 1]
        /\ P[i + 1] = IF i + 1 < k THEN R[i + 1] ELSE R[i + 2]
    BY <1>1, <1>5
  <2> HIDE DEF P
  <2>2. CASE i + 1 < k
    <3>1. /\ P[i] = R[i] /\ P[i + 1] = R[i + 1] /\ i \in 0 .. Len(q) /\ i \in 0 .. Len(q) + 1
          /\ i + 1 \in 0 .. Len(q) + 1 /\ i # k /\ i + 1 # k /\ i # k - 1 /\ i + 1 # k + 1
      BY <1>1, <1>5, <2>1, <2>2
    <3>2. R[i] # q[k] /\ R[i + 1] # q[k] /\ R[i] # R[k - 1] /\ R[i + 1] # R[k + 1]
      BY <1>3, <1>6, <1>12, <3>1
    <3>3. R[i] \in Node /\ R[i + 1] \in Node
      BY <1>1, <3>1
    <3> QED BY <1>4, <1>9, <3>1, <3>2, <3>3
  <2>3. CASE i + 1 = k
    <3>1. P[i] = R[k - 1] /\ P[i + 1] = R[k + 1] /\ k - 1 # k /\ k + 1 # k
      BY <1>1, <2>1, <2>3
    <3>2. R[k - 1] # q[k] /\ R[k + 1] # q[k]
      BY <1>6, <1>12, <3>1
    <3> QED BY <1>6, <1>9, <3>1, <3>2
  <2>4. CASE i + 1 > k
    <3>1. /\ P[i] = R[i + 1] /\ P[i + 1] = R[(i + 1) + 1] /\ i + 1 \in 0 .. Len(q)
          /\ i + 1 \in 0 .. Len(q) + 1 /\ (i + 1) + 1 \in 0 .. Len(q) + 1
          /\ i + 1 # k /\ (i + 1) + 1 # k /\ i + 1 # k - 1 /\ (i + 1) + 1 # k + 1
      BY <1>1, <1>5, <2>1, <2>4
    <3>2. R[i + 1] # q[k] /\ R[(i + 1) + 1] # q[k] /\ R[i + 1] # R[k - 1] /\ R[(i + 1) + 1] # R[k + 1]
      BY <1>3, <1>6, <1>12, <3>1
    <3>3. R[i + 1] \in Node /\ R[(i + 1) + 1] \in Node
      BY <1>1, <3>1
    <3>4. l.next[R[i + 1]] = R[(i + 1) + 1] /\ l.prev[R[(i + 1) + 1]] = R[i + 1]
      BY <1>4, <3>1
    <3> QED BY <1>9, <3>1, <3>2, <3>3, <3>4
  <2> QED BY <1>1, <1>5, <2>2, <2>3, <2>4
<1>14. c.next[Tail0] = None /\ c.prev[Head0] = None
  <2>1. /\ 0 \in 0 .. Len(q) + 1 /\ Len(q) + 1 \in 0 .. Len(q) + 1 /\ 0 # k /\ Len(q) + 1 # k
        /\ Len(q) + 1 # k - 1 /\ 0 # k + 1
    BY <1>1
  <2>2. Tail0 # q[k] /\ Head0 # q[k] /\ Tail0 # R[k - 1] /\ Head0 # R[k + 1]
    BY <1>1, <1>3, <1>6, <1>12, <2>1
  <2> QED BY <1>4, <1>9, <2>2, NodesDistinct
<1>15. ASSUME NEW b \in Item, b \notin ToSet(t) PROVE c.next[b] = None /\ c.prev[b] = None
  <2>1. b \in Node /\ b # Head0 /\ b # Tail0
    BY NodesDistinct
  <2>2. CASE b = q[k]
    BY <1>9, <2>1, <2>2
  <2>3. CASE b # q[k]
    <3>1. ASSUME NEW i \in 1 .. Len(q), i # k PROVE q[i] \in ToSet(t)
      <4>1. CASE i < k
        <5>1. i \in 1 .. Len(t)
          BY <1>1, <1>5, <4>1
        <5> QED BY <1>5, <1>7, <4>1, <5>1 DEF ToSet
      <4>2. CASE i > k
        <5>1. i - 1 \in 1 .. Len(t) /\ ~(i - 1 < k) /\ (i - 1) + 1 = i
          BY <1>1, <1>5, <4>2
        <5>2. t[i - 1] = q[i]
          BY <1>5, <5>1
        <5> QED BY <1>7, <5>1, <5>2 DEF ToSet
      <4> QED BY <3>1, <4>1, <4>2
    <3>2. b \notin ToSet(q)
      BY <1>7, <1>15, <2>3, <3>1 DEF ToSet
    <3>3. \A j \in 0 .. Len(q) + 1 : b # R[j]
      <4>1. \A j \in 0 .. Len(q) + 1 : j = 0 \/ j = Len(q) + 1 \/ j \in 1 .. Len(q)
        BY <1>1
      <4>2. \A j \in 1 .. Len(q) : R[j] \in ToSet(q)
        BY <1>2, <1>7 DEF ToSet
      <4> QED BY <1>1, <2>1, <3>2, <4>1, <4>2
    <3> QED BY <1>4, <1>6, <1>9, <2>1, <2>3, <3>2, <3>3
  <2> QED BY <2>2, <2>3
<1> HIDE DEF P
<1>16. IsList(c, t)
  BY <1>5, <1>8, <1>10, <1>11, <1>13, <1>14, <1>15, ListByPlaces
<1> QED BY <1>16 DEF c, t, R

(* Joining lists of different blocks. *)
LEMMA JoinDistinct ==
    ASSUME NEW u \in Seq(Item), NEW v \in Seq(Item), IsInjective(u), IsInjective(v),
           ToSet(u) \cap ToSet(v) = {}
    PROVE  /\ u \o v \in Seq(Item) /\ Len(u \o v) = Len(u) + Len(v) /\ IsInjective(u \o v)
           /\ \A i \in 1 .. Len(u) + Len(v) : (u \o v)[i] = IF i <= Len(u) THEN u[i] ELSE v[i - Len(u)]
           /\ ToSet(u \o v) = ToSet(u) \cup ToSet(v)
<1> DEFINE t == u \o v
<1>1. t \in Seq(Item) /\ Len(t) = Len(u) + Len(v) /\ Len(u) \in Nat /\ Len(v) \in Nat
  OBVIOUS
<1>2. \A i \in 1 .. Len(u) + Len(v) : t[i] = IF i <= Len(u) THEN u[i] ELSE v[i - Len(u)]
  OBVIOUS
<1>3. DOMAIN t = 1 .. Len(u) + Len(v) /\ DOMAIN u = 1 .. Len(u) /\ DOMAIN v = 1 .. Len(v)
  BY <1>1
<1> HIDE DEF t
<1>4. \A i \in 1 .. Len(u) : u[i] \in ToSet(u) /\ i \in 1 .. Len(u) + Len(v) /\ t[i] = u[i]
  BY <1>1, <1>2, <1>3 DEF ToSet
<1>5. \A i \in 1 .. Len(v) : /\ v[i] \in ToSet(v) /\ Len(u) + i \in 1 .. Len(u) + Len(v)
                             /\ t[Len(u) + i] = v[i]
  <2> SUFFICES ASSUME NEW i \in 1 .. Len(v)
               PROVE  /\ v[i] \in ToSet(v) /\ Len(u) + i \in 1 .. Len(u) + Len(v)
                      /\ t[Len(u) + i] = v[i]
    OBVIOUS
  <2>1. Len(u) + i \in 1 .. Len(u) + Len(v) /\ ~(Len(u) + i <= Len(u)) /\ (Len(u) + i) - Len(u) = i
    BY <1>1
  <2> QED BY <1>2, <1>3, <2>1 DEF ToSet
<1>6. \A i \in 1 .. Len(u) + Len(v) : i \in 1 .. Len(u) \/ (i - Len(u) \in 1 .. Len(v) /\ Len(u) + (i - Len(u)) = i)
  BY <1>1
<1>7. ToSet(t) = ToSet(u) \cup ToSet(v)
  <2>1. \A i \in 1 .. Len(u) + Len(v) : t[i] \in ToSet(u) \cup ToSet(v)
    BY <1>4, <1>5, <1>6
  <2>2. \A i \in 1 .. Len(u) : u[i] \in ToSet(t)
    BY <1>3, <1>4 DEF ToSet
  <2>3. \A i \in 1 .. Len(v) : v[i] \in ToSet(t)
    <3> SUFFICES ASSUME NEW i \in 1 .. Len(v) PROVE v[i] \in ToSet(t)
      OBVIOUS
    <3>1. Len(u) + i \in DOMAIN t /\ t[Len(u) + i] = v[i]
      BY <1>3, <1>5
    <3> QED BY <3>1 DEF ToSet
  <2> QED BY <1>3, <2>1, <2>2, <2>3 DEF ToSet
<1>8. ASSUME NEW i \in 1 .. Len(u) + Len(v), NEW j \in 1 .. Len(u) + Len(v), t[i] = t[j]
      PROVE  i = j
  <2>1. \A a, b \in 1 .. Len(u) : u[a] = u[b] => a = b
    BY <1>3 DEF IsInjective
  <2>2. \A a, b \in 1 .. Len(v) : v[a] = v[b] => a = b
    BY <1>3 DEF IsInjective
  <2>3. CASE i \in 1 .. Len(u) /\ j \in 1 .. Len(u)
    BY <1>4, <1>8, <2>1, <2>3
  <2>4. CASE i \notin 1 .. Len(u) /\ j \notin 1 .. Len(u)
    <3>1. i - Len(u) \in 1 .. Len(v) /\ j - Len(u) \in 1 .. Len(v)
      BY <1>6, <2>4
    <3>2. v[i - Len(u)] = v[j - Len(u)]
      BY <1>5, <1>6, <1>8, <2>4, <3>1
    <3>3. i - Len(u) = j - Len(u)
      BY <2>2, <3>1, <3>2
    <3> QED BY <1>1, <3>3
  <2>5. CASE i \in 1 .. Len(u) /\ j \notin 1 .. Len(u)
    <3>1. t[i] \in ToSet(u)
      BY <1>4, <2>5
    <3>2. t[j] \in ToSet(v)
      BY <1>5, <1>6, <2>5
    <3> QED BY <1>8, <3>1, <3>2
  <2>6. CASE i \notin 1 .. Len(u) /\ j \in 1 .. Len(u)
    <3>1. t[j] \in ToSet(u)
      BY <1>4, <2>6
    <3>2. t[i] \in ToSet(v)
      BY <1>5, <1>6, <2>6
    <3> QED BY <1>8, <3>1, <3>2
  <2> QED BY <2>3, <2>4, <2>5, <2>6
<1>9. IsInjective(t)
  BY <1>3, <1>8 DEF IsInjective
<1> QED BY <1>1, <1>2, <1>7, <1>9 DEF t

LEMMA AppendList ==
    ASSUME NEW l, NEW q, IsList(l, q), NEW s \in Seq(Item), IsInjective(s),
           ToSet(s) \cap ToSet(q) = {}
    PROVE  IsList(Splice(l, l.prev[Tail0], s, Tail0), q \o s)
<1> DEFINE R == Row(Head0, q, Tail0)
           x == R[Len(q)]
           S == Row(x, s, Tail0)
           t == q \o s
           c == Splice(l, x, s, Tail0)
           P == [i \in 0 .. Len(t) + 1 |-> IF i <= Len(q) THEN R[i] ELSE S[i - Len(q)]]
<1>1. Len(q) \in Nat /\ R \in [0 .. Len(q) + 1 -> Node] /\ R[0] = Head0 /\ R[Len(q) + 1] = Tail0
  <2>1. Len(q) \in Nat BY ListRow
  <2>2. R \in [0 .. Len(q) + 1 -> Node] BY ListRow
  <2>3. R[0] = Head0 /\ R[Len(q) + 1] = Tail0 BY ListRow
  <2> QED BY <2>1, <2>2, <2>3
<1>2. \A i \in 1 .. Len(q) : R[i] = q[i] /\ q[i] \in Item
  BY ListRow
<1>3. \A i, j \in 0 .. Len(q) + 1 : R[i] = R[j] => i = j
  BY ListRow
<1>4. /\ q \in Seq(Item) /\ IsInjective(q)
      /\ l.next \in [Node -> Node \cup {None}] /\ l.prev \in [Node -> Node \cup {None}]
      /\ \A i \in 0 .. Len(q) : l.next[R[i]] = R[i + 1] /\ l.prev[R[i + 1]] = R[i]
      /\ l.next[Tail0] = None /\ l.prev[Head0] = None
      /\ \A b \in Item : b \notin ToSet(q) => l.next[b] = None /\ l.prev[b] = None
  BY DEF IsList
<1> HIDE DEF R
<1>5. DOMAIN q = 1 .. Len(q) /\ DOMAIN s = 1 .. Len(s) /\ Len(s) \in Nat /\ ToSet(s) \subseteq Item
  BY <1>4 DEF ToSet
<1>6. \A j \in 0 .. Len(q) + 1 : R[j] \notin ToSet(s) /\ (R[j] \in ToSet(q) \/ R[j] = Head0 \/ R[j] = Tail0)
  <2>1. \A j \in 0 .. Len(q) + 1 : j = 0 \/ j = Len(q) + 1 \/ j \in 1 .. Len(q)
    BY <1>1
  <2>2. \A j \in 1 .. Len(q) : R[j] \in ToSet(q)
    BY <1>2, <1>5 DEF ToSet
  <2>3. Head0 \notin ToSet(s) /\ Tail0 \notin ToSet(s)
    BY <1>5, NodesDistinct
  <2> QED BY <1>1, <2>1, <2>2, <2>3
<1>7. Len(q) \in 0 .. Len(q) /\ Len(q) \in 0 .. Len(q) + 1 /\ Len(q) + 1 \in 0 .. Len(q) + 1 /\ Len(q) # Len(q) + 1
  BY <1>1
<1>8. x \in Node /\ x \notin ToSet(s) /\ x # Tail0 /\ Tail0 \notin ToSet(s) /\ l.prev[Tail0] = x
  BY <1>1, <1>3, <1>4, <1>6, <1>7
<1>9. /\ t \in Seq(Item) /\ Len(t) = Len(q) + Len(s) /\ IsInjective(t)
      /\ \A i \in 1 .. Len(q) + Len(s) : t[i] = IF i <= Len(q) THEN q[i] ELSE s[i - Len(q)]
      /\ ToSet(t) = ToSet(q) \cup ToSet(s)
  BY <1>4, JoinDistinct
<1> HIDE DEF x, t
<1>10. /\ c.next \in [Node -> Node \cup {None}] /\ c.prev \in [Node -> Node \cup {None}]
       /\ \A i \in 0 .. Len(s) : c.next[S[i]] = S[i + 1] /\ c.prev[S[i + 1]] = S[i]
       /\ \A n \in Node : n # x /\ n \notin ToSet(s) => c.next[n] = l.next[n]
       /\ \A n \in Node : n # Tail0 /\ n \notin ToSet(s) => c.prev[n] = l.prev[n]
  BY <1>4, <1>8, NodesDistinct, SpliceLinks
<1>11. S[0] = x /\ S[Len(s) + 1] = Tail0 /\ \A i \in 1 .. Len(s) : S[i] = s[i]
  BY <1>8, NodesDistinct, RowPlaces
<1> HIDE DEF c, S
<1>12. P[0] = Head0 /\ P[Len(t) + 1] = Tail0 /\ \A i \in 1 .. Len(t) : P[i] = t[i]
  <2>1. P[0] = R[0]
    BY <1>1, <1>5, <1>9
  <2>2. P[Len(t) + 1] = S[Len(s) + 1]
    BY <1>1, <1>5, <1>9
  <2>3. ASSUME NEW i \in 1 .. Len(t) PROVE P[i] = t[i]
    <3>1. P[i] = IF i <= Len(q) THEN R[i] ELSE S[i - Len(q)]
      BY <1>1, <1>5, <1>9
    <3>2. i \in 1 .. Len(q) + Len(s) /\ (i <= Len(q) => i \in 1 .. Len(q)) /\ (~(i <= Len(q)) => i - Len(q) \in 1 .. Len(s))
      BY <1>1, <1>5, <1>9
    <3> HIDE DEF P
    <3> QED BY <1>2, <1>9, <1>11, <3>1, <3>2
  <2> QED BY <1>1, <1>11, <2>1, <2>2, <2>3
<1>13. ASSUME NEW i \in 0 .. Len(t) PROVE c.next[P[i]] = P[i + 1] /\ c.prev[P[i + 1]] = P[i]
  <2>1. /\ P[i] = IF i <= Len(q) THEN R[i] ELSE S[i - Len(q)]
        /\ P[i + 1] = IF i + 1 <= Len(q) THEN R[i + 1] ELSE S[i + 1 - Len(q)]
    BY <1>1, <1>5, <1>9
  <2> HIDE DEF P
  <2>2. CASE i < Len(q)
    <3>1. /\ P[i] = R[i] /\ P[i + 1] = R[i + 1] /\ i \in 0 .. Len(q) /\ i \in 0 .. Len(q) + 1
          /\ i + 1 \in 0 .. Len(q) + 1 /\ i # Len(q) /\ i + 1 # Len(q) + 1
      BY <1>1, <2>1, <2>2
    <3>2. R[i] # x /\ R[i + 1] # Tail0
      BY <1>1, <1>3, <1>7, <3>1 DEF x
    <3>3. R[i] \in Node /\ R[i + 1] \in Node /\ R[i] \notin ToSet(s) /\ R[i + 1] \notin ToSet(s)
      BY <1>1, <1>6, <3>1
    <3>4. l.next[R[i]] = R[i + 1] /\ l.prev[R[i + 1]] = R[i]
      BY <1>4, <3>1
    <3> QED BY <1>10, <3>1, <3>2, <3>3, <3>4
  <2>3. CASE i >= Len(q)
    <3>1. i - Len(q) \in 0 .. Len(s) /\ P[i + 1] = S[(i - Len(q)) + 1]
      BY <1>1, <1>5, <1>9, <2>1, <2>3
    <3>2. P[i] = S[i - Len(q)]
      <4>1. CASE i = Len(q)
        BY <1>1, <1>11, <2>1, <4>1 DEF x
      <4>2. CASE i # Len(q)
        BY <1>1, <2>1, <2>3, <4>2
      <4> QED BY <4>1, <4>2
    <3> QED BY <1>10, <3>1, <3>2
  <2> QED BY <1>1, <1>5, <1>9, <2>2, <2>3
<1>14. c.next[Tail0] = None /\ c.prev[Head0] = None
  <2>1. Head0 \notin ToSet(s)
    BY <1>5, NodesDistinct
  <2> QED BY <1>4, <1>8, <1>10, <2>1, NodesDistinct
<1>15. ASSUME NEW b \in Item, b \notin ToSet(t) PROVE c.next[b] = None /\ c.prev[b] = None
  <2>1. b \notin ToSet(q) /\ b \notin ToSet(s) /\ b \in Node /\ b # Tail0 /\ b # Head0
    BY <1>9, <1>15, NodesDistinct
  <2>2. b # x
    BY <1>6, <1>7, <2>1 DEF x
  <2> QED BY <1>4, <1>10, <2>1, <2>2
<1> HIDE DEF P
<1>16. IsList(c, t)
  BY <1>9, <1>10, <1>12, <1>13, <1>14, <1>15, ListByPlaces
<1> QED BY <1>8, <1>16 DEF c, t

LEMMA PrependList ==
    ASSUME NEW l, NEW q, IsList(l, q), NEW s \in Seq(Item), IsInjective(s),
           ToSet(s) \cap ToSet(q) = {}
    PROVE  IsList(Splice(l, Head0, s, l.next[Head0]), s \o q)
<1> DEFINE R == Row(Head0, q, Tail0)
           y == R[1]
           S == Row(Head0, s, y)
           t == s \o q
           c == Splice(l, Head0, s, y)
           P == [i \in 0 .. Len(t) + 1 |-> IF i <= Len(s) THEN S[i] ELSE R[i - Len(s)]]
<1>1. Len(q) \in Nat /\ R \in [0 .. Len(q) + 1 -> Node] /\ R[0] = Head0 /\ R[Len(q) + 1] = Tail0
  <2>1. Len(q) \in Nat BY ListRow
  <2>2. R \in [0 .. Len(q) + 1 -> Node] BY ListRow
  <2>3. R[0] = Head0 /\ R[Len(q) + 1] = Tail0 BY ListRow
  <2> QED BY <2>1, <2>2, <2>3
<1>2. \A i \in 1 .. Len(q) : R[i] = q[i] /\ q[i] \in Item
  BY ListRow
<1>3. \A i, j \in 0 .. Len(q) + 1 : R[i] = R[j] => i = j
  BY ListRow
<1>4. /\ q \in Seq(Item) /\ IsInjective(q)
      /\ l.next \in [Node -> Node \cup {None}] /\ l.prev \in [Node -> Node \cup {None}]
      /\ \A i \in 0 .. Len(q) : l.next[R[i]] = R[i + 1] /\ l.prev[R[i + 1]] = R[i]
      /\ l.next[Tail0] = None /\ l.prev[Head0] = None
      /\ \A b \in Item : b \notin ToSet(q) => l.next[b] = None /\ l.prev[b] = None
  BY DEF IsList
<1> HIDE DEF R
<1>5. DOMAIN q = 1 .. Len(q) /\ DOMAIN s = 1 .. Len(s) /\ Len(s) \in Nat /\ ToSet(s) \subseteq Item
  BY <1>4 DEF ToSet
<1>6. \A j \in 0 .. Len(q) + 1 : R[j] \notin ToSet(s) /\ (R[j] \in ToSet(q) \/ R[j] = Head0 \/ R[j] = Tail0)
  <2>1. \A j \in 0 .. Len(q) + 1 : j = 0 \/ j = Len(q) + 1 \/ j \in 1 .. Len(q)
    BY <1>1
  <2>2. \A j \in 1 .. Len(q) : R[j] \in ToSet(q)
    BY <1>2, <1>5 DEF ToSet
  <2>3. Head0 \notin ToSet(s) /\ Tail0 \notin ToSet(s)
    BY <1>5, NodesDistinct
  <2> QED BY <1>1, <2>1, <2>2, <2>3
<1>7. 0 \in 0 .. Len(q) /\ 0 \in 0 .. Len(q) + 1 /\ 1 \in 0 .. Len(q) + 1 /\ 0 + 1 = 1
  BY <1>1
<1>8. y \in Node /\ y \notin ToSet(s) /\ y # Head0 /\ Head0 \notin ToSet(s) /\ l.next[Head0] = y
  BY <1>1, <1>3, <1>4, <1>6, <1>7
<1>9. /\ t \in Seq(Item) /\ Len(t) = Len(s) + Len(q) /\ IsInjective(t)
      /\ \A i \in 1 .. Len(s) + Len(q) : t[i] = IF i <= Len(s) THEN s[i] ELSE q[i - Len(s)]
      /\ ToSet(t) = ToSet(s) \cup ToSet(q)
  BY <1>4, JoinDistinct
<1> HIDE DEF y, t
<1>10. /\ c.next \in [Node -> Node \cup {None}] /\ c.prev \in [Node -> Node \cup {None}]
       /\ \A i \in 0 .. Len(s) : c.next[S[i]] = S[i + 1] /\ c.prev[S[i + 1]] = S[i]
       /\ \A n \in Node : n # Head0 /\ n \notin ToSet(s) => c.next[n] = l.next[n]
       /\ \A n \in Node : n # y /\ n \notin ToSet(s) => c.prev[n] = l.prev[n]
  BY <1>4, <1>8, NodesDistinct, SpliceLinks
<1>11. S[0] = Head0 /\ S[Len(s) + 1] = y /\ \A i \in 1 .. Len(s) : S[i] = s[i]
  BY <1>8, NodesDistinct, RowPlaces
<1> HIDE DEF c, S
<1>12. P[0] = Head0 /\ P[Len(t) + 1] = Tail0 /\ \A i \in 1 .. Len(t) : P[i] = t[i]
  <2>1. P[0] = S[0]
    BY <1>1, <1>5, <1>9
  <2>2. P[Len(t) + 1] = R[Len(q) + 1]
    BY <1>1, <1>5, <1>9
  <2>3. ASSUME NEW i \in 1 .. Len(t) PROVE P[i] = t[i]
    <3>1. P[i] = IF i <= Len(s) THEN S[i] ELSE R[i - Len(s)]
      BY <1>1, <1>5, <1>9
    <3>2. i \in 1 .. Len(s) + Len(q) /\ (i <= Len(s) => i \in 1 .. Len(s)) /\ (~(i <= Len(s)) => i - Len(s) \in 1 .. Len(q))
      BY <1>1, <1>5, <1>9
    <3> HIDE DEF P
    <3> QED BY <1>2, <1>9, <1>11, <3>1, <3>2
  <2> QED BY <1>1, <1>11, <2>1, <2>2, <2>3
<1>13. ASSUME NEW i \in 0 .. Len(t) PROVE c.next[P[i]] = P[i + 1] /\ c.prev[P[i + 1]] = P[i]
  <2>1. /\ P[i] = IF i <= Len(s) THEN S[i] ELSE R[i - Len(s)]
        /\ P[i + 1] = IF i + 1 <= Len(s) THEN S[i + 1] ELSE R[i + 1 - Len(s)]
    BY <1>1, <1>5, <1>9
  <2> HIDE DEF P
  <2>2. CASE i > Len(s)
    <3>1. /\ P[i] = R[i - Len(s)] /\ P[i + 1] = R[(i - Len(s)) + 1] /\ i - Len(s) \in 0 .. Len(q)
          /\ i - Len(s) \in 0 .. Len(q) + 1 /\ (i - Len(s)) + 1 \in 0 .. Len(q) + 1
          /\ i - Len(s) # 0 /\ (i - Len(s)) + 1 # 1
      <4>1. i \in Nat /\ i <= Len(s) + Len(q) /\ i + 1 - Len(s) = (i - Len(s)) + 1
        BY <1>1, <1>5, <1>9
      <4>2. ~(i <= Len(s)) /\ ~(i + 1 <= Len(s))
        BY <1>5, <2>2, <4>1
      <4>3. P[i] = R[i - Len(s)] /\ P[i + 1] = R[(i - Len(s)) + 1]
        BY <2>1, <4>1, <4>2
      <4>4. Len(q) \in Nat /\ Len(s) \in Nat
        BY <1>1, <1>5
      <4>5. /\ i - Len(s) \in 0 .. Len(q) /\ i - Len(s) \in 0 .. Len(q) + 1
            /\ (i - Len(s)) + 1 \in 0 .. Len(q) + 1 /\ i - Len(s) # 0 /\ (i - Len(s)) + 1 # 1
        BY <2>2, <4>1, <4>4
      <4> QED BY <4>3, <4>5
    <3> DEFINE j == i - Len(s)
    <3> HIDE DEF j
    <3>2. R[j] # Head0 /\ R[j + 1] # y
      BY <1>1, <1>3, <1>7, <3>1 DEF y, j
    <3>3. R[j] \in Node /\ R[j + 1] \in Node /\ R[j] \notin ToSet(s) /\ R[j + 1] \notin ToSet(s)
      BY <1>1, <1>6, <3>1 DEF j
    <3>4. l.next[R[j]] = R[j + 1] /\ l.prev[R[j + 1]] = R[j]
      BY <1>4, <3>1 DEF j
    <3> QED BY <1>10, <3>1, <3>2, <3>3, <3>4 DEF j
  <2>3. CASE i <= Len(s)
    <3>1. i \in 0 .. Len(s) /\ P[i] = S[i]
      BY <1>1, <1>5, <1>9, <2>1, <2>3
    <3>2. P[i + 1] = S[i + 1]
      <4>1. CASE i = Len(s)
        BY <1>5, <1>11, <2>1, <4>1 DEF y
      <4>2. CASE i # Len(s)
        <5>1. i + 1 <= Len(s)
          BY <1>5, <2>3, <3>1, <4>2
        <5> QED BY <2>1, <5>1
      <4> QED BY <4>1, <4>2
    <3> QED BY <1>10, <3>1, <3>2
  <2> QED BY <1>1, <1>5, <1>9, <2>2, <2>3
<1>14. c.next[Tail0] = None /\ c.prev[Head0] = None
  <2>1. Tail0 \notin ToSet(s)
    BY <1>5, NodesDistinct
  <2> QED BY <1>4, <1>8, <1>10, <2>1, NodesDistinct
<1>15. ASSUME NEW b \in Item, b \notin ToSet(t) PROVE c.next[b] = None /\ c.prev[b] = None
  <2>1. b \notin ToSet(q) /\ b \notin ToSet(s) /\ b \in Node /\ b # Tail0 /\ b # Head0
    BY <1>9, <1>15, NodesDistinct
  <2>2. b # y
    BY <1>6, <1>7, <2>1 DEF y
  <2> QED BY <1>4, <1>10, <2>1, <2>2
<1> HIDE DEF P
<1>16. IsList(c, t)
  BY <1>9, <1>10, <1>12, <1>13, <1>14, <1>15, ListByPlaces
<1> QED BY <1>8, <1>16 DEF c, t

LEMMA InListLinked ==
    ASSUME NEW l, NEW q, IsList(l, q), NEW b \in ToSet(q)
    PROVE  l.prev[b] # None /\ l.next[b] # None
<1> DEFINE R == Row(Head0, q, Tail0)
<1>1. Len(q) \in Nat /\ \A i \in 1 .. Len(q) : R[i] = q[i]
  BY ListRow
<1>2. R \in [0 .. Len(q) + 1 -> Node]
  BY ListRow
<1>3. q \in Seq(Item)
  BY DEF IsList
<1>4. PICK i \in 1 .. Len(q) : q[i] = b
  BY <1>3 DEF ToSet
<1>5. i \in 0 .. Len(q) /\ i - 1 \in 0 .. Len(q) /\ (i - 1) + 1 = i
  BY <1>1
<1>6. \A j \in 0 .. Len(q) : l.next[R[j]] = R[j + 1] /\ l.prev[R[j + 1]] = R[j]
  BY DEF IsList
<1> HIDE DEF R
<1>7. R[i - 1] \in Node /\ R[i + 1] \in Node /\ R[i] = b
  BY <1>1, <1>2, <1>4
<1>8. l.prev[R[(i - 1) + 1]] = R[i - 1] /\ l.next[R[i]] = R[i + 1]
  BY <1>5, <1>6
<1> QED BY <1>5, <1>7, <1>8, NodesDistinct

-----------------------------------------------------------------------------
(* The theorems *)

(* A step on the queue q that leads to t, in the terms of FreeQueue. *)
QueueStep(q, t) ==
    \/ \E n \in 1 .. Len(q) : t = SubSeq(q, n + 1, Len(q)) /\ call' = <<"popleft_n", SubSeq(q, 1, n)>>
    \/ \E i \in 1 .. Len(q) : t = RemoveAt(q, i) /\ call' = <<"remove", q[i]>>
    \/ \E s \in Seq(Item) :
          /\ s # <<>> /\ IsInjective(s) /\ ToSet(s) \cap ToSet(q) = {}
          /\ \/ t = q \o s /\ call' = <<"append_n", s>>
             \/ t = s \o q /\ call' = <<"prepend_n", s>>
    \/ t = q /\ call' = call

LEMMA BecomeList ==
    ASSUME NEW c, NEW t, IsList(c, t), Become(c)
    PROVE  IsList(Links, t)'
BY DEF IsList, Links, Become

LEMMA ListInit ==
    ASSUME Init
    PROVE  IsList(Links, Order) /\ num = Len(Order)
<1> DEFINE c == Splice([next |-> NoLinks, prev |-> NoLinks], Head0, Order, Tail0)
<1>1. IsList(c, Order)
  BY InitialList
<1>2. next = c.next /\ prev = c.prev /\ num = Len(Order)
  BY DEF Init
<1> HIDE DEF c
<1>3. IsList(Links, Order)
  BY <1>1, <1>2 DEF IsList, Links
<1> QED BY <1>2, <1>3

LEMMA ListNext ==
    ASSUME NEW q, IsList(Links, q), num = Len(q), [Next]_vars
    PROVE  \E t : IsList(Links, t)' /\ num' = Len(t) /\ QueueStep(q, t)
<1> DEFINE R == Row(Head0, q, Tail0)
<1>1. Len(q) \in Nat /\ \A i \in 1 .. Len(q) : R[i] = q[i]
  BY ListRow
<1>2. q \in Seq(Item) /\ IsInjective(q)
  BY DEF IsList
<1>3. ASSUME NEW n \in 1 .. num, PopleftN(n)
      PROVE  \E t : IsList(Links, t)' /\ num' = Len(t) /\ QueueStep(q, t)
  <2> DEFINE W == Forward(Links)
             ret == [i \in 1 .. n |-> W[i]]
             t == SubSeq(q, n + 1, Len(q))
             bs == {q[i] : i \in 1 .. n}
             c == Connect(Clear(Links, bs), Head0, R[n + 1])
  <2>1. \A i \in 0 .. Len(q) + 1 : W[i] = R[i]
    BY WalkIsRow
  <2>2. n \in 1 .. Len(q) /\ n + 1 \in 0 .. Len(q) + 1 /\ \A i \in 1 .. n : i \in 0 .. Len(q) + 1 /\ i \in 1 .. Len(q)
    BY <1>1
  <2> HIDE DEF R, W
  <2>3. ret = SubSeq(q, 1, n)
    <3>1. SubSeq(q, 1, n) = [i \in 1 .. n |-> q[i]]
      BY <1>1, <1>2, <2>2
    <3>2. \A i \in 1 .. n : W[i] = q[i]
      BY <1>1, <2>1, <2>2
    <3> QED BY <3>1, <3>2
  <2>4. ToSet(ret) = bs
    <3>1. \A i \in 1 .. n : W[i] = q[i]
      BY <1>1, <2>1, <2>2
    <3> QED BY <3>1 DEF ToSet
  <2>5. W[n + 1] = R[n + 1]
    BY <2>1, <2>2
  <2>6. Become(Connect(Clear(Links, ToSet(ret)), Head0, W[n + 1])) /\ call' = <<"popleft_n", ret>> /\ num' = num - n
    BY <1>3 DEF PopleftN, W
  <2>7. Become(c)
    BY <2>4, <2>5, <2>6
  <2>8. IsList(c, t)
    BY <2>2, PopList DEF R
  <2>9. Len(t) = Len(q) - n
    BY <1>1, <1>2, <2>2
  <2> HIDE DEF c, ret
  <2>10. IsList(Links, t)'
    BY <2>7, <2>8, BecomeList
  <2> QED BY <2>2, <2>3, <2>6, <2>9, <2>10 DEF QueueStep
<1>4. ASSUME NEW b \in Item, RemoveBlock(b)
      PROVE  \E t : IsList(Links, t)' /\ num' = Len(t) /\ QueueStep(q, t)
  <2>1. Links.prev[b] # None /\ Links.prev[b] = prev[b] /\ Links.next[b] = next[b]
    BY <1>4 DEF RemoveBlock, Links
  <2>2. PICK i \in 1 .. Len(q) : q[i] = b /\ Links.prev[b] = R[i - 1] /\ Links.next[b] = R[i + 1]
    BY <2>1, LinkedIsInList
  <2> DEFINE t == RemoveAt(q, i)
             c == Clear(Connect(Links, R[i - 1], R[i + 1]), {q[i]})
  <2> HIDE DEF R
  <2>3. Become(c) /\ call' = <<"remove", b>> /\ num' = num - 1
    BY <1>4, <2>1, <2>2 DEF RemoveBlock
  <2>4. IsList(c, t)
    BY RemoveList DEF R
  <2>5. Len(t) = Len(q) - 1
    <3> DEFINE u == SubSeq(q, 1, i - 1)
               v == SubSeq(q, i + 1, Len(q))
    <3>1. u \in Seq(Item) /\ Len(u) = i - 1
      BY <1>1, <1>2
    <3>2. v \in Seq(Item) /\ Len(v) = Len(q) - i
      BY <1>1, <1>2
    <3> HIDE DEF u, v
    <3>3. Len(u \o v) = Len(u) + Len(v)
      BY <3>1, <3>2
    <3>4. t = u \o v
      BY DEF RemoveAt, u, v
    <3> QED BY <1>1, <3>1, <3>2, <3>3, <3>4
  <2> HIDE DEF c
  <2>6. IsList(Links, t)'
    BY <2>3, <2>4, BecomeList
  <2> QED BY <2>2, <2>3, <2>5, <2>6 DEF QueueStep
<1>5. \A s \in Freed : s \in Seq(Item) /\ s # <<>> /\ IsInjective(s) /\ ToSet(s) \cap ToSet(q) = {}
  <2> SUFFICES ASSUME NEW s \in Freed
               PROVE  s \in Seq(Item) /\ s # <<>> /\ IsInjective(s) /\ ToSet(s) \cap ToSet(q) = {}
    OBVIOUS
  <2>1. PICK n \in 1 .. Cardinality(Unlinked) : s \in [1 .. n -> Unlinked]
    BY DEF Freed
  <2>2. IsInjective(s) /\ n \in Nat /\ n > 0
    BY DEF Freed
  <2>3. \A b \in Unlinked : b \in Item /\ b \notin ToSet(q)
    <3>1. \A b \in Unlinked : b \in Item /\ Links.prev[b] = None
      BY DEF Unlinked, Links
    <3> QED BY <3>1, InListLinked
  <2>4. s \in Seq(Item) /\ s # <<>>
    BY <2>1, <2>2, <2>3
  <2>5. \A x \in ToSet(s) : x \in Unlinked
    BY <2>1 DEF ToSet
  <2> QED BY <2>2, <2>3, <2>4, <2>5
<1>6. ASSUME NEW s \in Freed, AppendN(s)
      PROVE  \E t : IsList(Links, t)' /\ num' = Len(t) /\ QueueStep(q, t)
  <2> DEFINE t == q \o s
             c == Splice(Links, Links.prev[Tail0], s, Tail0)
  <2>1. Become(c) /\ call' = <<"append_n", s>> /\ num' = num + Len(s)
    BY <1>6 DEF AppendN, Links
  <2>2. IsList(c, t)
    BY <1>5, AppendList
  <2>3. Len(t) = Len(q) + Len(s)
    BY <1>2, <1>5
  <2> HIDE DEF c
  <2>4. IsList(Links, t)'
    BY <2>1, <2>2, BecomeList
  <2> QED BY <1>5, <2>1, <2>3, <2>4 DEF QueueStep
<1>7. ASSUME NEW s \in Freed, PrependN(s)
      PROVE  \E t : IsList(Links, t)' /\ num' = Len(t) /\ QueueStep(q, t)
  <2> DEFINE t == s \o q
             c == Splice(Links, Head0, s, Links.next[Head0])
  <2>1. Become(c) /\ call' = <<"prepend_n", s>> /\ num' = num + Len(s)
    BY <1>7 DEF PrependN, Links
  <2>2. IsList(c, t)
    BY <1>5, PrependList
  <2>3. Len(t) = Len(s) + Len(q) /\ Len(s) \in Nat
    BY <1>2, <1>5
  <2> HIDE DEF c
  <2>4. IsList(Links, t)'
    BY <2>1, <2>2, BecomeList
  <2>5. QueueStep(q, t)
    BY <1>5, <2>1 DEF QueueStep
  <2>6. num' = Len(t)
    BY <1>1, <2>1, <2>3
  <2> HIDE DEF t
  <2> QED BY <2>4, <2>5, <2>6
<1>8. CASE UNCHANGED vars
  <2>1. IsList(Links, q)' /\ num' = num /\ call' = call
    BY <1>8 DEF vars, Links, IsList
  <2> QED BY <2>1 DEF QueueStep
<1> QED BY <1>3, <1>4, <1>6, <1>7, <1>8 DEF Next

(* The links always describe one queue, whose length is num. *)
LEMMA ListInvariant == Spec => []ListInv
<1>1. Init => ListInv
  BY ListInit, OrderAssumption DEF ListInv
<1>2. ListInv /\ [Next]_vars => ListInv'
  <2> SUFFICES ASSUME ListInv, [Next]_vars PROVE ListInv'
    OBVIOUS
  <2>1. PICK q \in Seq(Item) : IsList(Links, q) /\ num = Len(q)
    BY DEF ListInv
  <2>2. PICK t : IsList(Links, t)' /\ num' = Len(t)
    BY <2>1, ListNext
  <2>3. t \in Seq(Item)
    BY <2>2 DEF IsList
  <2> QED BY <2>2, <2>3 DEF ListInv
<1> QED BY <1>1, <1>2, PTL DEF Spec

(* LinksConsistent: at every moment FreeKVCacheBlockQueue is the same list from
   both ends, num_free_blocks is its length, and a block has no links exactly
   when it is not in the list, for any number of blocks and any sequence of
   popleft_n, remove, append_n and prepend_n. *)
THEOREM LinksAreConsistent == Spec => []LinksConsistent
<1>1. ListInv => LinksConsistent
  <2> SUFFICES ASSUME NEW q \in Seq(Item), IsList(Links, q), num = Len(q)
               PROVE  LinksConsistent
    BY DEF ListInv
  <2> DEFINE R == Row(Head0, q, Tail0)
  <2>1. GetAllFreeBlocks = q
    BY WalkGivesQueue DEF GetAllFreeBlocks
  <2>2. Len(q) \in Nat /\ R[0] = Head0 /\ R[Len(q) + 1] = Tail0
    BY ListRow
  <2>3. \A i \in 1 .. Len(q) : R[i] = q[i]
    BY ListRow
  <2>4. \A i, j \in 0 .. Len(q) + 1 : R[i] = R[j] => i = j
    BY ListRow
  <2>5. /\ \A i \in 0 .. Len(q) : next[R[i]] = R[i + 1] /\ prev[R[i + 1]] = R[i]
        /\ next[Tail0] = None /\ prev[Head0] = None
        /\ \A b \in Item : b \notin ToSet(q) => next[b] = None /\ prev[b] = None
    BY DEF IsList, Links
  <2> HIDE DEF R
  <2>6. \A x \in Node : (\E i \in 0 .. Len(q) + 1 : x = R[i]) \/ (x \in Item /\ x \notin ToSet(q))
    <3> SUFFICES ASSUME NEW x \in Node, ~(x \in Item /\ x \notin ToSet(q))
                 PROVE  \E i \in 0 .. Len(q) + 1 : x = R[i]
      OBVIOUS
    <3>1. CASE x \in ToSet(q)
      <4>1. PICK i \in 1 .. Len(q) : x = q[i]
        BY <3>1 DEF ToSet
      <4>2. i \in 0 .. Len(q) + 1 /\ x = R[i]
        BY <2>2, <2>3, <4>1
      <4> QED BY <4>2
    <3>2. CASE x = Head0 \/ x = Tail0
      <4>1. 0 \in 0 .. Len(q) + 1 /\ Len(q) + 1 \in 0 .. Len(q) + 1
        BY <2>2
      <4> QED BY <2>2, <3>2, <4>1
    <3> QED BY <3>1, <3>2 DEF Node
  <2>7. ASSUME NEW x \in Node, NEW y \in Node PROVE next[x] = y <=> prev[y] = x
    <3>1. ASSUME next[x] = y PROVE prev[y] = x
      <4>1. next[x] # None
        BY <3>1, NodesDistinct
      <4>2. PICK i \in 0 .. Len(q) + 1 : x = R[i]
        BY <2>5, <2>6, <4>1
      <4>3. i # Len(q) + 1
        BY <2>2, <2>5, <4>1, <4>2
      <4>4. i \in 0 .. Len(q)
        BY <2>2, <4>3
      <4> QED BY <2>5, <3>1, <4>2, <4>4
    <3>2. ASSUME prev[y] = x PROVE next[x] = y
      <4>1. prev[y] # None
        BY <3>2, NodesDistinct
      <4>2. PICK i \in 0 .. Len(q) + 1 : y = R[i]
        BY <2>5, <2>6, <4>1
      <4>3. i # 0
        BY <2>2, <2>5, <4>1, <4>2
      <4>4. i - 1 \in 0 .. Len(q) /\ (i - 1) + 1 = i
        BY <2>2, <4>3
      <4>5. next[R[i - 1]] = R[(i - 1) + 1] /\ prev[R[(i - 1) + 1]] = R[i - 1]
        BY <2>5, <4>4
      <4> QED BY <3>2, <4>2, <4>4, <4>5
    <3> QED BY <3>1, <3>2
  <2>8. ASSUME NEW b \in Item PROVE b \in ToSet(q) <=> ~(prev[b] = None /\ next[b] = None)
    <3>1. b \in ToSet(q) => Links.prev[b] # None
      BY InListLinked
    <3> QED BY <2>5, <3>1 DEF Links
  <2> QED BY <2>1, <2>5, <2>7, <2>8 DEF LinksConsistent
<1> QED BY <1>1, ListInvariant, PTL

(* ImplementsFreeQueue: what the linked list does is what BlockPool relies on,
   call by call and result by result: popleft_n takes the oldest blocks, remove
   takes out one block and keeps the order of the others, append_n and
   prepend_n add blocks at the ends in the order given. *)
THEOREM LinkedListImplementsQueue == Spec => ImplementsFreeQueue
<1>1. Init => Abstract!Init
  <2> SUFFICES ASSUME Init PROVE Abstract!Init
    OBVIOUS
  <2>1. GetAllFreeBlocks = Order
    BY ListInit, WalkGivesQueue DEF GetAllFreeBlocks
  <2>2. Order \in [1 .. Cardinality(Item) -> Item] /\ IsInjective(Order)
    BY BlocksFinite, OrderAssumption
  <2>3. call = <<"init">>
    BY DEF Init
  <2> QED BY <2>1, <2>2, <2>3 DEF Abstract!Init, Abstract!IsInjective, IsInjective, Abstract!Cardinality, Cardinality
<1>2. ListInv /\ [Next]_vars => [Abstract!Next]_<<GetAllFreeBlocks, call>>
  <2> SUFFICES ASSUME ListInv, [Next]_vars
               PROVE  [Abstract!Next]_<<GetAllFreeBlocks, call>>
    OBVIOUS
  <2>1. PICK q \in Seq(Item) : IsList(Links, q) /\ num = Len(q)
    BY DEF ListInv
  <2>2. PICK t : IsList(Links, t)' /\ num' = Len(t) /\ QueueStep(q, t)
    BY <2>1, ListNext, Zenon
  <2>3. GetAllFreeBlocks = q /\ GetAllFreeBlocks' = t
    <3>1. IsList(Links', t)
      BY <2>2 DEF IsList
    <3>2. FreeBlocksOf(Links') = t
      BY <3>1, WalkGivesQueue
    <3>3. FreeBlocksOf(Links) = q
      BY <2>1, WalkGivesQueue
    <3> QED BY <3>2, <3>3 DEF GetAllFreeBlocks, FreeBlocksOf, Forward
  <2>4. Len(q) \in Nat /\ DOMAIN q = 1 .. Len(q)
    OBVIOUS
  <2>5. ASSUME NEW n \in 1 .. Len(q), t = SubSeq(q, n + 1, Len(q)),
               call' = <<"popleft_n", SubSeq(q, 1, n)>>
        PROVE  Abstract!Next
    <3>1. n <= Len(q)
      BY <2>4
    <3>2. Abstract!PopN(n)
      BY <2>3, <2>5, <3>1 DEF Abstract!PopN
    <3> QED BY <2>3, <3>2 DEF Abstract!Next
  <2>6. ASSUME NEW i \in 1 .. Len(q), t = RemoveAt(q, i), call' = <<"remove", q[i]>>
        PROVE  Abstract!Next
    <3>1. Abstract!TakeOut(q[i])
      BY <2>3, <2>4, <2>6 DEF Abstract!TakeOut, Abstract!RemoveAt, RemoveAt
    <3>2. q[i] \in Item
      BY <2>4
    <3> QED BY <3>1, <3>2 DEF Abstract!Next
  <2>7. ASSUME NEW s \in Seq(Item), s # <<>>, IsInjective(s), ToSet(s) \cap ToSet(q) = {},
               \/ t = q \o s /\ call' = <<"append_n", s>>
               \/ t = s \o q /\ call' = <<"prepend_n", s>>
        PROVE  Abstract!Next
    <3>1. s \in Abstract!Outside
      <4>1. Len(s) \in 1 .. Cardinality(Item)
        <5>1. Len(s) <= Len(Order) /\ Cardinality(Item) = Len(Order)
          BY <2>7, BlocksFinite
        <5>2. Len(s) \in Nat /\ Len(s) # 0
          BY <2>7
        <5> QED BY <5>1, <5>2, BlocksFinite
      <4>2. s \in [1 .. Len(s) -> Item \ ToSet(q)]
        <5>1. \A i \in 1 .. Len(s) : s[i] \in Item /\ s[i] \in ToSet(s)
          BY DEF ToSet
        <5> QED BY <2>7, <5>1
      <4>3. Abstract!Cardinality(Item) = Cardinality(Item)
        BY DEF Abstract!Cardinality, Cardinality
      <4>4. Abstract!ToSet(GetAllFreeBlocks) = ToSet(q) /\ Abstract!IsInjective(s)
        BY <2>3, <2>7 DEF Abstract!ToSet, ToSet, Abstract!IsInjective, IsInjective
      <4> DEFINE Free == UNION {[1 .. n -> Item \ ToSet(q)] : n \in 1 .. Cardinality(Item)}
      <4>5. s \in Free
        <5>1. [1 .. Len(s) -> Item \ ToSet(q)]
                 \in {[1 .. n -> Item \ ToSet(q)] : n \in 1 .. Cardinality(Item)}
          BY <4>1
        <5> QED BY <4>2, <5>1
      <4>6. Abstract!Outside = {u \in Free : Abstract!IsInjective(u)}
        <5>1. Abstract!Outside = {u \in UNION {[1 .. n -> Item \ Abstract!ToSet(GetAllFreeBlocks)] :
                                                n \in 1 .. Abstract!Cardinality(Item)} :
                                     Abstract!IsInjective(u)}
          BY DEF Abstract!Outside
        <5> QED BY <4>3, <4>4, <5>1
      <4> HIDE DEF Free
      <4> QED BY <4>4, <4>5, <4>6
    <3>2. Abstract!PushBack(s) \/ Abstract!PushFront(s)
      BY <2>3, <2>7 DEF Abstract!PushBack, Abstract!PushFront
    <3> QED BY <3>1, <3>2 DEF Abstract!Next
  <2>8. CASE \E n \in 1 .. Len(q) :
               t = SubSeq(q, n + 1, Len(q)) /\ call' = <<"popleft_n", SubSeq(q, 1, n)>>
    BY <2>5, <2>8
  <2>9. CASE \E i \in 1 .. Len(q) : t = RemoveAt(q, i) /\ call' = <<"remove", q[i]>>
    BY <2>6, <2>9
  <2>10. CASE \E s \in Seq(Item) :
                /\ s # <<>> /\ IsInjective(s) /\ ToSet(s) \cap ToSet(q) = {}
                /\ \/ t = q \o s /\ call' = <<"append_n", s>>
                   \/ t = s \o q /\ call' = <<"prepend_n", s>>
    BY <2>7, <2>10
  <2>11. CASE t = q /\ call' = call
    BY <2>3, <2>11
  <2> QED
    <3>1. QueueStep(q, t)
      BY <2>2
    <3> QED BY <2>8, <2>9, <2>10, <2>11, <3>1, Zenon DEF QueueStep
<1> QED BY <1>1, <1>2, ListInvariant, PTL DEF Spec, ImplementsFreeQueue, Abstract!Spec
=============================================================================
