------------------------- MODULE EncoderCacheProofs -------------------------
(***************************************************************************)
(* Proofs about EncoderCache, for any number of requests and inputs and    *)
(* any sizes: the manager's books are right, the worker never holds more   *)
(* than the cache may, and, when requests are served first come first      *)
(* served, no step misses an output.                                       *)
(***************************************************************************)
EXTENDS EncoderCache, FiniteSetTheorems, WellFoundedInduction, TLAPS

-----------------------------------------------------------------------------
(* Sizes *)

LEMMA ConstantTypes ==
    /\ NumReqs \in Nat /\ CacheSize \in Nat /\ Budget \in Nat /\ Priority \in BOOLEAN
    /\ IsFiniteSet(Hash) /\ Req \subseteq Nat
    /\ \A h \in Hash : Size[h] \in 1 .. CacheSize
    /\ \A r \in Req : Prompt[r] \in Nat
<1>1. Size \in [Hash -> 1 .. CacheSize] /\ Prompt \in [Req -> Nat]
  BY EncoderAssumption
<1>2. Req \subseteq Nat
  BY EncoderAssumption DEF Req
<1> QED BY <1>1, <1>2, EncoderAssumption

LEMMA ItemTypes ==
    ASSUME NEW r \in Req
    PROVE  /\ Len(Items[r]) \in Nat /\ Inputs(r) = 1 .. Len(Items[r])
           /\ \A i \in Inputs(r) :
                 /\ Items[r][i].hash \in Hash /\ HashOf(r, i) \in Hash
                 /\ Items[r][i].start \in Nat /\ Items[r][i].len \in Nat
           /\ \A i, j \in Inputs(r) :
                 i < j => Items[r][i].start + Items[r][i].len <= Items[r][j].start
<1>1. /\ Items[r] \in Seq([hash : Hash, start : Nat, len : Nat])
      /\ \A i, j \in Inputs(r) :
            i < j => Items[r][i].start + Items[r][i].len <= Items[r][j].start
  BY EncoderAssumption
<1>2. Len(Items[r]) \in Nat /\ Inputs(r) = 1 .. Len(Items[r])
  BY <1>1 DEF Inputs
<1>3. \A i \in Inputs(r) : Items[r][i] \in [hash : Hash, start : Nat, len : Nat]
  <2> DEFINE R == [hash : Hash, start : Nat, len : Nat]
             q == Items[r]
  <2>1. q \in Seq(R) /\ Inputs(r) = 1 .. Len(q)
    BY <1>1, <1>2
  <2> HIDE DEF R, q
  <2>2. \A i \in Inputs(r) : q[i] \in R
    BY <2>1
  <2> QED BY <2>2 DEF R, q
<1>4. \A i \in Inputs(r) :
         /\ Items[r][i].hash \in Hash /\ HashOf(r, i) \in Hash
         /\ Items[r][i].start \in Nat /\ Items[r][i].len \in Nat
  BY <1>3 DEF HashOf
<1> QED BY <1>1, <1>2, <1>4

LEMMA HashesType ==
    ASSUME NEW r \in Req, NEW inputs \in SUBSET Inputs(r)
    PROVE  Hashes(r, inputs) \in SUBSET Hash
BY ItemTypes DEF Hashes

LEMMA HashesUnion ==
    ASSUME NEW r, NEW I, NEW J
    PROVE  /\ Hashes(r, I \cup J) = Hashes(r, I) \cup Hashes(r, J)
           /\ Hashes(r, {}) = {}
BY DEF Hashes

(* Finitely many embeddings. *)
LEMMA SizeFinite ==
    ASSUME NEW S \in SUBSET Hash
    PROVE  IsFiniteSet(Embeddings(S)) /\ SizeOf(S) \in Nat
<1>1. IsFiniteSet(1 .. CacheSize)
  <2>1. PICK n \in Nat : n = CacheSize
    BY ConstantTypes
  <2>2. IsFiniteSet(1 .. n)
    BY FS_Interval
  <2> QED BY <2>1, <2>2
<1>2. IsFiniteSet(Hash \X (1 .. CacheSize))
  BY <1>1, ConstantTypes, FS_Product
<1>3. Embeddings(S) \subseteq Hash \X (1 .. CacheSize)
  BY ConstantTypes DEF Embeddings
<1>4. IsFiniteSet(Embeddings(S))
  BY <1>2, <1>3, FS_Subset
<1> QED BY <1>4, FS_CardinalityType DEF SizeOf

LEMMA SizeEmpty == SizeOf({}) = 0
<1>1. Embeddings({}) = {}
  BY DEF Embeddings
<1> QED BY <1>1, FS_EmptySet DEF SizeOf

LEMMA SizeOne ==
    ASSUME NEW h \in Hash
    PROVE  SizeOf({h}) = Size[h] /\ Size[h] \in Nat
<1>1. PICK n \in Nat : n = Size[h]
  BY ConstantTypes
<1>2. IsFiniteSet(1 .. n) /\ Cardinality(1 .. n) = n
  <2>1. IsFiniteSet(1 .. n) /\ Cardinality(1 .. n) = IF 1 > n THEN 0 ELSE n - 1 + 1
    BY FS_Interval
  <2> QED BY <2>1
<1>3. IsFiniteSet({h}) /\ Cardinality({h}) = 1
  BY FS_Singleton
<1>4. Cardinality({h} \X (1 .. n)) = 1 * n
  BY <1>2, <1>3, FS_Product
<1>5. Embeddings({h}) = {h} \X (1 .. n)
  BY <1>1 DEF Embeddings
<1>6. SizeOf({h}) = 1 * n
  BY <1>4, <1>5, Zenon DEF SizeOf
<1> QED BY <1>1, <1>6

(* The size of disjoint sets of outputs is the sum of their sizes. *)
LEMMA SizeDisjoint ==
    ASSUME NEW S \in SUBSET Hash, NEW T \in SUBSET Hash, S \cap T = {}
    PROVE  SizeOf(S \cup T) = SizeOf(S) + SizeOf(T)
<1>1. Embeddings(S \cup T) = Embeddings(S) \cup Embeddings(T)
  BY DEF Embeddings
<1>2. Embeddings(S) \cap Embeddings(T) = {}
  <2> SUFFICES ASSUME NEW e \in Embeddings(S), e \in Embeddings(T) PROVE FALSE
    OBVIOUS
  <2>1. PICK h \in S : e \in {h} \X (1 .. Size[h])
    BY DEF Embeddings
  <2>2. PICK g \in T : e \in {g} \X (1 .. Size[g])
    BY DEF Embeddings
  <2>3. e[1] = h /\ e[1] = g
    BY <2>1, <2>2
  <2> QED BY <2>3
<1>3. IsFiniteSet(Embeddings(S)) /\ IsFiniteSet(Embeddings(T))
  BY SizeFinite
<1>4. Cardinality(Embeddings(S) \cup Embeddings(T)) =
         Cardinality(Embeddings(S)) + Cardinality(Embeddings(T)) - Cardinality({})
  BY <1>2, <1>3, FS_Union
<1>5. Cardinality({}) = 0
  BY FS_EmptySet
<1>6. SizeOf(S) \in Nat /\ SizeOf(T) \in Nat
  BY SizeFinite
<1>7. SizeOf(S \cup T) = SizeOf(S) + SizeOf(T) - Cardinality({})
  BY <1>1, <1>4, Zenon DEF SizeOf
<1> QED BY <1>5, <1>6, <1>7

LEMMA SizeSubset ==
    ASSUME NEW T \in SUBSET Hash, NEW S \in SUBSET T
    PROVE  /\ SizeOf(S) \in Nat /\ SizeOf(T) \in Nat /\ SizeOf(S) <= SizeOf(T)
           /\ SizeOf(T \ S) = SizeOf(T) - SizeOf(S)
<1>1. S \in SUBSET Hash /\ T \ S \in SUBSET Hash /\ S \cap (T \ S) = {} /\ S \cup (T \ S) = T
  OBVIOUS
<1>2. SizeOf(T) = SizeOf(S) + SizeOf(T \ S)
  BY <1>1, SizeDisjoint
<1>3. SizeOf(S) \in Nat /\ SizeOf(T) \in Nat /\ SizeOf(T \ S) \in Nat
  BY <1>1, SizeFinite
<1> QED BY <1>2, <1>3

-----------------------------------------------------------------------------
(* Sequences *)

LEMMA LeastNat ==
    ASSUME NEW T \in SUBSET Nat, T # {}
    PROVE  \E x \in T : \A y \in T : x <= y
<1> DEFINE Less == OpToRel(<, Nat)
<1>1. IsWellFoundedOn(Less, Nat)
  BY NatLessThanWellFounded
<1>2. \A x, y \in Nat : <<y, x>> \in Less <=> y < x
  BY DEF OpToRel
<1> HIDE DEF Less
<1>3. PICK x \in T : \A y \in T : ~(<<y, x>> \in Less)
  BY <1>1, WFMin
<1>4. ASSUME NEW y \in T PROVE x <= y
  <2>1. x \in Nat /\ y \in Nat
    OBVIOUS
  <2>2. ~(y < x)
    BY <1>2, <1>3, <2>1
  <2> QED BY <2>1, <2>2
<1> QED BY <1>4

(* A set of natural numbers that contains 0 and, up to n, the successor of
   each of its elements contains every number up to n. *)
LEMMA UpTo ==
    ASSUME NEW n \in Nat, NEW T, 0 \in T,
           \A k \in 0 .. n : k < n /\ k \in T => k + 1 \in T
    PROVE  \A k \in 0 .. n : k \in T
<1> DEFINE U == {k \in 0 .. n : k \notin T}
<1>1. ASSUME U # {} PROVE FALSE
  <2>1. PICK x \in U : \A y \in U : x <= y
    <3>1. U \in SUBSET Nat
      OBVIOUS
    <3> HIDE DEF U
    <3> QED BY <1>1, <3>1, LeastNat
  <2>2. x \in 0 .. n /\ x \notin T /\ x # 0
    BY <2>1
  <2>3. x - 1 \in 0 .. n /\ x - 1 < n /\ (x - 1) + 1 = x /\ ~(x <= x - 1)
    BY <2>2
  <2>4. x - 1 \in T
    BY <2>1, <2>3
  <2> QED BY <2>2, <2>3, <2>4
<1> QED BY <1>1

LEMMA AppendRange ==
    ASSUME NEW S, NEW q \in Seq(S), NEW x \in S
    PROVE  /\ Append(q, x) \in Seq(S) /\ Range(Append(q, x)) = Range(q) \cup {x}
           /\ x \notin Range(q) /\ IsInjective(q) => IsInjective(Append(q, x))
<1> DEFINE n == Len(q)
           a == Append(q, x)
<1>1. n \in Nat /\ DOMAIN q = 1 .. n
  OBVIOUS
<1>2. a \in Seq(S) /\ DOMAIN a = 1 .. n + 1 /\ a[n + 1] = x /\ \A i \in 1 .. n : a[i] = q[i]
  OBVIOUS
<1>3. \A i \in 1 .. n + 1 : i \in 1 .. n \/ i = n + 1
  BY <1>1
<1>4. 1 .. n \subseteq 1 .. n + 1 /\ n + 1 \in 1 .. n + 1
  BY <1>1
<1> HIDE DEF n, a
<1>5. Range(a) = Range(q) \cup {x}
  BY <1>1, <1>2, <1>3, <1>4 DEF Range
<1>6. ASSUME x \notin Range(q), IsInjective(q) PROVE IsInjective(a)
  <2>1. \A i \in 1 .. n : q[i] # x
    BY <1>1, <1>6 DEF Range
  <2> QED BY <1>1, <1>2, <1>3, <1>6, <2>1 DEF IsInjective
<1> QED BY <1>2, <1>5, <1>6 DEF a

(* The steps of Without. *)
LEMMA WithoutSteps ==
    ASSUME NEW S, NEW s \in Seq(S), NEW X
    PROVE  \E f : /\ f = [k \in 0 .. Len(s) |->
                             IF k = 0 THEN <<>>
                             ELSE IF s[k] \in X THEN f[k - 1] ELSE Append(f[k - 1], s[k])]
                  /\ Without(s, X) = f[Len(s)]
<1> DEFINE n == Len(s)
           G(f, l) == [k \in 0 .. l |-> IF k = 0 THEN <<>>
                          ELSE IF s[k] \in X THEN f[k - 1] ELSE Append(f[k - 1], s[k])]
           T == {l \in Nat : \E f : f = G(f, l)}
<1>1. n \in Nat
  OBVIOUS
<1>2. 0 \in T
  <2> DEFINE f == [k \in 0 .. 0 |-> <<>>]
  <2>1. f = G(f, 0)
    OBVIOUS
  <2> HIDE DEF f, G
  <2> QED BY <2>1
<1>3. ASSUME NEW l \in 0 .. n, l < n, l \in T PROVE l + 1 \in T
  <2>1. PICK f : f = G(f, l)
    BY <1>3
  <2>2. l \in Nat /\ l + 1 \in Nat
    BY <1>1
  <2> DEFINE g == [k \in 0 .. l + 1 |->
                      IF k <= l THEN f[k]
                      ELSE IF s[k] \in X THEN f[k - 1] ELSE Append(f[k - 1], s[k])]
  <2>3. \A k \in 0 .. l + 1 : g[k] = G(g, l + 1)[k]
    <3> SUFFICES ASSUME NEW k \in 0 .. l + 1
                 PROVE  g[k] = IF k = 0 THEN <<>>
                          ELSE IF s[k] \in X THEN g[k - 1] ELSE Append(g[k - 1], s[k])
      OBVIOUS
    <3>1. k # 0 => k - 1 \in 0 .. l + 1 /\ k - 1 <= l
      BY <2>2
    <3>2. k # 0 => g[k - 1] = f[k - 1]
      BY <3>1
    <3>3. \A j \in 0 .. l : f[j] = IF j = 0 THEN <<>>
                          ELSE IF s[j] \in X THEN f[j - 1] ELSE Append(f[j - 1], s[j])
      BY <2>1, Zenon
    <3>4. k <= l => f[k] = IF k = 0 THEN <<>>
                          ELSE IF s[k] \in X THEN f[k - 1] ELSE Append(f[k - 1], s[k])
      <4>1. k <= l => k \in 0 .. l
        BY <2>2
      <4> QED BY <3>3, <4>1, Zenon
    <3>5. k > l => k # 0
      BY <2>2
    <3> QED BY <2>2, <3>2, <3>4, <3>5
  <2>4. g = G(g, l + 1)
    BY <2>3
  <2> HIDE DEF g, G
  <2> QED BY <2>2, <2>4
<1> HIDE DEF T
<1>4. \A l \in 0 .. n : l \in T
  BY <1>1, <1>2, <1>3, UpTo
<1>5. n \in T
  BY <1>1, <1>4
<1>6. \E f : f = G(f, n)
  BY <1>5 DEF T
<1> DEFINE W == CHOOSE f : f = G(f, n)
<1>7. W = G(W, n)
  <2> HIDE DEF G
  <2> QED BY <1>6
<1>8. Without(s, X) = W[n]
  BY DEF Without
<1> HIDE DEF W
<1> QED BY <1>7, <1>8

(* Without keeps the other elements, and does not repeat one. *)
LEMMA WithoutProperties ==
    ASSUME NEW S, NEW s \in Seq(S), NEW X, IsInjective(s)
    PROVE  /\ Without(s, X) \in Seq(S)
           /\ Range(Without(s, X)) = Range(s) \ X
           /\ IsInjective(Without(s, X))
<1>1. PICK f : /\ f = [k \in 0 .. Len(s) |->
                          IF k = 0 THEN <<>>
                          ELSE IF s[k] \in X THEN f[k - 1] ELSE Append(f[k - 1], s[k])]
               /\ Without(s, X) = f[Len(s)]
  BY WithoutSteps
<1> DEFINE n == Len(s)
           Good(k) == /\ f[k] \in Seq(S) /\ IsInjective(f[k])
                      /\ Range(f[k]) = {s[i] : i \in 1 .. k} \ X
           T == {k \in 0 .. n : Good(k)}
<1>2. n \in Nat /\ DOMAIN s = 1 .. n
  OBVIOUS
<1>3. f[0] = <<>> /\ \A k \in 0 .. n : k # 0 => f[k] = IF s[k] \in X THEN f[k - 1] ELSE Append(f[k - 1], s[k])
  <2>1. \A k \in 0 .. n : f[k] = IF k = 0 THEN <<>>
                          ELSE IF s[k] \in X THEN f[k - 1] ELSE Append(f[k - 1], s[k])
    BY <1>1, Zenon
  <2>2. 0 \in 0 .. n
    BY <1>2
  <2> HIDE DEF n
  <2>3. f[0] = <<>>
    BY <2>1, <2>2, Zenon
  <2> QED BY <2>1, <2>3, Zenon
<1>4. 0 \in T
  <2>1. <<>> \in Seq(S) /\ IsInjective(<<>>) /\ Range(<<>>) = {}
    BY DEF IsInjective, Range
  <2>2. {s[i] : i \in 1 .. 0} = {}
    OBVIOUS
  <2>3. Good(0)
    BY <1>3, <2>1, <2>2
  <2>4. 0 \in 0 .. n
    BY <1>2
  <2> QED BY <2>3, <2>4
<1>5. ASSUME NEW k \in 0 .. n, k < n, k \in T PROVE k + 1 \in T
  <2>1. k + 1 \in 1 .. n /\ k + 1 # 0 /\ (k + 1) - 1 = k /\ k \in Nat
    BY <1>2, <1>5
  <2>2. Good(k)
    BY <1>5
  <2>3. f[k + 1] = IF s[k + 1] \in X THEN f[k] ELSE Append(f[k], s[k + 1])
    BY <1>3, <2>1
  <2>4. {s[i] : i \in 1 .. k + 1} = {s[i] : i \in 1 .. k} \cup {s[k + 1]}
    BY <2>1
  <2>5. CASE s[k + 1] \in X
    BY <2>1, <2>2, <2>3, <2>4, <2>5
  <2>6. CASE s[k + 1] \notin X
    <3>1. f[k] \in Seq(S) /\ s[k + 1] \in S /\ f[k + 1] = Append(f[k], s[k + 1])
      BY <1>2, <2>1, <2>2, <2>3, <2>6
    <3>2. s[k + 1] \notin Range(f[k])
      <4>1. \A i \in 1 .. k : i \in DOMAIN s /\ k + 1 \in DOMAIN s /\ i # k + 1
        BY <1>2, <2>1
      <4>2. \A i \in 1 .. k : s[i] # s[k + 1]
        BY <4>1 DEF IsInjective
      <4> QED BY <2>2, <4>2
    <3>3. Range(f[k + 1]) = Range(f[k]) \cup {s[k + 1]} /\ f[k + 1] \in Seq(S) /\ IsInjective(f[k + 1])
      <4> QED BY <2>2, <3>1, <3>2, AppendRange
    <3> QED BY <2>1, <2>2, <2>4, <2>6, <3>3
  <2> QED BY <2>5, <2>6
<1> HIDE DEF T
<1>6. \A k \in 0 .. n : k \in T
  BY <1>2, <1>4, <1>5, UpTo
<1>7. Good(n)
  <2>1. n \in T
    BY <1>2, <1>6
  <2> QED BY <2>1 DEF T
<1>8. {s[i] : i \in 1 .. n} = Range(s)
  BY <1>2 DEF Range
<1> QED BY <1>1, <1>7, <1>8
LEMMA ConcatRange ==
    ASSUME NEW S, NEW p \in Seq(S), NEW q \in Seq(S)
    PROVE  /\ p \o q \in Seq(S) /\ Range(p \o q) = Range(p) \cup Range(q)
           /\ IsInjective(p) /\ IsInjective(q) /\ Range(p) \cap Range(q) = {} => IsInjective(p \o q)
<1> DEFINE l == Len(p)
           n == Len(q)
           a == p \o q
<1>1. l \in Nat /\ n \in Nat /\ DOMAIN p = 1 .. l /\ DOMAIN q = 1 .. n
  OBVIOUS
<1>2. /\ a \in Seq(S) /\ DOMAIN a = 1 .. l + n
      /\ \A i \in 1 .. l : a[i] = p[i]
      /\ \A i \in 1 .. l + n : i \notin 1 .. l => i - l \in 1 .. n /\ a[i] = q[i - l]
  OBVIOUS
<1>3. \A i \in 1 .. n : i + l \in 1 .. l + n /\ i + l \notin 1 .. l /\ (i + l) - l = i
  BY <1>1
<1>4. 1 .. l \subseteq 1 .. l + n
  BY <1>1
<1>5. \A i, j \in 1 .. l + n : i - l = j - l => i = j
  BY <1>1
<1> HIDE DEF l, n, a
<1>6. Range(a) = Range(p) \cup Range(q)
  <2>1. \A i \in 1 .. n : a[i + l] = q[i]
    BY <1>2, <1>3
  <2>2. Range(a) \subseteq Range(p) \cup Range(q)
    BY <1>1, <1>2 DEF Range
  <2>3. Range(p) \subseteq Range(a)
    BY <1>1, <1>2, <1>4 DEF Range
  <2>4. Range(q) \subseteq Range(a)
    <3> SUFFICES ASSUME NEW i \in 1 .. n PROVE q[i] \in Range(a)
      BY <1>1 DEF Range
    <3>1. i + l \in DOMAIN a /\ a[i + l] = q[i]
      BY <1>2, <1>3, <2>1
    <3> QED BY <3>1, Zenon DEF Range
  <2> QED BY <2>2, <2>3, <2>4
<1>7. ASSUME IsInjective(p), IsInjective(q), Range(p) \cap Range(q) = {} PROVE IsInjective(a)
  <2>1. \A i \in 1 .. l, j \in 1 .. n : p[i] # q[j]
    BY <1>1, <1>7 DEF Range
  <2>2. \A i, j \in 1 .. l : p[i] = p[j] => i = j
    BY <1>1, <1>7 DEF IsInjective
  <2>3. \A i, j \in 1 .. n : q[i] = q[j] => i = j
    BY <1>1, <1>7 DEF IsInjective
  <2>4. ASSUME NEW i \in 1 .. l + n, NEW j \in 1 .. l + n, a[i] = a[j] PROVE i = j
    <3>1. CASE i \in 1 .. l /\ j \in 1 .. l
      BY <1>2, <2>2, <2>4, <3>1
    <3>2. CASE i \notin 1 .. l /\ j \notin 1 .. l
      BY <1>2, <1>5, <2>3, <2>4, <3>2
    <3>3. CASE i \in 1 .. l /\ j \notin 1 .. l
      BY <1>2, <2>1, <2>4, <3>3
    <3>4. CASE i \notin 1 .. l /\ j \in 1 .. l
      BY <1>2, <2>1, <2>4, <3>4
    <3> QED BY <3>1, <3>2, <3>3, <3>4
  <2> QED BY <1>2, <2>4 DEF IsInjective
<1> QED BY <1>2, <1>6, <1>7 DEF a

LEMMA TailFrom ==
    ASSUME NEW S, NEW q \in Seq(S), NEW k \in 0 .. Len(q)
    PROVE  LET t == SubSeq(q, k + 1, Len(q))
           IN  /\ t \in Seq(S) /\ Len(t) = Len(q) - k /\ DOMAIN t = 1 .. Len(q) - k
               /\ \A i \in 1 .. Len(q) - k : t[i] = q[i + k]
<1>1. PICK n \in Nat : n = Len(q)
  OBVIOUS
<1> DEFINE t == SubSeq(q, k + 1, n)
<1>2. t \in Seq(S)
  BY <1>1
<1>3. Len(t) = IF k + 1 <= n THEN n - (k + 1) + 1 ELSE 0
  BY <1>1
<1>4. Len(t) = n - k
  <2>1. k \in Nat /\ k <= n
    BY <1>1
  <2> HIDE DEF t
  <2> QED BY <1>3, <2>1
<1>5. \A i \in 1 .. n - k : t[i] = q[i + k]
  <2> TAKE i \in 1 .. n - k
  <2>1. t[i] = q[(k + 1) + i - 1]
    BY <1>1
  <2>2. (k + 1) + i - 1 = i + k
    BY <1>1
  <2> QED BY <2>1, <2>2
<1>6. DOMAIN t = 1 .. Len(t)
  <2> HIDE DEF t
  <2> QED BY <1>2
<1> QED BY <1>1, <1>2, <1>4, <1>5, <1>6

(* A sequence cut after its first k elements. *)
LEMMA CutRange ==
    ASSUME NEW S, NEW q \in Seq(S), IsInjective(q), NEW k \in 0 .. Len(q)
    PROVE  LET p == SubSeq(q, 1, k)
               t == SubSeq(q, k + 1, Len(q))
           IN  /\ p \in Seq(S) /\ t \in Seq(S) /\ IsInjective(t)
               /\ Range(q) = Range(p) \cup Range(t) /\ Range(p) \cap Range(t) = {}
               /\ k = Len(q) => Range(p) = Range(q)
<1> DEFINE n == Len(q)
           p == SubSeq(q, 1, k)
           t == SubSeq(q, k + 1, n)
<1>1. n \in Nat /\ k \in Nat /\ k <= n /\ DOMAIN q = 1 .. n
  OBVIOUS
<1>2. p \in Seq(S) /\ DOMAIN p = 1 .. k /\ \A i \in 1 .. k : p[i] = q[i]
  BY <1>1
<1>3. t \in Seq(S) /\ DOMAIN t = 1 .. n - k /\ \A i \in 1 .. n - k : t[i] = q[i + k]
  BY <1>1, TailFrom
<1>4. /\ \A i \in 1 .. n : i \in 1 .. k \/ (i - k \in 1 .. n - k /\ (i - k) + k = i)
      /\ \A i \in 1 .. n - k : i + k \in 1 .. n /\ i + k \notin 1 .. k
      /\ \A i \in 1 .. k : i \in 1 .. n
      /\ \A i, j \in 1 .. n - k : i + k = j + k => i = j
  BY <1>1
<1>5. \A i, j \in 1 .. n : q[i] = q[j] => i = j
  BY <1>1 DEF IsInjective
<1> HIDE DEF n, p, t
<1>6. IsInjective(t)
  BY <1>3, <1>4, <1>5 DEF IsInjective
<1>7. Range(p) \subseteq Range(q)
  BY <1>1, <1>2, <1>4 DEF Range
<1>8. Range(t) \subseteq Range(q)
  <2> SUFFICES ASSUME NEW i \in 1 .. n - k PROVE t[i] \in Range(q)
    BY <1>3 DEF Range
  <2>1. t[i] = q[i + k] /\ i + k \in 1 .. n
    BY <1>3, <1>4
  <2> QED BY <1>1, <2>1 DEF Range
<1>9. Range(q) \subseteq Range(p) \cup Range(t)
  <2> SUFFICES ASSUME NEW i \in 1 .. n PROVE q[i] \in Range(p) \cup Range(t)
    BY <1>1 DEF Range
  <2>1. CASE i \in 1 .. k
    BY <1>2, <2>1 DEF Range
  <2>2. CASE i - k \in 1 .. n - k /\ (i - k) + k = i
    <3>1. t[i - k] = q[i]
      BY <1>3, <2>2
    <3> QED BY <1>3, <2>2, <3>1 DEF Range
  <2> QED BY <1>4, <2>1, <2>2
<1>10. Range(p) \cap Range(t) = {}
  <2> SUFFICES ASSUME NEW i \in 1 .. k, NEW j \in 1 .. n - k, p[i] = t[j] PROVE FALSE
    BY <1>2, <1>3 DEF Range
  <2>1. q[i] = q[j + k] /\ i \in 1 .. n /\ j + k \in 1 .. n
    BY <1>2, <1>3, <1>4
  <2>2. i = j + k
    BY <1>5, <2>1
  <2> QED BY <1>4, <2>2
<1>11. k = n => Range(p) = Range(q)
  BY <1>1, <1>2 DEF Range
<1> QED BY <1>2, <1>3, <1>6, <1>7, <1>8, <1>9, <1>10, <1>11 DEF p, t, n

(* A sequence without the element at one position. *)
LEMMA RemoveAtProperties ==
    ASSUME NEW S, NEW q \in Seq(S), IsInjective(q), NEW x \in 1 .. Len(q)
    PROVE  LET d == RemoveAt(q, x)
           IN  /\ d \in Seq(S) /\ Len(d) = Len(q) - 1 /\ IsInjective(d)
               /\ \A i \in 1 .. Len(d) : d[i] = IF i < x THEN q[i] ELSE q[i + 1]
               /\ Range(d) = Range(q) \ {q[x]}
<1> DEFINE n == Len(q)
           d == RemoveAt(q, x)
           a == SubSeq(q, 1, x - 1)
           b == SubSeq(q, x + 1, n)
<1>1. n \in Nat /\ x \in Nat /\ x - 1 \in Nat /\ x - 1 <= n /\ x <= n /\ DOMAIN q = 1 .. n
  OBVIOUS
<1>2. a \in Seq(S) /\ Len(a) = x - 1 /\ \A i \in 1 .. x - 1 : a[i] = q[i]
  BY <1>1
<1>3. b \in Seq(S) /\ Len(b) = n - x /\ \A i \in 1 .. n - x : b[i] = q[i + x]
  <2>1. x \in 0 .. Len(q)
    BY <1>1
  <2> QED BY <2>1, TailFrom
<1>4. d = a \o b
  BY DEF RemoveAt
<1> HIDE DEF a, b, d
<1>5. d \in Seq(S) /\ Len(d) = n - 1
  <2>1. d \in Seq(S) /\ Len(d) = Len(a) + Len(b)
    <3>1. a \in Seq(S) /\ b \in Seq(S)
      BY <1>2, <1>3
    <3> QED BY <1>4, <3>1
  <2>2. (x - 1) + (n - x) = n - 1
    BY <1>1
  <2> QED BY <1>2, <1>3, <2>1, <2>2
<1>6. \A i \in 1 .. n - 1 : d[i] = IF i < x THEN q[i] ELSE q[i + 1]
  <2> SUFFICES ASSUME NEW i \in 1 .. n - 1 PROVE d[i] = IF i < x THEN q[i] ELSE q[i + 1]
    OBVIOUS
  <2>1. CASE i < x
    <3>1. i \in 1 .. x - 1
      BY <1>1, <2>1
    <3>2. d[i] = a[i]
      BY <1>2, <1>3, <1>4, <3>1
    <3> QED BY <1>2, <2>1, <3>1, <3>2
  <2>2. CASE ~(i < x)
    <3>1. i - (x - 1) \in 1 .. n - x /\ (i - (x - 1)) + x = i + 1
      BY <1>1, <2>2
    <3>2. d[i] = b[i - (x - 1)]
      <4>1. i \in 1 .. Len(a) + Len(b) /\ ~(i <= Len(a))
        BY <1>1, <1>2, <1>3, <2>2
      <4>2. d[i] = b[i - Len(a)]
        BY <1>2, <1>3, <1>4, <4>1
      <4> QED BY <1>2, <4>2
    <3> QED BY <1>3, <2>2, <3>1, <3>2
  <2> QED BY <2>1, <2>2
<1>7. \A i, j \in 1 .. n : q[i] = q[j] => i = j
  BY <1>1 DEF IsInjective
<1>8. DOMAIN d = 1 .. n - 1
  BY <1>1, <1>5
<1> HIDE DEF n
<1>9. IsInjective(d)
  <2> SUFFICES ASSUME NEW i \in 1 .. n - 1, NEW j \in 1 .. n - 1, d[i] = d[j] PROVE i = j
    BY <1>8 DEF IsInjective
  <2>1. /\ i \in 1 .. n /\ i + 1 \in 1 .. n /\ j \in 1 .. n /\ j + 1 \in 1 .. n
    BY <1>1
  <2>2. (IF i < x THEN i ELSE i + 1) = (IF j < x THEN j ELSE j + 1)
    BY <1>6, <1>7, <2>1
  <2> QED BY <1>1, <2>1, <2>2
<1>10. Range(d) = Range(q) \ {q[x]}
  <2>1. ASSUME NEW i \in 1 .. n - 1 PROVE d[i] \in Range(q) \ {q[x]}
    <3>1. i \in 1 .. n /\ i + 1 \in 1 .. n /\ x \in 1 .. n
      BY <1>1
    <3>2. CASE i < x
      <4>1. d[i] = q[i] /\ i # x
        BY <1>1, <1>6, <3>2
      <4> QED BY <1>1, <1>7, <3>1, <4>1 DEF Range
    <3>3. CASE ~(i < x)
      <4>1. d[i] = q[i + 1] /\ i + 1 # x
        BY <1>1, <1>6, <3>3
      <4> QED BY <1>1, <1>7, <3>1, <4>1 DEF Range
    <3> QED BY <3>2, <3>3
  <2>2. ASSUME NEW i \in 1 .. n, i # x PROVE q[i] \in Range(d)
    <3>1. CASE i < x
      <4>1. i \in 1 .. n - 1
        BY <1>1, <3>1
      <4>2. d[i] = q[i]
        BY <1>6, <3>1, <4>1
      <4> QED BY <1>8, <4>1, <4>2 DEF Range
    <3>2. CASE ~(i < x)
      <4>1. i - 1 \in 1 .. n - 1 /\ ~(i - 1 < x) /\ (i - 1) + 1 = i
        BY <1>1, <2>2, <3>2
      <4>2. d[i - 1] = q[i]
        BY <1>6, <4>1
      <4> QED BY <1>8, <4>1, <4>2 DEF Range
    <3> QED BY <3>1, <3>2
  <2>3. Range(d) \subseteq Range(q) \ {q[x]}
    BY <1>8, <2>1 DEF Range
  <2>4. Range(q) \ {q[x]} \subseteq Range(d)
    <3> SUFFICES ASSUME NEW y \in Range(q), y # q[x] PROVE y \in Range(d)
      OBVIOUS
    <3>1. PICK i \in 1 .. n : y = q[i]
      BY <1>1 DEF Range
    <3> QED BY <2>2, <3>1
  <2> QED BY <2>3, <2>4
<1> QED BY <1>5, <1>6, <1>9, <1>10 DEF d, n

LEMMA SetToSeqProperties ==
    ASSUME NEW S, IsFiniteSet(S)
    PROVE  SetToSeq(S) \in Seq(S) /\ Range(SetToSeq(S)) = S /\ IsInjective(SetToSeq(S))
<1>1. PICK n \in Nat : n = Cardinality(S)
  BY FS_CardinalityType
<1>2. PICK f : f \in Bijection(1 .. n, S)
  BY <1>1, FS_CardinalityType DEF ExistsBijection
<1>3. f \in [1 .. n -> S] /\ IsInjective(f)
  BY <1>2 DEF Bijection, Injection
<1>4. SetToSeq(S) \in [1 .. n -> S] /\ IsInjective(SetToSeq(S))
  <2>1. \E g \in [1 .. n -> S] : IsInjective(g)
    BY <1>3
  <2>2. SetToSeq(S) = CHOOSE g \in [1 .. n -> S] : IsInjective(g)
    BY <1>1, Zenon DEF SetToSeq
  <2> QED BY <2>1, <2>2
<1> DEFINE g == SetToSeq(S)
<1> HIDE DEF g
<1>5. g \in [1 .. n -> S] /\ IsInjective(g)
  BY <1>4 DEF g
<1>6. IsFiniteSet(1 .. n) /\ Cardinality(1 .. n) = n
  <2>1. IsFiniteSet(1 .. n) /\ Cardinality(1 .. n) = IF 1 > n THEN 0 ELSE n - 1 + 1
    BY FS_Interval
  <2> QED BY <2>1
<1>7. g \in Surjection(1 .. n, S)
  <2>1. g \in Injection(1 .. n, S)
    BY <1>5 DEF Injection
  <2> QED BY <1>1, <1>6, <2>1, FS_Injection
<1>8. Range(g) = S
  <2>1. \A y \in S : \E i \in 1 .. n : g[i] = y
    BY <1>7 DEF Surjection
  <2> QED BY <1>5, <2>1 DEF Range
<1>9. g \in Seq(S)
  BY <1>5
<1> QED BY <1>5, <1>8, <1>9 DEF g

(* The queue that requests enter. *)
LEMMA EnterProperties ==
    ASSUME NEW p \in Seq(Req), NEW q \in Seq(Req), IsInjective(p), IsInjective(q),
           Range(p) \cap Range(q) = {}
    PROVE  /\ Enter(p, q) \in Seq(Req) /\ IsInjective(Enter(p, q))
           /\ Range(Enter(p, q)) = Range(p) \cup Range(q)
<1>1. CASE ~Priority
  <2>1. Enter(p, q) = p \o q
    BY <1>1 DEF Enter
  <2> QED BY <2>1, ConcatRange
<1>2. CASE Priority
  <2> DEFINE all == [k \in 1 .. NumReqs |-> k]
             R == Range(p) \cup Range(q)
  <2>1. R \subseteq Req
    <3>1. Range(p) \subseteq Req /\ Range(q) \subseteq Req
      BY DEF Range
    <3> QED BY <3>1
  <2>2. all \in Seq(Req) /\ IsInjective(all) /\ Range(all) = Req
    BY ConstantTypes DEF Req, IsInjective, Range
  <2>3. Enter(p, q) = Without(all, Req \ R)
    BY <1>2 DEF Enter, Sorted
  <2> HIDE DEF all, R
  <2>4. /\ Without(all, Req \ R) \in Seq(Req) /\ IsInjective(Without(all, Req \ R))
        /\ Range(Without(all, Req \ R)) = Req \ (Req \ R)
    BY <2>2, WithoutProperties
  <2>5. Req \ (Req \ R) = R
    BY <2>1
  <2> QED BY <2>3, <2>4, <2>5 DEF R
<1> QED BY <1>1, <1>2, ConstantTypes

-----------------------------------------------------------------------------
(* The manager *)

CacheMap == UNION {[D -> SUBSET Req] : D \in SUBSET Hash}

CacheRecord ==
    [free : Int, freeable_slots : Int, cached : CacheMap, freeable : Seq(Hash),
     freed : SUBSET Hash, ids : [Req -> SUBSET Nat]]

(* The manager's books: what CacheAccounted says of them, and that no request
   holds an input whose output is not cached. *)
Slots(c) ==
    /\ c.free \in Nat /\ c.free = CacheSize - SizeOf(DOMAIN c.cached)
    /\ c.freeable_slots = c.free + SizeOf(Range(c.freeable))

Evictable(c) ==
    /\ Range(c.freeable) = {h \in DOMAIN c.cached : c.cached[h] = {}}
    /\ IsInjective(c.freeable)

References(c) == \A h \in DOMAIN c.cached : c.cached[h] = {r \in Req : h \in Hashes(r, c.ids[r])}

HeldCached(c) ==
    \A r \in Req : c.ids[r] \in SUBSET Inputs(r) /\ Hashes(r, c.ids[r]) \subseteq DOMAIN c.cached

Books(c) == c \in CacheRecord /\ Slots(c) /\ Evictable(c) /\ References(c) /\ HeldCached(c)

LEMMA CacheMapType ==
    ASSUME NEW D \in SUBSET Hash, NEW f \in [D -> SUBSET Req]
    PROVE  f \in CacheMap
BY DEF CacheMap

LEMMA CacheFields ==
    ASSUME NEW c \in CacheRecord
    PROVE  /\ c.free \in Int /\ c.freeable_slots \in Int /\ c.freeable \in Seq(Hash)
           /\ c.freed \in SUBSET Hash /\ c.ids \in [Req -> SUBSET Nat]
           /\ c.cached \in [DOMAIN c.cached -> SUBSET Req] /\ DOMAIN c.cached \in SUBSET Hash
           /\ Range(c.freeable) \in SUBSET Hash
<1>1. /\ c.free \in Int /\ c.freeable_slots \in Int /\ c.freeable \in Seq(Hash)
      /\ c.freed \in SUBSET Hash /\ c.ids \in [Req -> SUBSET Nat] /\ c.cached \in CacheMap
  BY DEF CacheRecord
<1>2. PICK D \in SUBSET Hash : c.cached \in [D -> SUBSET Req]
  BY <1>1, Zenon DEF CacheMap
<1>3. Range(c.freeable) \in SUBSET Hash
  BY <1>1 DEF Range
<1> QED BY <1>1, <1>2, <1>3

LEMMA EmptyBooks == Books(EmptyCache) /\ DOMAIN EmptyCache.cached = {} /\ EmptyCache.freed = {}
<1> DEFINE c == EmptyCache
<1>1. /\ c.free = CacheSize /\ c.freeable_slots = CacheSize /\ c.cached = <<>> /\ c.freeable = <<>>
      /\ c.freed = {} /\ c.ids = [r \in Req |-> {}]
  BY DEF EmptyCache
<1>2. DOMAIN c.cached = {} /\ Range(c.freeable) = {} /\ IsInjective(c.freeable)
  BY <1>1 DEF Range, IsInjective
<1>3. c \in CacheRecord
  <2>1. <<>> \in CacheMap
    <3>1. <<>> \in [{} -> SUBSET Req]
      OBVIOUS
    <3> QED BY <3>1, CacheMapType
  <2>2. CacheSize \in Int /\ <<>> \in Seq(Hash) /\ [r \in Req |-> {}] \in [Req -> SUBSET Nat]
    BY ConstantTypes
  <2> QED BY <2>1, <2>2 DEF EmptyCache, CacheRecord
<1>4. Slots(c)
  <2> HIDE DEF c
  <2>1. SizeOf(DOMAIN c.cached) = 0 /\ SizeOf(Range(c.freeable)) = 0
    BY <1>2, SizeEmpty
  <2> QED BY <1>1, <2>1, ConstantTypes DEF Slots
<1>5. Evictable(c) /\ References(c)
  BY <1>2 DEF Evictable, References
<1>6. HeldCached(c)
  BY <1>1, <1>2, HashesUnion DEF HeldCached
<1> QED BY <1>1, <1>2, <1>3, <1>4, <1>5, <1>6 DEF Books

(* Hits: nothing is evicted or entered. *)
LEMMA CheckBooks ==
    ASSUME NEW c, Books(c), NEW r \in Req, NEW I \in SUBSET Inputs(r),
           Hashes(r, I) \subseteq DOMAIN c.cached
    PROVE  LET d == check_and_update_cache(c, r, I)
           IN  /\ Books(d) /\ DOMAIN d.cached = DOMAIN c.cached
               /\ d.free = c.free /\ d.freed = c.freed
               /\ d.ids = [c.ids EXCEPT ![r] = @ \cup I]
<1> DEFINE H == Hashes(r, I)
           O == {h \in H : c.cached[h] = {}}
           C == [h \in DOMAIN c.cached |-> IF h \in H THEN c.cached[h] \cup {r} ELSE c.cached[h]]
           F == Without(c.freeable, O)
           J == [c.ids EXCEPT ![r] = @ \cup I]
           d == check_and_update_cache(c, r, I)
<1>1. c \in CacheRecord /\ Slots(c) /\ Evictable(c) /\ References(c) /\ HeldCached(c)
  BY DEF Books
<1>2. /\ c.free \in Int /\ c.freeable_slots \in Int /\ c.freeable \in Seq(Hash)
      /\ c.freed \in SUBSET Hash /\ c.ids \in [Req -> SUBSET Nat]
      /\ c.cached \in [DOMAIN c.cached -> SUBSET Req] /\ DOMAIN c.cached \in SUBSET Hash
      /\ Range(c.freeable) \in SUBSET Hash
  BY <1>1, CacheFields
<1>3. d = [c EXCEPT !.cached = C, !.ids = J, !.freeable = F, !.freeable_slots = @ - SizeOf(O)]
  BY <1>1 DEF check_and_update_cache, CacheRecord
<1> HIDE DEF d, C, F, J, O, H
<1>4. /\ d.free = c.free /\ d.freeable_slots = c.freeable_slots - SizeOf(O) /\ d.cached = C
      /\ d.freeable = F /\ d.freed = c.freed /\ d.ids = J
  BY <1>1, <1>3 DEF CacheRecord
<1>5. /\ DOMAIN C = DOMAIN c.cached
      /\ \A h \in DOMAIN C : C[h] = IF h \in H THEN c.cached[h] \cup {r} ELSE c.cached[h]
  BY DEF C
<1>6. H \in SUBSET Hash /\ H \subseteq DOMAIN c.cached
  BY HashesType DEF H
<1>7. O \in SUBSET Range(c.freeable) /\ O = {h \in H : c.cached[h] = {}}
  BY <1>1, <1>6 DEF Evictable, O
<1>8. F \in Seq(Hash) /\ Range(F) = Range(c.freeable) \ O /\ IsInjective(F)
  BY <1>1, <1>2, WithoutProperties DEF Evictable, F
<1>9. SizeOf(Range(c.freeable) \ O) = SizeOf(Range(c.freeable)) - SizeOf(O) /\ SizeOf(O) \in Nat
      /\ SizeOf(Range(c.freeable)) \in Nat
  BY <1>2, <1>7, SizeSubset
<1>10. I \in SUBSET Nat
  BY ItemTypes
<1>11. J \in [Req -> SUBSET Nat] /\ J[r] = c.ids[r] \cup I /\ \A q \in Req : q # r => J[q] = c.ids[q]
  BY <1>2, <1>10 DEF J
<1>12. d \in CacheRecord
  <2>1. C \in CacheMap
    <3>1. C \in [DOMAIN c.cached -> SUBSET Req]
      BY <1>2 DEF C
    <3> QED BY <1>2, <3>1, CacheMapType
  <2>2. c.freeable_slots - SizeOf(O) \in Int
    BY <1>2, <1>9
  <2> QED BY <1>1, <1>3, <1>8, <1>11, <2>1, <2>2 DEF CacheRecord
<1>13. Slots(d)
  <2>1. DOMAIN d.cached = DOMAIN c.cached /\ Range(d.freeable) = Range(c.freeable) \ O
    BY <1>4, <1>5, <1>8
  <2> QED BY <1>1, <1>2, <1>4, <1>9, <2>1 DEF Slots
<1>14. Evictable(d)
  <2>1. Range(F) = {h \in DOMAIN C : C[h] = {}}
    BY <1>1, <1>5, <1>6, <1>7, <1>8 DEF Evictable
  <2> QED BY <1>4, <1>8, <2>1 DEF Evictable
<1>15. Hashes(r, J[r]) = Hashes(r, c.ids[r]) \cup H
  BY <1>11, HashesUnion DEF H
<1>16. References(d)
  <2> SUFFICES ASSUME NEW h \in DOMAIN C PROVE C[h] = {q \in Req : h \in Hashes(q, J[q])}
    BY <1>4 DEF References
  <2>1. c.cached[h] = {q \in Req : h \in Hashes(q, c.ids[q])}
    BY <1>1, <1>5 DEF References
  <2>2. \A q \in Req : h \in Hashes(q, J[q]) <=> h \in Hashes(q, c.ids[q]) \/ (q = r /\ h \in H)
    BY <1>11, <1>15
  <2> QED BY <1>5, <2>1, <2>2
<1>17. HeldCached(d)
  <2> SUFFICES ASSUME NEW q \in Req
               PROVE  J[q] \in SUBSET Inputs(q) /\ Hashes(q, J[q]) \subseteq DOMAIN C
    BY <1>4 DEF HeldCached
  <2>1. c.ids[q] \in SUBSET Inputs(q) /\ Hashes(q, c.ids[q]) \subseteq DOMAIN C
    BY <1>1, <1>5 DEF HeldCached
  <2>2. CASE q = r
    BY <1>5, <1>6, <1>11, <1>15, <2>1, <2>2
  <2>3. CASE q # r
    BY <1>11, <2>1, <2>3
  <2> QED BY <2>2, <2>3
<1>18. Books(d)
  BY <1>12, <1>13, <1>14, <1>16, <1>17 DEF Books
<1> QED BY <1>4, <1>5, <1>18 DEF d, J

(* New entries, for which there is room. *)
LEMMA AllocateBooks ==
    ASSUME NEW c, Books(c), NEW r \in Req, NEW I \in SUBSET Inputs(r),
           Hashes(r, I) \cap DOMAIN c.cached = {}, SizeOf(Hashes(r, I)) <= c.free
    PROVE  LET d == allocate(c, r, I)
           IN  /\ Books(d) /\ DOMAIN d.cached = DOMAIN c.cached \cup Hashes(r, I)
               /\ d.freed = c.freed
               /\ d.ids = [c.ids EXCEPT ![r] = @ \cup I]
<1> DEFINE H == Hashes(r, I)
           D == DOMAIN c.cached
           C == [h \in D \cup H |->
                    IF h \in H THEN (IF h \in DOMAIN c.cached THEN c.cached[h] ELSE {}) \cup {r}
                    ELSE c.cached[h]]
           J == [c.ids EXCEPT ![r] = @ \cup I]
           d == allocate(c, r, I)
<1>1. c \in CacheRecord /\ Slots(c) /\ Evictable(c) /\ References(c) /\ HeldCached(c)
  BY DEF Books
<1>2. /\ c.free \in Int /\ c.freeable_slots \in Int /\ c.freeable \in Seq(Hash)
      /\ c.freed \in SUBSET Hash /\ c.ids \in [Req -> SUBSET Nat]
      /\ c.cached \in [D -> SUBSET Req] /\ D \in SUBSET Hash
      /\ Range(c.freeable) \in SUBSET Hash
  BY <1>1, CacheFields
<1>3. d = [c EXCEPT !.cached = C, !.ids = J, !.free = @ - SizeOf(H), !.freeable_slots = @ - SizeOf(H)]
  BY <1>1 DEF allocate, CacheRecord
<1>4. H \in SUBSET Hash /\ H \cap D = {} /\ SizeOf(H) <= c.free
  BY HashesType DEF H
<1>5. /\ DOMAIN C = D \cup H
      /\ \A h \in H : C[h] = {r}
      /\ \A h \in D : C[h] = c.cached[h]
  BY <1>4 DEF C
<1>6. I \in SUBSET Nat
  BY ItemTypes
<1>7. J \in [Req -> SUBSET Nat] /\ J[r] = c.ids[r] \cup I /\ \A q \in Req : q # r => J[q] = c.ids[q]
  BY <1>2, <1>6 DEF J
<1>8. C \in CacheMap
  <2>1. D \cup H \in SUBSET Hash
    BY <1>2, <1>4
  <2>2. \A h \in D \cup H : C[h] \in SUBSET Req
    BY <1>2, <1>5
  <2>3. C \in [D \cup H -> SUBSET Req]
    BY <2>2 DEF C
  <2> QED BY <2>1, <2>3, CacheMapType
<1> HIDE DEF d, C, J, H, D
<1>9. /\ d.free = c.free - SizeOf(H) /\ d.freeable_slots = c.freeable_slots - SizeOf(H) /\ d.cached = C
      /\ d.freeable = c.freeable /\ d.freed = c.freed /\ d.ids = J
  BY <1>1, <1>3 DEF CacheRecord
<1>10. SizeOf(D \cup H) = SizeOf(D) + SizeOf(H) /\ SizeOf(D) \in Nat /\ SizeOf(H) \in Nat
       /\ SizeOf(Range(c.freeable)) \in Nat
  <2>1. SizeOf(D \cup H) = SizeOf(D) + SizeOf(H)
    BY <1>2, <1>4, SizeDisjoint
  <2> QED BY <1>2, <1>4, <2>1, SizeFinite
<1>11. d \in CacheRecord
  <2>1. c.freeable_slots - SizeOf(H) \in Int /\ c.free - SizeOf(H) \in Int
    BY <1>2, <1>10
  <2> QED BY <1>1, <1>3, <1>7, <1>8, <2>1 DEF CacheRecord
<1>12. Slots(d)
  <2>1. c.free \in Nat /\ c.free = CacheSize - SizeOf(D) /\ c.freeable_slots = c.free + SizeOf(Range(c.freeable))
    BY <1>1 DEF Slots, D
  <2>2. d.free = CacheSize - SizeOf(D \cup H) /\ d.free \in Nat
    BY <1>4, <1>9, <1>10, <2>1, ConstantTypes
  <2>3. d.freeable_slots = d.free + SizeOf(Range(c.freeable))
    BY <1>2, <1>9, <1>10, <2>1
  <2> QED BY <1>5, <1>9, <2>2, <2>3 DEF Slots
<1>13. Evictable(d)
  <2>1. Range(c.freeable) = {h \in DOMAIN C : C[h] = {}}
    BY <1>1, <1>5 DEF Evictable, D
  <2> QED BY <1>1, <1>9, <2>1 DEF Evictable
<1>14. Hashes(r, J[r]) = Hashes(r, c.ids[r]) \cup H
  BY <1>7, HashesUnion DEF H
<1>15. \A q \in Req : c.ids[q] \in SUBSET Inputs(q) /\ Hashes(q, c.ids[q]) \subseteq D
  BY <1>1 DEF HeldCached, D
<1>16. References(d)
  <2> SUFFICES ASSUME NEW h \in DOMAIN C PROVE C[h] = {q \in Req : h \in Hashes(q, J[q])}
    BY <1>9 DEF References
  <2>1. \A q \in Req : h \in Hashes(q, J[q]) <=> h \in Hashes(q, c.ids[q]) \/ (q = r /\ h \in H)
    BY <1>7, <1>14
  <2>2. CASE h \in H
    BY <1>4, <1>5, <1>15, <2>1, <2>2
  <2>3. CASE h \in D
    <3>1. c.cached[h] = {q \in Req : h \in Hashes(q, c.ids[q])}
      BY <1>1, <2>3 DEF References, D
    <3> QED BY <1>4, <1>5, <2>1, <2>3, <3>1
  <2> QED BY <1>5, <2>2, <2>3
<1>17. HeldCached(d)
  <2> SUFFICES ASSUME NEW q \in Req
               PROVE  J[q] \in SUBSET Inputs(q) /\ Hashes(q, J[q]) \subseteq DOMAIN C
    BY <1>9 DEF HeldCached
  <2>1. CASE q = r
    BY <1>5, <1>7, <1>14, <1>15, <2>1
  <2>2. CASE q # r
    BY <1>5, <1>7, <1>15, <2>2
  <2> QED BY <2>1, <2>2
<1>18. Books(d)
  BY <1>11, <1>12, <1>13, <1>16, <1>17 DEF Books
<1> QED BY <1>5, <1>9, <1>18 DEF d, J, D, H

(* Eviction makes the room that is asked for, and only of unreferenced entries. *)
LEMMA EvictBooks ==
    ASSUME NEW c, Books(c), NEW need \in Nat, need <= c.freeable_slots
    PROVE  LET e == Evict(c, need)
           IN  /\ Books(e) /\ e.ids = c.ids /\ need <= e.free
               /\ DOMAIN e.cached \subseteq DOMAIN c.cached /\ c.freed \subseteq e.freed
               /\ DOMAIN c.cached \subseteq DOMAIN e.cached \cup e.freed
<1> DEFINE n == Len(c.freeable)
           K == {j \in 0 .. n : c.free + SizeOf(Oldest(c, j)) >= need}
           k == Min(K)
           O == Oldest(c, k)
           F == SubSeq(c.freeable, k + 1, n)
           D == DOMAIN c.cached
           C == [h \in D \ O |-> c.cached[h]]
           e == Evict(c, need)
<1>1. c \in CacheRecord /\ Slots(c) /\ Evictable(c) /\ References(c) /\ HeldCached(c)
  BY DEF Books
<1>2. /\ c.free \in Int /\ c.freeable_slots \in Int /\ c.freeable \in Seq(Hash)
      /\ c.freed \in SUBSET Hash /\ c.ids \in [Req -> SUBSET Nat]
      /\ c.cached \in [D -> SUBSET Req] /\ D \in SUBSET Hash
      /\ Range(c.freeable) \in SUBSET Hash
  BY <1>1, CacheFields
<1>3. n \in Nat /\ n \in 0 .. n
  BY <1>2
<1>4. Range(c.freeable) = {h \in D : c.cached[h] = {}} /\ IsInjective(c.freeable)
  BY <1>1 DEF Evictable
<1>5. n \in K
  <2>1. Oldest(c, n) = Range(c.freeable)
    BY <1>2, <1>3, <1>4, CutRange DEF Oldest
  <2>2. c.free + SizeOf(Range(c.freeable)) >= need
    <3>1. c.freeable_slots = c.free + SizeOf(Range(c.freeable))
      BY <1>1 DEF Slots
    <3> QED BY <1>2, <3>1
  <2> QED BY <1>3, <2>1, <2>2
<1>6. k \in K
  <2>1. K \in SUBSET Nat
    BY <1>3
  <2> HIDE DEF K
  <2>2. \E x \in K : \A y \in K : x <= y
    BY <1>5, <2>1, LeastNat
  <2> QED BY <2>2 DEF Min
<1>7. k \in 0 .. n /\ c.free + SizeOf(O) >= need
  <2> DEFINE kk == k
  <2>1. kk \in K
    BY <1>6
  <2> HIDE DEF kk
  <2>2. kk \in 0 .. n /\ c.free + SizeOf(Oldest(c, kk)) >= need
    BY <2>1
  <2> QED BY <2>2 DEF kk
<1>8. e = [c EXCEPT !.free = @ + SizeOf(O), !.freed = @ \cup O, !.freeable = F, !.cached = C]
  BY <1>1 DEF Evict, CacheRecord
<1> HIDE DEF k, K
<1>9. /\ F \in Seq(Hash) /\ IsInjective(F) /\ Range(c.freeable) = O \cup Range(F)
      /\ O \cap Range(F) = {}
  BY <1>2, <1>4, <1>7, CutRange DEF Oldest
<1> HIDE DEF F, O, C, e, n, D
<1>10. O \in SUBSET D /\ O \in SUBSET Range(c.freeable) /\ Range(F) = Range(c.freeable) \ O
       /\ O \in SUBSET Hash /\ Range(F) \in SUBSET Hash
  BY <1>2, <1>4, <1>9
<1>11. /\ e.free = c.free + SizeOf(O) /\ e.freed = c.freed \cup O /\ e.freeable = F /\ e.cached = C
       /\ e.freeable_slots = c.freeable_slots /\ e.ids = c.ids
  BY <1>1, <1>8 DEF CacheRecord
<1>12. DOMAIN C = D \ O /\ \A h \in D \ O : C[h] = c.cached[h]
  BY DEF C
<1>13. /\ SizeOf(D \ O) = SizeOf(D) - SizeOf(O) /\ SizeOf(D) \in Nat /\ SizeOf(O) \in Nat
       /\ SizeOf(Range(F)) = SizeOf(Range(c.freeable)) - SizeOf(O) /\ SizeOf(Range(c.freeable)) \in Nat
  BY <1>2, <1>10, SizeSubset
<1>14. e \in CacheRecord
  <2>1. C \in CacheMap
    <3>1. D \ O \in SUBSET Hash /\ C \in [D \ O -> SUBSET Req]
      BY <1>2 DEF C
    <3> QED BY <3>1, CacheMapType
  <2>2. c.free + SizeOf(O) \in Int /\ c.freed \cup O \in SUBSET Hash
    BY <1>2, <1>10, <1>13
  <2> QED BY <1>1, <1>8, <1>9, <2>1, <2>2 DEF CacheRecord
<1>15. Slots(e)
  <2>1. c.free \in Nat /\ c.free = CacheSize - SizeOf(D) /\ c.freeable_slots = c.free + SizeOf(Range(c.freeable))
    BY <1>1 DEF Slots, D
  <2>2. e.free = CacheSize - SizeOf(D \ O) /\ e.free \in Nat
    BY <1>11, <1>13, <2>1, ConstantTypes
  <2>3. e.freeable_slots = e.free + SizeOf(Range(F))
    BY <1>2, <1>11, <1>13, <2>1
  <2> QED BY <1>11, <1>12, <2>2, <2>3 DEF Slots
<1>16. Evictable(e)
  <2>1. Range(F) = {h \in DOMAIN C : C[h] = {}}
    BY <1>4, <1>10, <1>12
  <2> QED BY <1>9, <1>11, <2>1 DEF Evictable
<1>17. References(e)
  <2>1. \A h \in D : c.cached[h] = {r \in Req : h \in Hashes(r, c.ids[r])}
    BY <1>1 DEF References, D
  <2> QED BY <1>11, <1>12, <2>1 DEF References
<1>18. HeldCached(e)
  <2> SUFFICES ASSUME NEW r \in Req
               PROVE  c.ids[r] \in SUBSET Inputs(r) /\ Hashes(r, c.ids[r]) \subseteq D \ O
    BY <1>11, <1>12 DEF HeldCached
  <2>1. c.ids[r] \in SUBSET Inputs(r) /\ Hashes(r, c.ids[r]) \subseteq D
    BY <1>1 DEF HeldCached, D
  <2>2. ASSUME NEW h \in Hashes(r, c.ids[r]), h \in O PROVE FALSE
    <3>1. r \in c.cached[h]
      BY <1>1, <2>1, <2>2 DEF References, D
    <3> QED BY <1>4, <1>10, <2>2, <3>1
  <2> QED BY <2>1, <2>2
<1>19. Books(e)
  BY <1>14, <1>15, <1>16, <1>17, <1>18 DEF Books
<1>20. need <= e.free
  BY <1>2, <1>7, <1>11, <1>13
<1> QED BY <1>11, <1>12, <1>19, <1>20 DEF e, D

(* Giving inputs back: entries stay, without the requests that have no other
   occurrence. *)
LEMMA ReleaseBooks ==
    ASSUME NEW c, Books(c), NEW inputs, \A r \in Req : inputs[r] \subseteq c.ids[r]
    PROVE  LET d == free_encoder_inputs(c, inputs)
           IN  /\ Books(d) /\ DOMAIN d.cached = DOMAIN c.cached
               /\ d.free = c.free /\ d.freed = c.freed
               /\ d.ids = [r \in Req |-> c.ids[r] \ inputs[r]]
<1> DEFINE J == [r \in Req |-> c.ids[r] \ inputs[r]]
           D == DOMAIN c.cached
           L(h) == {r \in Req : h \in Hashes(r, inputs[r]) /\ ~AnotherOccurrence(J, r, h)}
           O == {h \in D : c.cached[h] # {} /\ c.cached[h] \subseteq L(h)}
           C == [h \in D |-> c.cached[h] \ L(h)]
           F == c.freeable \o SetToSeq(O)
           d == free_encoder_inputs(c, inputs)
<1>1. c \in CacheRecord /\ Slots(c) /\ Evictable(c) /\ References(c) /\ HeldCached(c)
  BY DEF Books
<1>2. /\ c.free \in Int /\ c.freeable_slots \in Int /\ c.freeable \in Seq(Hash)
      /\ c.freed \in SUBSET Hash /\ c.ids \in [Req -> SUBSET Nat]
      /\ c.cached \in [D -> SUBSET Req] /\ D \in SUBSET Hash
      /\ Range(c.freeable) \in SUBSET Hash
  BY <1>1, CacheFields
<1>3. d = [c EXCEPT !.ids = J, !.cached = C, !.freeable = F, !.freeable_slots = @ + SizeOf(O)]
  BY <1>1 DEF free_encoder_inputs, CacheRecord
<1>4. J \in [Req -> SUBSET Nat] /\ \A r \in Req : J[r] = c.ids[r] \ inputs[r]
  BY <1>2
<1>5. ASSUME NEW h \in D PROVE c.cached[h] \ L(h) = {r \in Req : h \in Hashes(r, J[r])}
  <2>1. c.cached[h] = {r \in Req : h \in Hashes(r, c.ids[r])}
    BY <1>1, <1>5 DEF References
  <2>2. ASSUME NEW r \in Req
        PROVE  h \in Hashes(r, J[r]) <=> h \in Hashes(r, c.ids[r]) /\ r \notin L(h)
    <3> HIDE DEF J
    <3>1. AnotherOccurrence(J, r, h) <=> h \in Hashes(r, J[r])
      BY DEF AnotherOccurrence, Hashes
    <3>2. c.ids[r] = J[r] \cup inputs[r]
      BY <1>4
    <3>3. Hashes(r, c.ids[r]) = Hashes(r, J[r]) \cup Hashes(r, inputs[r])
      BY <3>2, HashesUnion
    <3> QED BY <3>1, <3>3
  <2> HIDE DEF L, J
  <2> QED BY <2>1, <2>2
<1>6. C \in CacheMap
  <2>1. C \in [D -> SUBSET Req]
    BY <1>2
  <2> HIDE DEF C
  <2> QED BY <1>2, <2>1, CacheMapType
<1>7. DOMAIN C = D /\ \A h \in D : C[h] = {r \in Req : h \in Hashes(r, J[r])} /\ C[h] = c.cached[h] \ L(h)
  BY <1>5
<1>8. O \in SUBSET D /\ \A h \in D : h \in O <=> c.cached[h] # {} /\ c.cached[h] \subseteq L(h)
  OBVIOUS
<1> HIDE DEF C, L, J, O
<1>9. Range(c.freeable) = {h \in D : c.cached[h] = {}} /\ IsInjective(c.freeable)
  BY <1>1 DEF Evictable
<1>10. IsFiniteSet(O) /\ O \in SUBSET Hash
  BY <1>2, <1>8, ConstantTypes, FS_Subset
<1>11. SetToSeq(O) \in Seq(Hash) /\ Range(SetToSeq(O)) = O /\ IsInjective(SetToSeq(O))
  <2>1. SetToSeq(O) \in Seq(O) /\ Range(SetToSeq(O)) = O /\ IsInjective(SetToSeq(O))
    BY <1>10, SetToSeqProperties
  <2> DEFINE t == SetToSeq(O)
  <2> HIDE DEF t
  <2>2. t \in Seq(O) => t \in Seq(Hash)
    BY <1>10
  <2> QED BY <2>1, <2>2 DEF t
<1>12. Range(c.freeable) \cap O = {}
  BY <1>8, <1>9
<1>13. F \in Seq(Hash) /\ Range(F) = Range(c.freeable) \cup O /\ IsInjective(F)
  <2> DEFINE t == SetToSeq(O)
  <2>1. t \in Seq(Hash) /\ Range(t) = O /\ IsInjective(t)
    BY <1>11
  <2> HIDE DEF t
  <2>2. /\ c.freeable \o t \in Seq(Hash) /\ Range(c.freeable \o t) = Range(c.freeable) \cup Range(t)
        /\ IsInjective(c.freeable \o t)
    BY <1>2, <1>9, <1>12, <2>1, ConcatRange
  <2> QED BY <2>1, <2>2 DEF t
<1> HIDE DEF F, d
<1>14. /\ d.free = c.free /\ d.freed = c.freed /\ d.freeable = F /\ d.cached = C
       /\ d.freeable_slots = c.freeable_slots + SizeOf(O) /\ d.ids = J
  BY <1>1, <1>3 DEF CacheRecord
<1>15. /\ SizeOf(Range(F)) = SizeOf(Range(c.freeable)) + SizeOf(O)
       /\ SizeOf(Range(c.freeable)) \in Nat /\ SizeOf(O) \in Nat
  <2>1. SizeOf(Range(c.freeable) \cup O) = SizeOf(Range(c.freeable)) + SizeOf(O)
    BY <1>2, <1>10, <1>12, SizeDisjoint
  <2> QED BY <1>2, <1>10, <1>13, <2>1, SizeFinite
<1>16. d \in CacheRecord
  <2>1. c.freeable_slots + SizeOf(O) \in Int
    BY <1>2, <1>15
  <2> QED BY <1>1, <1>3, <1>4, <1>6, <1>13, <2>1 DEF CacheRecord
<1>17. Slots(d)
  <2>1. c.free \in Nat /\ c.free = CacheSize - SizeOf(D) /\ c.freeable_slots = c.free + SizeOf(Range(c.freeable))
    BY <1>1 DEF Slots
  <2> HIDE DEF D
  <2>2. d.freeable_slots = d.free + SizeOf(Range(F))
    BY <1>2, <1>14, <1>15, <2>1
  <2> QED BY <1>7, <1>14, <2>1, <2>2 DEF Slots
<1>18. Evictable(d)
  <2>1. Range(F) = {h \in DOMAIN C : C[h] = {}}
    <3> HIDE DEF D
    <3>1. \A h \in D : C[h] = {} <=> c.cached[h] = {} \/ h \in O
      BY <1>7, <1>8
    <3> QED BY <1>7, <1>8, <1>9, <1>13, <3>1
  <2> QED BY <1>13, <1>14, <2>1 DEF Evictable
<1>19. References(d)
  BY <1>7, <1>14 DEF References
<1>20. HeldCached(d)
  <2> SUFFICES ASSUME NEW r \in Req
               PROVE  J[r] \in SUBSET Inputs(r) /\ Hashes(r, J[r]) \subseteq D
    BY <1>7, <1>14 DEF HeldCached
  <2>1. c.ids[r] \in SUBSET Inputs(r) /\ Hashes(r, c.ids[r]) \subseteq D
    BY <1>1 DEF HeldCached
  <2>2. J[r] \subseteq c.ids[r] /\ Hashes(r, J[r]) \subseteq Hashes(r, c.ids[r])
    BY <1>4 DEF Hashes
  <2> QED BY <2>1, <2>2
<1>21. Books(d)
  BY <1>16, <1>17, <1>18, <1>19, <1>20 DEF Books
<1> QED BY <1>7, <1>14, <1>21 DEF d, J

LEMMA FreeBooks ==
    ASSUME NEW c, Books(c), NEW R
    PROVE  LET d == free(c, R)
           IN  /\ Books(d) /\ DOMAIN d.cached = DOMAIN c.cached
               /\ d.free = c.free /\ d.freed = c.freed
               /\ \A r \in Req : r \notin R => d.ids[r] = c.ids[r]
<1> DEFINE inputs == [r \in Req |-> IF r \in R THEN c.ids[r] ELSE {}]
           d == free_encoder_inputs(c, inputs)
<1>1. \A r \in Req : inputs[r] \subseteq c.ids[r] /\ (r \notin R => inputs[r] = {})
  OBVIOUS
<1>2. free(c, R) = d
  BY DEF free
<1> HIDE DEF inputs
<1>3. /\ Books(d) /\ DOMAIN d.cached = DOMAIN c.cached
      /\ d.free = c.free /\ d.freed = c.freed
      /\ d.ids = [r \in Req |-> c.ids[r] \ inputs[r]]
  BY <1>1, ReleaseBooks
<1> HIDE DEF d
<1>4. \A r \in Req : r \notin R => d.ids[r] = c.ids[r]
  BY <1>1, <1>3
<1> QED BY <1>2, <1>3, <1>4

-----------------------------------------------------------------------------
(* The inductive invariant *)

TryRecord == [r : Req, from : Nat, n : Nat, budget : Nat, enc : SUBSET Nat, dup : SUBSET Nat]
ItemRecord == [r : Req, live : BOOLEAN, need : SUBSET Hash]
StepRecord == [items : SUBSET ItemRecord, enc : SUBSET Hash, freed : SUBSET Hash, reset : BOOLEAN]

(* A request is in one queue, once. *)
QueueInv ==
    /\ running \in Seq(Req) /\ waiting \in Seq(Req)
    /\ IsInjective(running) /\ IsInjective(waiting)
    /\ Range(running) \cap Range(waiting) = {}
    /\ Range(running) \cup Range(waiting) \subseteq arrived
    /\ computed \in [Req -> Nat]

(* Requests that the step schedules are running and, in the first loop, lie
   before its position. *)
LoopInv ==
    /\ phase \in {"idle", "running", "waiting"} /\ cur \in Nat \ {0}
    /\ phase = "idle" => DOMAIN plan = {} /\ try = NoTry /\ m.freed = {}
    /\ DOMAIN plan \subseteq Range(running)
    /\ phase = "running" => \A r \in DOMAIN plan : \E k \in 1 .. Len(running) : k < cur /\ running[k] = r

(* The outputs to compute for the request being scheduled are not cached and
   have room; every output that its tokens need is among them, repeats one of
   them or is cached and held. *)
Covered(t, c) ==
    /\ t.enc \in SUBSET Inputs(t.r) /\ t.dup \in SUBSET Inputs(t.r)
    /\ Hashes(t.r, t.enc) \cap DOMAIN c.cached = {} /\ SizeOf(Hashes(t.r, t.enc)) <= c.free
    /\ Hashes(t.r, t.dup) \subseteq Hashes(t.r, t.enc)
    /\ Window(t.r, t.from, t.from + t.n) \subseteq t.enc \cup t.dup \cup c.ids[t.r]

TryInv ==
    try # NoTry =>
        /\ try \in TryRecord /\ Covered(try, m)
        /\ try.budget + SizeOf(Hashes(try.r, try.enc)) <= budget
        /\ phase = "running" => cur <= Len(running) /\ try.r = running[cur]
        /\ phase = "waiting" => cur <= Len(waiting) /\ try.r = waiting[cur]

(* A scheduled request holds what its tokens need; no output is computed for
   two requests, and the outputs to compute are within the budget. *)
PlanInv ==
    /\ \A r \in DOMAIN plan :
          /\ plan[r] \in [from : Nat, n : Nat, enc : SUBSET Nat]
          /\ plan[r].enc \subseteq m.ids[r]
          /\ Window(r, plan[r].from, plan[r].from + plan[r].n) \subseteq m.ids[r]
    /\ \A r, q \in DOMAIN plan : r # q => Hashes(r, plan[r].enc) \cap Hashes(q, plan[q].enc) = {}
    /\ budget \in Nat /\ budget + SizeOf(PlannedHashes) <= Budget

(* F[k] is what the worker holds after step k. *)
WorkerHolds(F) ==
    /\ F[done] = wcache
    /\ \A k \in done + 1 .. Len(steps) : F[k] = After(steps[k], F[k - 1])
    /\ \A k \in done .. Len(steps) : SizeOf(F[k]) <= CacheSize

(* After all steps it holds nothing but what is cached, or evicted since; in
   first-come-first-served order each step finds what it needs, and what is
   cached is held or about to be computed. *)
WorkerFollows(F) ==
    /\ F[Len(steps)] \subseteq DOMAIN m.cached \cup m.freed
    /\ ~Priority => /\ \A k \in done + 1 .. Len(steps) : \A x \in steps[k].items : x.need \subseteq F[k]
                    /\ DOMAIN m.cached \subseteq F[Len(steps)] \cup PlannedHashes

StepsInv ==
    /\ steps \in Seq(StepRecord) /\ done \in 0 .. Len(steps)
    /\ \E F \in [done .. Len(steps) -> SUBSET Hash] : WorkerHolds(F) /\ WorkerFollows(F)

IInv == Books(m) /\ QueueInv /\ LoopInv /\ TryInv /\ PlanInv /\ StepsInv

-----------------------------------------------------------------------------
(* _try_schedule_encoder_inputs *)

LoopRecord ==
    [r : Req, from : Nat, n : Nat, end : Nat, m : CacheRecord, budget : Nat,
     enc : SUBSET Nat, dup : SUBSET Nat, stop : BOOLEAN]

(* The loop for r after input k: t are its variables, c and b the cache and the
   budget it began with. *)
LoopGood(t, k, r, from, end, c, b) ==
    /\ t \in LoopRecord /\ t.r = r /\ t.from = from /\ t.end = end
    /\ from + t.n <= end /\ (~t.stop => from + t.n = end) /\ Books(t.m)
    /\ t.enc \in SUBSET Inputs(r) /\ t.dup \in SUBSET Inputs(r)
    /\ Hashes(r, t.enc) \cap DOMAIN t.m.cached = {} /\ SizeOf(Hashes(r, t.enc)) <= t.m.free
    /\ Hashes(r, t.dup) \subseteq Hashes(r, t.enc)
    /\ t.budget + SizeOf(Hashes(r, t.enc)) = b
    /\ \A i \in Inputs(r) :
          t.n # 0 /\ Overlaps(Items[r][i], from, from + t.n) /\ (i <= k \/ t.stop) =>
              i \in t.enc \cup t.dup \cup t.m.ids[r]
    /\ \A q \in Req : c.ids[q] \subseteq t.m.ids[q]
    /\ DOMAIN t.m.cached \subseteq DOMAIN c.cached
    /\ DOMAIN c.cached \cup c.freed \subseteq DOMAIN t.m.cached \cup t.m.freed

(* The loop stops before input i: the tokens left end where i begins, so
   that neither i nor a later input is needed. *)
LEMMA StopGood ==
    ASSUME NEW r \in Req, NEW from \in Nat, NEW end \in Nat, NEW c, NEW b, NEW k \in Nat,
           k + 1 \in Inputs(r), NEW t, LoopGood(t, k, r, from, end, c, b), NEW n \in Nat, n <= t.n,
           n # 0 => from + n <= Items[r][k + 1].start
    PROVE  LoopGood([t EXCEPT !.n = n, !.stop = TRUE], k + 1, r, from, end, c, b)
<1> DEFINE u == [t EXCEPT !.n = n, !.stop = TRUE]
<1>1. t \in LoopRecord /\ t.n \in Nat /\ from + t.n <= end
  BY DEF LoopGood, LoopRecord
<1>2. u \in LoopRecord
  BY <1>1 DEF LoopRecord
<1>3. /\ u.n = n /\ u.stop = TRUE /\ u.r = t.r /\ u.from = t.from /\ u.end = t.end /\ u.m = t.m
      /\ u.budget = t.budget /\ u.enc = t.enc /\ u.dup = t.dup
  BY <1>1 DEF LoopRecord
<1> HIDE DEF u
<1>4. ASSUME NEW i \in Inputs(r), n # 0, Overlaps(Items[r][i], from, from + n)
      PROVE  i \in t.enc \cup t.dup \cup t.m.ids[r]
  <2>1. /\ Items[r][i].start \in Nat /\ Items[r][i].len \in Nat
        /\ Items[r][k + 1].start \in Nat /\ Items[r][k + 1].len \in Nat /\ i \in Nat
        /\ k + 1 < i => Items[r][k + 1].start + Items[r][k + 1].len <= Items[r][i].start
    BY ItemTypes
  <2>2. Items[r][i].start < from + n /\ Items[r][i].start + Items[r][i].len > from
    BY <1>4 DEF Overlaps
  <2>3. i <= k
    BY <1>4, <2>1, <2>2
  <2>4. Overlaps(Items[r][i], from, from + t.n) /\ t.n # 0
    BY <1>1, <1>4, <2>1, <2>2 DEF Overlaps
  <2> QED BY <2>3, <2>4 DEF LoopGood
<1>5. from + n <= end
  BY <1>1, ConstantTypes
<1> QED BY <1>2, <1>3, <1>4, <1>5 DEF LoopGood, u

(* One input. *)
LEMMA TryInputGood ==
    ASSUME NEW r \in Req, NEW from \in Nat, NEW end \in Nat, NEW c, NEW b \in Nat, NEW k \in Nat,
           k + 1 \in Inputs(r), NEW t, LoopGood(t, k, r, from, end, c, b)
    PROVE  LoopGood(TryInput(t, k + 1), k + 1, r, from, end, c, b)
<1> DEFINE i == k + 1
           item == Items[r][i]
           h == item.hash
           S == Hashes(r, t.enc)
           u == TryInput(t, i)
<1>1. /\ t \in LoopRecord /\ t.r = r /\ t.from = from /\ t.end = end /\ from + t.n <= end
      /\ (~t.stop => from + t.n = end) /\ Books(t.m) /\ t.enc \in SUBSET Inputs(r) /\ t.dup \in SUBSET Inputs(r)
      /\ S \cap DOMAIN t.m.cached = {} /\ SizeOf(S) <= t.m.free /\ Hashes(r, t.dup) \subseteq S
      /\ t.budget + SizeOf(S) = b
      /\ \A q \in Req : c.ids[q] \subseteq t.m.ids[q]
      /\ DOMAIN t.m.cached \subseteq DOMAIN c.cached
      /\ DOMAIN c.cached \cup c.freed \subseteq DOMAIN t.m.cached \cup t.m.freed
  BY DEF LoopGood
<1>2. /\ t.n \in Nat /\ t.m \in CacheRecord /\ t.budget \in Nat /\ t.stop \in BOOLEAN
      /\ t.enc \in SUBSET Nat /\ t.dup \in SUBSET Nat
  BY <1>1 DEF LoopRecord
<1>3. /\ i \in Inputs(r) /\ h \in Hash /\ HashOf(r, i) = h /\ item.start \in Nat /\ item.len \in Nat
  BY ItemTypes DEF HashOf
<1>4. \A j \in Inputs(r) : j \in Nat /\ (j <= i => j <= k \/ j = i)
  BY ItemTypes
<1>5. \A j \in Inputs(r) : t.n # 0 /\ Overlaps(Items[r][j], from, from + t.n) /\ (j <= k \/ t.stop) =>
                              j \in t.enc \cup t.dup \cup t.m.ids[r]
  BY DEF LoopGood
<1>6. S \in SUBSET Hash /\ SizeOf(S) \in Nat
  BY <1>1, HashesType, SizeFinite
<1>7. Hashes(r, {i}) = {h}
  BY <1>3 DEF Hashes
<1>8. t.m.free \in Nat /\ t.m.freeable_slots \in Int /\ t.m.free <= t.m.freeable_slots
  <2>1. /\ t.m.free \in Nat /\ t.m.freeable_slots = t.m.free + SizeOf(Range(t.m.freeable))
    BY <1>1 DEF Books, Slots
  <2>2. SizeOf(Range(t.m.freeable)) \in Nat
    BY <1>2, CacheFields, SizeFinite
  <2> QED BY <2>1, <2>2
<1>9. CASE t.stop \/ ~Overlaps(item, from, end)
  <2>1. u = t
    BY <1>1, <1>9 DEF TryInput
  <2>2. ASSUME NEW j \in Inputs(r), t.n # 0, Overlaps(Items[r][j], from, from + t.n), j <= i \/ t.stop
        PROVE  j \in t.enc \cup t.dup \cup t.m.ids[r]
    <3>1. CASE t.stop
      BY <1>5, <2>2, <3>1
    <3>2. CASE ~t.stop
      <4>1. ~Overlaps(item, from, from + t.n)
        BY <1>1, <1>2, <1>3, <1>9, <3>2 DEF Overlaps
      <4> QED BY <1>4, <1>5, <2>2, <3>2, <4>1
    <3> QED BY <3>1, <3>2
  <2> QED BY <1>1, <2>1, <2>2 DEF LoopGood
<1>10. CASE /\ ~t.stop /\ Overlaps(item, from, end)
            /\ disable_chunked_mm_input /\ from <= item.start /\ from + t.n < item.start + item.len
  <2> DEFINE n == Max({0, item.start - from})
  <2>1. u = [t EXCEPT !.n = n, !.stop = TRUE]
    BY <1>1, <1>10 DEF TryInput
  <2>2. n = item.start - from
    <3>1. \E x \in {0, item.start - from} : \A y \in {0, item.start - from} : x >= y
      BY <1>3, <1>10
    <3>2. n \in {0, item.start - from} /\ \A y \in {0, item.start - from} : n >= y
      BY <3>1 DEF Max
    <3> HIDE DEF n
    <3> QED BY <1>3, <1>10, <3>2
  <2>3. n \in Nat /\ n <= t.n /\ from + n <= item.start
    BY <1>1, <1>2, <1>3, <1>10, <2>2 DEF Overlaps
  <2> HIDE DEF n
  <2>4. LoopGood([t EXCEPT !.n = n, !.stop = TRUE], k + 1, r, from, end, c, b)
    BY <2>3, StopGood
  <2> QED BY <2>1, <2>4
<1>11. ASSUME /\ ~t.stop /\ Overlaps(item, from, end)
              /\ ~(/\ disable_chunked_mm_input /\ from <= item.start
                   /\ from + t.n < item.start + item.len)
       PROVE  LoopGood(u, i, r, from, end, c, b)
  <2>1. CASE h \in S
    <3> DEFINE dup == t.dup \cup {i}
    <3>1. u = [t EXCEPT !.dup = dup]
      BY <1>1, <1>11, <2>1 DEF TryInput
    <3>2. dup \in SUBSET Nat /\ dup \in SUBSET Inputs(r) /\ i \in Nat
      BY <1>1, <1>2, <1>3, <1>4
    <3>3. Hashes(r, dup) \subseteq S
      BY <1>1, <1>7, <2>1, HashesUnion
    <3> HIDE DEF dup
    <3>4. u \in LoopRecord
      BY <1>1, <3>1, <3>2 DEF LoopRecord
    <3>5. /\ u.n = t.n /\ u.stop = t.stop /\ u.r = t.r /\ u.from = t.from /\ u.end = t.end /\ u.m = t.m
          /\ u.budget = t.budget /\ u.enc = t.enc /\ u.dup = dup
      BY <1>1, <3>1 DEF LoopRecord
    <3> HIDE DEF u
    <3>6. ASSUME NEW j \in Inputs(r), t.n # 0, Overlaps(Items[r][j], from, from + t.n), j <= i \/ t.stop
          PROVE  j \in t.enc \cup dup \cup t.m.ids[r]
      BY <1>4, <1>5, <1>11, <3>6 DEF dup
    <3> QED BY <1>1, <3>2, <3>3, <3>4, <3>5, <3>6 DEF LoopGood
  <2>2. CASE h \notin S /\ h \in DOMAIN t.m.cached
    <3> DEFINE d == check_and_update_cache(t.m, r, {i})
    <3>1. u = [t EXCEPT !.m = d]
      BY <1>1, <1>11, <2>2 DEF TryInput
    <3>2. /\ Books(d) /\ DOMAIN d.cached = DOMAIN t.m.cached
          /\ d.free = t.m.free /\ d.freed = t.m.freed
          /\ d.ids = [t.m.ids EXCEPT ![r] = @ \cup {i}]
      <4>1. {i} \in SUBSET Inputs(r) /\ Hashes(r, {i}) \subseteq DOMAIN t.m.cached
        BY <1>3, <1>7, <2>2
      <4> DEFINE I == {i}
                 mm == t.m
      <4>2. I \in SUBSET Inputs(r) /\ Hashes(r, I) \subseteq DOMAIN mm.cached /\ Books(mm)
        BY <1>1, <4>1
      <4>3. d = check_and_update_cache(mm, r, I)
        OBVIOUS
      <4> HIDE DEF I, mm, d
      <4>4. /\ Books(d) /\ DOMAIN d.cached = DOMAIN mm.cached
            /\ d.free = mm.free /\ d.freed = mm.freed
            /\ d.ids = [mm.ids EXCEPT ![r] = @ \cup I]
        BY <4>2, <4>3, CheckBooks
      <4> QED BY <4>4 DEF I, mm
    <3> HIDE DEF d
    <3>3. d.ids[r] = t.m.ids[r] \cup {i} /\ \A q \in Req : t.m.ids[q] \subseteq d.ids[q]
      <4>1. t.m.ids \in [Req -> SUBSET Nat]
        BY <1>2, CacheFields
      <4> QED BY <3>2, <4>1
    <3>4. d \in CacheRecord
      BY <3>2 DEF Books
    <3>5. u \in LoopRecord
      BY <1>1, <3>1, <3>4 DEF LoopRecord
    <3>6. /\ u.n = t.n /\ u.stop = t.stop /\ u.r = t.r /\ u.from = t.from /\ u.end = t.end /\ u.m = d
          /\ u.budget = t.budget /\ u.enc = t.enc /\ u.dup = t.dup
      BY <1>1, <3>1 DEF LoopRecord
    <3> HIDE DEF u
    <3>7. ASSUME NEW j \in Inputs(r), t.n # 0, Overlaps(Items[r][j], from, from + t.n), j <= i \/ t.stop
          PROVE  j \in t.enc \cup t.dup \cup d.ids[r]
      BY <1>4, <1>5, <1>11, <3>3, <3>7
    <3>8. \A q \in Req : c.ids[q] \subseteq d.ids[q]
      BY <1>1, <3>3
    <3> QED BY <1>1, <3>2, <3>5, <3>6, <3>7, <3>8 DEF LoopGood
  <2>3. CASE h \notin S /\ h \notin DOMAIN t.m.cached /\ ~can_allocate(t.m, h, t.budget, SizeOf(S))
    <3> DEFINE n == IF from < item.start THEN Min({t.n, item.start - from}) ELSE 0
    <3>1. u = [t EXCEPT !.n = n, !.stop = TRUE]
      BY <1>1, <1>11, <2>3 DEF TryInput
    <3>2. n \in Nat /\ n <= t.n /\ (n # 0 => from + n <= item.start)
      <4>1. CASE from < item.start
        <5> DEFINE M == {t.n, item.start - from}
        <5>1. \E x \in M : \A y \in M : x <= y
          BY <1>2, <1>3
        <5>2. Min(M) \in M /\ \A y \in M : Min(M) <= y
          BY <5>1 DEF Min
        <5>3. n = Min(M)
          BY <4>1
        <5> HIDE DEF n
        <5>4. n \in {t.n, item.start - from} /\ n <= t.n /\ n <= item.start - from
          BY <5>2, <5>3
        <5> QED BY <1>2, <1>3, <4>1, <5>4
      <4>2. CASE ~(from < item.start)
        BY <1>2, <4>2
      <4> QED BY <4>1, <4>2
    <3> HIDE DEF n
    <3>3. LoopGood([t EXCEPT !.n = n, !.stop = TRUE], k + 1, r, from, end, c, b)
      BY <3>2, StopGood
    <3> QED BY <3>1, <3>3
  <2>4. CASE h \notin S /\ h \notin DOMAIN t.m.cached /\ can_allocate(t.m, h, t.budget, SizeOf(S))
    <3> DEFINE need == Size[h] + SizeOf(S)
               e == Evict(t.m, need)
               enc == t.enc \cup {i}
    <3>1. u = [t EXCEPT !.m = e, !.budget = @ - Size[h], !.enc = enc]
      BY <1>1, <1>11, <2>4 DEF TryInput
    <3>2. Size[h] \in Nat /\ SizeOf({h}) = Size[h]
      BY <1>3, SizeOne
    <3>3. Size[h] <= t.budget /\ need \in Nat /\ need <= t.m.freeable_slots
      BY <1>2, <1>6, <1>8, <2>4, <3>2 DEF can_allocate
    <3> HIDE DEF need
    <3>4. /\ Books(e) /\ e.ids = t.m.ids /\ need <= e.free
          /\ DOMAIN e.cached \subseteq DOMAIN t.m.cached /\ t.m.freed \subseteq e.freed
          /\ DOMAIN t.m.cached \subseteq DOMAIN e.cached \cup e.freed
      BY <1>1, <3>3, EvictBooks
    <3>5. enc \in SUBSET Inputs(r) /\ enc \in SUBSET Nat /\ i \in enc /\ t.enc \subseteq enc
      BY <1>1, <1>2, <1>3, <1>4
    <3>6. Hashes(r, enc) = S \cup {h}
      BY <1>7, HashesUnion
    <3>7. SizeOf(S \cup {h}) = SizeOf(S) + SizeOf({h})
      BY <1>3, <1>6, <2>4, SizeDisjoint
    <3>8. SizeOf(Hashes(r, enc)) = need
      <4>1. SizeOf(Hashes(r, enc)) = SizeOf(S) + Size[h]
        BY <3>2, <3>6, <3>7, Zenon
      <4> HIDE DEF enc, S, h
      <4> QED BY <1>6, <3>2, <4>1 DEF need
    <3> HIDE DEF e, enc
    <3>9. e \in CacheRecord /\ t.budget - Size[h] \in Nat
      BY <1>2, <3>2, <3>3, <3>4 DEF Books
    <3>10. u \in LoopRecord
      BY <1>1, <3>1, <3>5, <3>9 DEF LoopRecord
    <3>11. /\ u.n = t.n /\ u.stop = t.stop /\ u.r = t.r /\ u.from = t.from /\ u.end = t.end /\ u.m = e
           /\ u.budget = t.budget - Size[h] /\ u.enc = enc /\ u.dup = t.dup
      BY <1>1, <3>1 DEF LoopRecord
    <3> HIDE DEF u
    <3>12. ASSUME NEW j \in Inputs(r), t.n # 0, Overlaps(Items[r][j], from, from + t.n), j <= i \/ t.stop
           PROVE  j \in enc \cup t.dup \cup e.ids[r]
      BY <1>4, <1>5, <1>11, <3>4, <3>5, <3>12
    <3>13. u.budget + SizeOf(Hashes(r, enc)) = b
      <4>1. t.budget + SizeOf(S) = b /\ t.budget \in Nat
        BY <1>1, <1>2
      <4> QED BY <1>6, <3>2, <3>8, <3>11, <4>1 DEF need
    <3>14. Hashes(r, enc) \cap DOMAIN e.cached = {} /\ SizeOf(Hashes(r, enc)) <= e.free
      BY <1>1, <2>4, <3>4, <3>6, <3>8
    <3>15. Hashes(r, t.dup) \subseteq Hashes(r, enc)
      BY <1>1, <3>6
    <3>16. /\ \A q \in Req : c.ids[q] \subseteq e.ids[q]
           /\ DOMAIN e.cached \subseteq DOMAIN c.cached
           /\ DOMAIN c.cached \cup c.freed \subseteq DOMAIN e.cached \cup e.freed
      BY <1>1, <3>4
    <3> QED BY <1>1, <3>4, <3>5, <3>10, <3>11, <3>12, <3>13, <3>14, <3>15, <3>16 DEF LoopGood
  <2> QED BY <2>1, <2>2, <2>3, <2>4
<1> QED BY <1>9, <1>10, <1>11

LEMMA TryScheduleGood ==
    ASSUME Books(m), budget \in Nat, NEW r \in Req, NEW from \in Nat, NEW n \in Nat \ {0}
    PROVE  LoopGood(TrySchedule(r, from, n), Len(Items[r]), r, from, from + n, m, budget)
<1> DEFINE len == Len(Items[r])
           G(f, j) == [k \in 0 .. j |-> IF k = 0 THEN TryStart(r, from, n) ELSE TryInput(f[k - 1], k)]
           T == {j \in Nat : \E f : f = G(f, j)}
<1>1. len \in Nat /\ Inputs(r) = 1 .. len
  BY ItemTypes
<1>2. 0 \in T
  <2> DEFINE f == [k \in 0 .. 0 |-> TryStart(r, from, n)]
  <2>1. f = G(f, 0)
    OBVIOUS
  <2> HIDE DEF f, G
  <2> QED BY <2>1
<1>3. ASSUME NEW j \in 0 .. len, j < len, j \in T PROVE j + 1 \in T
  <2>1. PICK f : f = G(f, j)
    BY <1>3
  <2>2. j \in Nat /\ j + 1 \in Nat
    BY <1>1
  <2> DEFINE g == [k \in 0 .. j + 1 |-> IF k <= j THEN f[k] ELSE TryInput(f[k - 1], k)]
  <2>3. \A k \in 0 .. j + 1 : g[k] = IF k = 0 THEN TryStart(r, from, n) ELSE TryInput(g[k - 1], k)
    <3> SUFFICES ASSUME NEW k \in 0 .. j + 1
                 PROVE  g[k] = IF k = 0 THEN TryStart(r, from, n) ELSE TryInput(g[k - 1], k)
      OBVIOUS
    <3>1. k # 0 => k - 1 \in 0 .. j + 1 /\ k - 1 <= j
      BY <2>2
    <3>2. k # 0 => g[k - 1] = f[k - 1]
      BY <3>1
    <3>3. \A l \in 0 .. j : f[l] = IF l = 0 THEN TryStart(r, from, n) ELSE TryInput(f[l - 1], l)
      BY <2>1, Zenon
    <3>4. k <= j => k \in 0 .. j
      BY <2>2
    <3>5. k <= j => f[k] = IF k = 0 THEN TryStart(r, from, n) ELSE TryInput(f[k - 1], k)
      BY <3>3, <3>4, Zenon
    <3>6. ~(k <= j) => k # 0
      BY <2>2
    <3>7. g[k] = IF k <= j THEN f[k] ELSE TryInput(f[k - 1], k)
      OBVIOUS
    <3> HIDE DEF g
    <3> QED BY <3>2, <3>5, <3>6, <3>7
  <2>4. g = G(g, j + 1)
    BY <2>3
  <2> HIDE DEF g, G
  <2> QED BY <2>2, <2>4
<1> HIDE DEF T
<1>4. \A j \in 0 .. len : j \in T
  BY <1>1, <1>2, <1>3, UpTo
<1>5. \E f : f = G(f, len)
  <2>1. len \in T
    BY <1>1, <1>4
  <2> QED BY <2>1 DEF T
<1> DEFINE W == CHOOSE f : f = G(f, len)
<1>6. W = G(W, len)
  <2> HIDE DEF G
  <2> QED BY <1>5
<1>7. TrySchedule(r, from, n) = W[len]
  BY DEF TrySchedule
<1> HIDE DEF W
<1>8. \A k \in 0 .. len : W[k] = IF k = 0 THEN TryStart(r, from, n) ELSE TryInput(W[k - 1], k)
  BY <1>6, Zenon
<1> DEFINE U == {k \in 0 .. len : LoopGood(W[k], k, r, from, from + n, m, budget)}
<1>9. 0 \in U
  <2> DEFINE t == TryStart(r, from, n)
  <2>1. W[0] = t
    BY <1>1, <1>8
  <2>2. /\ t.r = r /\ t.from = from /\ t.n = n /\ t.end = from + n /\ t.m = m /\ t.budget = budget
        /\ t.enc = {} /\ t.dup = {} /\ t.stop = FALSE
    BY DEF TryStart
  <2>3. m \in CacheRecord /\ m.free \in Nat
    BY DEF Books, Slots
  <2>4. t \in LoopRecord
    BY <2>3 DEF TryStart, LoopRecord
  <2>5. Hashes(r, {}) = {} /\ SizeOf({}) = 0
    BY HashesUnion, SizeEmpty
  <2>6. \A i \in Inputs(r) : ~(i <= 0)
    BY <1>1
  <2> HIDE DEF t
  <2>7. LoopGood(t, 0, r, from, from + n, m, budget)
    BY <2>2, <2>3, <2>4, <2>5, <2>6 DEF LoopGood
  <2> QED BY <1>1, <2>1, <2>7
<1>10. ASSUME NEW k \in 0 .. len, k < len, k \in U PROVE k + 1 \in U
  <2>1. k \in Nat /\ k + 1 \in Inputs(r) /\ k + 1 \in 0 .. len /\ (k + 1) - 1 = k /\ k + 1 # 0 /\ from + n \in Nat
    BY <1>1, <1>10
  <2>2. W[k + 1] = TryInput(W[k], k + 1)
    BY <1>8, <2>1
  <2>3. LoopGood(W[k], k, r, from, from + n, m, budget)
    BY <1>10
  <2>4. LoopGood(TryInput(W[k], k + 1), k + 1, r, from, from + n, m, budget)
    BY <2>1, <2>3, TryInputGood
  <2> QED BY <2>1, <2>2, <2>4
<1> HIDE DEF U
<1>11. \A k \in 0 .. len : k \in U
  BY <1>1, <1>9, <1>10, UpTo
<1>12. len \in U
  BY <1>1, <1>11
<1> QED BY <1>7, <1>12 DEF U

-----------------------------------------------------------------------------
(* What the invariant says of the parts of the state *)

LEMMA NoTryType == NoTry \notin TryRecord
<1>1. ASSUME NoTry \in TryRecord PROVE FALSE
  <2>1. "r" \in DOMAIN NoTry
    BY <1>1 DEF TryRecord
  <2>2. DOMAIN NoTry = {"n"}
    BY DEF NoTry
  <2> QED BY <2>1, <2>2
<1> QED BY <1>1

LEMMA CacheFacts ==
    ASSUME IInv
    PROVE  /\ m \in CacheRecord /\ m.free \in Nat /\ m.freed \in SUBSET Hash
           /\ DOMAIN m.cached \in SUBSET Hash /\ m.ids \in [Req -> SUBSET Nat]
           /\ \A r \in Req : m.ids[r] \in SUBSET Inputs(r) /\ Hashes(r, m.ids[r]) \subseteq DOMAIN m.cached
<1>1. m \in CacheRecord /\ Slots(m) /\ HeldCached(m)
  BY DEF IInv, Books
<1> QED BY <1>1, CacheFields DEF Slots, HeldCached

LEMMA QueueFacts ==
    ASSUME IInv
    PROVE  /\ Len(running) \in Nat /\ DOMAIN running = 1 .. Len(running) /\ Range(running) \in SUBSET Req
           /\ Len(waiting) \in Nat /\ DOMAIN waiting = 1 .. Len(waiting) /\ Range(waiting) \in SUBSET Req
           /\ \A k \in 1 .. Len(running) : running[k] \in Req /\ running[k] \in Range(running)
           /\ \A k \in 1 .. Len(waiting) : waiting[k] \in Req /\ waiting[k] \in Range(waiting)
           /\ \A r \in Range(running) : \E k \in 1 .. Len(running) : running[k] = r
           /\ \A i, j \in 1 .. Len(running) : running[i] = running[j] => i = j
<1>1. running \in Seq(Req) /\ waiting \in Seq(Req) /\ IsInjective(running)
  BY DEF IInv, QueueInv
<1>2. Len(running) \in Nat /\ DOMAIN running = 1 .. Len(running) /\ \A k \in 1 .. Len(running) : running[k] \in Req
  BY <1>1
<1>3. Len(waiting) \in Nat /\ DOMAIN waiting = 1 .. Len(waiting) /\ \A k \in 1 .. Len(waiting) : waiting[k] \in Req
  BY <1>1
<1> QED BY <1>1, <1>2, <1>3 DEF Range, IsInjective

(* What the step computes is cached. *)
LEMMA PlanFacts ==
    ASSUME IInv
    PROVE  /\ DOMAIN plan \in SUBSET Req
           /\ \A r \in DOMAIN plan : plan[r].enc \in SUBSET Inputs(r)
           /\ PlannedHashes \in SUBSET Hash /\ PlannedHashes \subseteq DOMAIN m.cached
           /\ SizeOf(PlannedHashes) \in Nat
<1>1. DOMAIN plan \in SUBSET Req
  BY QueueFacts DEF IInv, LoopInv
<1>2. ASSUME NEW r \in DOMAIN plan
      PROVE  /\ plan[r].enc \in SUBSET Inputs(r) /\ Hashes(r, plan[r].enc) \subseteq DOMAIN m.cached
  <2>1. r \in Req /\ plan[r].enc \subseteq m.ids[r]
    BY <1>1 DEF IInv, PlanInv
  <2>2. m.ids[r] \in SUBSET Inputs(r) /\ Hashes(r, m.ids[r]) \subseteq DOMAIN m.cached
    BY <2>1, CacheFacts
  <2>3. Hashes(r, plan[r].enc) \subseteq Hashes(r, m.ids[r])
    BY <2>1 DEF Hashes
  <2> QED BY <2>1, <2>2, <2>3
<1>3. PlannedHashes \subseteq DOMAIN m.cached
  BY <1>2 DEF PlannedHashes
<1>4. PlannedHashes \in SUBSET Hash
  BY <1>3, CacheFacts
<1> QED BY <1>1, <1>2, <1>3, <1>4, SizeFinite

(* A request that is being scheduled is not in the step yet. *)
LEMMA TryFacts ==
    ASSUME IInv, try # NoTry
    PROVE  /\ try \in TryRecord /\ try.r \in Req /\ try.from \in Nat /\ try.n \in Nat /\ try.budget \in Nat
           /\ Covered(try, m) /\ try.r \notin DOMAIN plan
           /\ phase \in {"running", "waiting"}
           /\ phase = "running" => try.r \in Range(running)
           /\ phase = "waiting" => try.r \in Range(waiting)
<1>1. /\ try \in TryRecord /\ Covered(try, m)
      /\ phase = "running" => cur <= Len(running) /\ try.r = running[cur]
      /\ phase = "waiting" => cur <= Len(waiting) /\ try.r = waiting[cur]
  BY DEF IInv, TryInv
<1>2. try.r \in Req /\ try.from \in Nat /\ try.n \in Nat /\ try.budget \in Nat
  BY <1>1 DEF TryRecord
<1>3. phase \in {"running", "waiting"} /\ cur \in Nat \ {0} /\ DOMAIN plan \subseteq Range(running)
  BY DEF IInv, LoopInv
<1>4. CASE phase = "running"
  <2>1. cur \in 1 .. Len(running) /\ try.r = running[cur]
    BY <1>1, <1>3, <1>4, QueueFacts
  <2>2. ASSUME try.r \in DOMAIN plan PROVE FALSE
    <3>1. PICK k \in 1 .. Len(running) : k < cur /\ running[k] = try.r
      BY <1>4, <2>2 DEF IInv, LoopInv
    <3>2. k = cur
      BY <2>1, <3>1, QueueFacts
    <3> QED BY <1>3, <3>1, <3>2
  <2> QED BY <1>1, <1>2, <1>4, <2>1, <2>2, QueueFacts
<1>5. CASE phase = "waiting"
  <2>1. cur \in 1 .. Len(waiting) /\ try.r = waiting[cur]
    BY <1>1, <1>3, <1>5, QueueFacts
  <2>2. try.r \in Range(waiting)
    BY <2>1, QueueFacts
  <2>3. try.r \notin DOMAIN plan
    BY <1>3, <2>2 DEF IInv, QueueInv
  <2> QED BY <1>1, <1>2, <1>5, <2>2, <2>3
<1> QED BY <1>3, <1>4, <1>5

-----------------------------------------------------------------------------
(* The worker *)

(* The same steps, but for requests marked stale. *)
SameSteps(p, q) ==
    \A k \in 1 .. Len(p) :
        /\ q[k].enc = p[k].enc /\ q[k].freed = p[k].freed /\ q[k].reset = p[k].reset
        /\ \A x \in q[k].items : \E y \in p[k].items : x.need = y.need

LEMMA SameAfter ==
    ASSUME NEW p, NEW q, SameSteps(p, q), NEW k \in 1 .. Len(p), NEW X
    PROVE  After(q[k], X) = After(p[k], X)
BY DEF SameSteps, After

LEMMA StepsKept ==
    ASSUME StepsInv, steps' \in Seq(StepRecord), Len(steps') = Len(steps), SameSteps(steps, steps'),
           done' = done, wcache' = wcache,
           DOMAIN m.cached \cup m.freed \subseteq DOMAIN m'.cached \cup m'.freed,
           ~Priority => DOMAIN m'.cached \subseteq (DOMAIN m.cached \ PlannedHashes) \cup PlannedHashes'
    PROVE  StepsInv'
<1>1. /\ steps \in Seq(StepRecord) /\ done \in 0 .. Len(steps) /\ Len(steps) \in Nat
  BY DEF StepsInv
<1>2. PICK F \in [done .. Len(steps) -> SUBSET Hash] : WorkerHolds(F) /\ WorkerFollows(F)
  BY DEF StepsInv
<1>3. \A k \in done + 1 .. Len(steps) : k \in 1 .. Len(steps)
  BY <1>1
<1>4. WorkerHolds(F)'
  <2>1. \A k \in done + 1 .. Len(steps) : F[k] = After(steps'[k], F[k - 1])
    BY <1>2, <1>3, SameAfter DEF WorkerHolds
  <2> QED BY <1>2, <2>1 DEF WorkerHolds
<1>5. WorkerFollows(F)'
  <2>1. F[Len(steps)] \subseteq DOMAIN m.cached \cup m.freed
    BY <1>2 DEF WorkerFollows
  <2>2. ASSUME ~Priority
        PROVE  /\ \A k \in done + 1 .. Len(steps) : \A x \in steps'[k].items : x.need \subseteq F[k]
               /\ DOMAIN m'.cached \subseteq F[Len(steps)] \cup PlannedHashes'
    <3>1. /\ \A k \in done + 1 .. Len(steps) : \A x \in steps[k].items : x.need \subseteq F[k]
          /\ DOMAIN m.cached \subseteq F[Len(steps)] \cup PlannedHashes
      BY <1>2, <2>2 DEF WorkerFollows
    <3>2. \A k \in done + 1 .. Len(steps) : \A x \in steps'[k].items : x.need \subseteq F[k]
      BY <1>3, <3>1 DEF SameSteps
    <3> QED BY <2>2, <3>1, <3>2
  <2> QED BY <2>1, <2>2 DEF WorkerFollows
<1> QED BY <1>1, <1>2, <1>4, <1>5 DEF StepsInv

LEMMA StepsExtended ==
    ASSUME StepsInv, steps' \in Seq(StepRecord), Len(steps') = Len(steps) + 1, SameSteps(steps, steps'),
           done' = done, wcache' = wcache,
           NEW st \in StepRecord, steps'[Len(steps) + 1] = st,
           \A X \in SUBSET Hash :
               /\ X \subseteq DOMAIN m.cached \cup m.freed
               /\ ~Priority => DOMAIN m.cached \subseteq X \cup PlannedHashes
               => /\ SizeOf(After(st, X)) <= CacheSize
                  /\ After(st, X) \subseteq DOMAIN m'.cached \cup m'.freed
                  /\ ~Priority => /\ \A x \in st.items : x.need \subseteq After(st, X)
                                  /\ DOMAIN m'.cached \subseteq After(st, X) \cup PlannedHashes'
    PROVE  StepsInv'
<1> DEFINE n == Len(steps)
<1>1. /\ steps \in Seq(StepRecord) /\ done \in 0 .. n /\ n \in Nat /\ done \in Nat
  BY DEF StepsInv
<1>2. PICK F \in [done .. n -> SUBSET Hash] : WorkerHolds(F) /\ WorkerFollows(F)
  BY DEF StepsInv
<1> DEFINE A == After(st, F[n])
           after == [k \in done .. n + 1 |-> IF k = n + 1 THEN A ELSE F[k]]
<1>3. F[n] \in SUBSET Hash
  BY <1>1, <1>2
<1>4. /\ F[n] \subseteq DOMAIN m.cached \cup m.freed
      /\ ~Priority => /\ \A k \in done + 1 .. n : \A x \in steps[k].items : x.need \subseteq F[k]
                      /\ DOMAIN m.cached \subseteq F[n] \cup PlannedHashes
  BY <1>2 DEF WorkerFollows
<1>5. /\ SizeOf(A) <= CacheSize
      /\ A \subseteq DOMAIN m'.cached \cup m'.freed
      /\ ~Priority => /\ \A x \in st.items : x.need \subseteq A
                      /\ DOMAIN m'.cached \subseteq A \cup PlannedHashes'
  BY <1>3, <1>4
<1>6. A \in SUBSET Hash
  <2>1. st.enc \in SUBSET Hash
    BY DEF StepRecord
  <2> QED BY <1>3, <2>1 DEF After
<1> HIDE DEF A
<1>7. PICK E : E = after
  OBVIOUS
<1>8. /\ E \in [done .. n + 1 -> SUBSET Hash]
      /\ E[n + 1] = A /\ \A k \in done .. n : E[k] = F[k]
  BY <1>1, <1>2, <1>6, <1>7
<1> HIDE DEF after
<1>9. \A k \in done + 1 .. n + 1 : k = n + 1 \/ (k \in done + 1 .. n /\ k \in done .. n /\ k \in 1 .. n)
  BY <1>1
<1>10. \A k \in done + 1 .. n + 1 : k - 1 \in done .. n
  BY <1>1
<1>11. (n + 1) - 1 = n /\ done \in done .. n
  BY <1>1
<1>12. WorkerHolds(E)'
  <2>1. E[done] = wcache
    BY <1>2, <1>8, <1>11 DEF WorkerHolds
  <2>2. ASSUME NEW k \in done + 1 .. n + 1 PROVE E[k] = After(steps'[k], E[k - 1])
    <3>1. CASE k = n + 1
      <4>1. E[k - 1] = F[n]
        BY <1>8, <1>10, <1>11, <3>1
      <4> QED BY <1>8, <3>1, <4>1 DEF A
    <3>2. CASE k \in done + 1 .. n /\ k \in done .. n /\ k \in 1 .. n
      <4>1. F[k] = After(steps[k], F[k - 1])
        BY <1>2, <3>2 DEF WorkerHolds
      <4>2. After(steps'[k], F[k - 1]) = After(steps[k], F[k - 1])
        BY <3>2, SameAfter
      <4>3. E[k] = F[k] /\ E[k - 1] = F[k - 1]
        BY <1>8, <1>10, <3>2
      <4> QED BY <4>1, <4>2, <4>3
    <3> QED BY <1>9, <3>1, <3>2
  <2>3. \A k \in done .. n + 1 : SizeOf(E[k]) <= CacheSize
    <3>1. \A k \in done .. n + 1 : k = n + 1 \/ k \in done .. n
      BY <1>1
    <3> QED BY <1>2, <1>5, <1>8, <3>1 DEF WorkerHolds
  <2> QED BY <2>1, <2>2, <2>3 DEF WorkerHolds
<1>13. WorkerFollows(E)'
  <2>1. ASSUME ~Priority, NEW k \in done + 1 .. n + 1, NEW x \in steps'[k].items PROVE x.need \subseteq E[k]
    <3>1. CASE k = n + 1
      BY <1>5, <1>8, <2>1, <3>1
    <3>2. CASE k \in done + 1 .. n /\ k \in done .. n /\ k \in 1 .. n
      BY <1>4, <1>8, <2>1, <3>2 DEF SameSteps
    <3> QED BY <1>9, <3>1, <3>2
  <2> QED BY <1>5, <1>8, <2>1 DEF WorkerFollows
<1>14. done' \in 0 .. Len(steps')
  BY <1>1
<1> QED BY <1>8, <1>12, <1>13, <1>14 DEF StepsInv

-----------------------------------------------------------------------------
(* One lemma for each action *)

LEMMA EmptyPlan ==
    ASSUME DOMAIN plan = {}
    PROVE  PlannedHashes = {}
BY DEF PlannedHashes

LEMMA SamePlan ==
    ASSUME PlanInv, UNCHANGED <<m, plan, budget>>
    PROVE  PlanInv'
BY DEF PlanInv, PlannedHashes

LEMMA SameWorker ==
    ASSUME StepsInv, UNCHANGED <<m, plan, steps, done, wcache>>
    PROVE  StepsInv'
BY DEF StepsInv, WorkerHolds, WorkerFollows, PlannedHashes

LEMMA NoTryInv ==
    ASSUME try = NoTry
    PROVE  TryInv
BY DEF TryInv

(* Without a step under way there is nothing planned. *)
LEMMA IdlePlan ==
    ASSUME DOMAIN plan = {}, budget = Budget
    PROVE  PlanInv
<1>1. PlannedHashes = {} /\ SizeOf({}) = 0
  BY EmptyPlan, SizeEmpty
<1> QED BY <1>1, ConstantTypes DEF PlanInv

LEMMA IdleFacts ==
    ASSUME IInv, phase = "idle"
    PROVE  /\ DOMAIN plan = {} /\ try = NoTry /\ m.freed = {} /\ PlannedHashes = {}
           /\ budget \in Nat /\ cur \in Nat \ {0}
BY EmptyPlan DEF IInv, LoopInv, PlanInv

LEMMA SingleRange ==
    ASSUME NEW r \in Req
    PROVE  <<r>> \in Seq(Req) /\ IsInjective(<<r>>) /\ Range(<<r>>) = {r}
<1>1. <<r>> \in Seq(Req) /\ DOMAIN <<r>> = 1 .. 1 /\ <<r>>[1] = r
  OBVIOUS
<1> HIDE DEF Req
<1>2. IsInjective(<<r>>)
  BY <1>1 DEF IsInjective
<1>3. Range(<<r>>) = {r}
  BY <1>1 DEF Range
<1> QED BY <1>1, <1>2, <1>3

LEMMA InitIInv == Init => IInv
<1> SUFFICES ASSUME Init PROVE IInv
  OBVIOUS
<1>1. Books(m) /\ DOMAIN m.cached = {} /\ m.freed = {}
  BY EmptyBooks DEF Init
<1>2. DOMAIN plan = {} /\ budget = Budget /\ try = NoTry
  BY DEF Init
<1>3. QueueInv
  <2>1. running = <<>> /\ waiting = <<>> /\ arrived = {} /\ computed = [r \in Req |-> 0]
    BY DEF Init
  <2>2. IsInjective(<<>>) /\ Range(<<>>) = {} /\ <<>> \in Seq(Req)
    BY DEF IsInjective, Range
  <2>3. computed \in [Req -> Nat]
    BY <2>1
  <2> QED BY <2>1, <2>2, <2>3 DEF QueueInv
<1>4. LoopInv
  <2>1. phase = "idle" /\ cur = 1
    BY DEF Init
  <2> QED BY <1>1, <1>2, <2>1 DEF LoopInv
<1>5. PlanInv /\ TryInv /\ PlannedHashes = {}
  BY <1>2, IdlePlan, NoTryInv, EmptyPlan
<1>6. StepsInv
  <2>1. steps = <<>> /\ done = 0 /\ wcache = {} /\ Len(steps) = 0
    BY DEF Init
  <2> DEFINE F == [k \in 0 .. 0 |-> {}]
  <2>2. F \in [done .. Len(steps) -> SUBSET Hash] /\ F[0] = {} /\ \A k \in 0 .. 0 : F[k] = {}
    BY <2>1
  <2>3. WorkerHolds(F)
    <3> HIDE DEF F
    <3>1. SizeOf({}) <= CacheSize
      BY SizeEmpty, ConstantTypes
    <3> QED BY <2>1, <2>2, <3>1 DEF WorkerHolds
  <2>4. WorkerFollows(F)
    <3> HIDE DEF F
    <3> QED BY <1>1, <2>1, <2>2 DEF WorkerFollows
  <2>5. steps \in Seq(StepRecord) /\ done \in 0 .. Len(steps)
    BY <2>1
  <2> HIDE DEF F
  <2> QED BY <2>2, <2>3, <2>4, <2>5 DEF StepsInv
<1> QED BY <1>1, <1>3, <1>4, <1>5, <1>6 DEF IInv

LEMMA ArriveStep ==
    ASSUME IInv, NEW r \in Req, Arrive(r)
    PROVE  IInv'
<1>1. /\ phase = "idle" /\ r \notin arrived /\ arrived' = arrived \cup {r}
      /\ waiting' = IF Priority THEN Enter(<<r>>, waiting) ELSE Append(waiting, r)
      /\ UNCHANGED <<m, running, computed, phase, cur, try, plan, budget, steps, done, wcache>>
  BY DEF Arrive, loop, worker
<1>2. Books(m)' /\ PlanInv' /\ StepsInv'
  BY <1>1, SamePlan, SameWorker DEF IInv
<1>3. LoopInv'
  BY <1>1 DEF IInv, LoopInv
<1>4. TryInv'
  BY <1>1, IdleFacts DEF TryInv
<1>5. QueueInv'
  <2>1. /\ running \in Seq(Req) /\ waiting \in Seq(Req) /\ IsInjective(running) /\ IsInjective(waiting)
        /\ Range(running) \cap Range(waiting) = {} /\ Range(running) \cup Range(waiting) \subseteq arrived
        /\ computed \in [Req -> Nat]
    BY DEF IInv, QueueInv
  <2>2. r \notin Range(running) /\ r \notin Range(waiting)
    BY <1>1, <2>1
  <2>3. waiting' \in Seq(Req) /\ IsInjective(waiting') /\ Range(waiting') = Range(waiting) \cup {r}
    <3>1. CASE Priority
      <4> DEFINE one == <<r>>
      <4>1. one \in Seq(Req) /\ IsInjective(one) /\ Range(one) = {r}
        BY SingleRange
      <4>2. waiting' = Enter(one, waiting)
        BY <1>1, <3>1
      <4> HIDE DEF one
      <4>3. Range(one) \cap Range(waiting) = {}
        BY <2>2, <4>1
      <4> QED BY <2>1, <4>1, <4>2, <4>3, EnterProperties
    <3>2. CASE ~Priority
      <4>1. waiting' = Append(waiting, r)
        BY <1>1, <3>2
      <4> QED BY <2>1, <2>2, <4>1, AppendRange
    <3> QED BY <3>1, <3>2
  <2> QED BY <1>1, <2>1, <2>2, <2>3 DEF QueueInv
<1> QED BY <1>2, <1>3, <1>4, <1>5 DEF IInv

LEMMA BeginScheduleStep ==
    ASSUME IInv, BeginSchedule
    PROVE  IInv'
<1>1. /\ phase = "idle" /\ phase' = "running" /\ cur' = 1 /\ plan' = <<>> /\ budget' = Budget
      /\ UNCHANGED <<m, arrived, running, waiting, computed, try, steps, done, wcache>>
  BY DEF BeginSchedule, queues, worker
<1>2. DOMAIN plan' = {} /\ PlannedHashes' = {} /\ DOMAIN plan = {} /\ PlannedHashes = {} /\ try = NoTry
  BY <1>1, IdleFacts DEF PlannedHashes
<1>3. PlanInv'
  <2>1. SizeOf({}) = 0
    BY SizeEmpty
  <2> QED BY <1>1, <1>2, <2>1, ConstantTypes DEF PlanInv
<1>4. StepsInv'
  BY <1>1, <1>2 DEF IInv, StepsInv, WorkerHolds, WorkerFollows
<1>5. LoopInv'
  BY <1>1, <1>2 DEF IInv, LoopInv
<1>6. QueueInv' /\ Books(m)' /\ TryInv'
  BY <1>1, <1>2 DEF IInv, QueueInv, TryInv
<1> QED BY <1>3, <1>4, <1>5, <1>6 DEF IInv

LEMMA SameStepsSelf ==
    ASSUME UNCHANGED steps
    PROVE  SameSteps(steps, steps')
BY DEF SameSteps

(* Encoder inputs were tried: hits are recorded, entries may be evicted. *)
LEMMA TryGood ==
    ASSUME IInv, NEW r \in Req, NEW from \in Nat, NEW n \in Nat \ {0}, NEW t, t = TrySchedule(r, from, n),
           m' = t.m, UNCHANGED <<plan, budget, steps, done, wcache>>
    PROVE  /\ Books(m)' /\ PlanInv' /\ StepsInv'
           /\ t.n # 0 => /\ Kept(t) \in TryRecord /\ Kept(t) # NoTry /\ Kept(t).r = r
                         /\ Covered(Kept(t), t.m)
                         /\ Kept(t).budget + SizeOf(Hashes(Kept(t).r, Kept(t).enc)) <= budget
<1> DEFINE len == Len(Items[r])
<1>1. Books(m) /\ budget \in Nat /\ PlanInv /\ StepsInv
  BY DEF IInv, PlanInv
<1>2. LoopGood(t, len, r, from, from + n, m, budget)
  BY <1>1, TryScheduleGood
<1>3. /\ t \in LoopRecord /\ t.r = r /\ t.from = from /\ Books(t.m)
      /\ t.enc \in SUBSET Inputs(r) /\ t.dup \in SUBSET Inputs(r)
      /\ Hashes(r, t.enc) \cap DOMAIN t.m.cached = {} /\ SizeOf(Hashes(r, t.enc)) <= t.m.free
      /\ Hashes(r, t.dup) \subseteq Hashes(r, t.enc)
      /\ t.budget + SizeOf(Hashes(r, t.enc)) = budget
  BY <1>2 DEF LoopGood
<1>4. /\ \A q \in Req : m.ids[q] \subseteq t.m.ids[q]
      /\ DOMAIN t.m.cached \subseteq DOMAIN m.cached
      /\ DOMAIN m.cached \cup m.freed \subseteq DOMAIN t.m.cached \cup t.m.freed
  BY <1>2 DEF LoopGood
<1>5. \A i \in Inputs(r) : t.n # 0 /\ Overlaps(Items[r][i], from, from + t.n) =>
                               i \in t.enc \cup t.dup \cup t.m.ids[r]
  <2> SUFFICES ASSUME NEW i \in Inputs(r), t.n # 0, Overlaps(Items[r][i], from, from + t.n)
               PROVE  i \in t.enc \cup t.dup \cup t.m.ids[r]
    OBVIOUS
  <2>1. i <= len
    BY ItemTypes
  <2> QED BY <1>2, <2>1 DEF LoopGood
<1>6. PlanInv'
  <2>1. PlannedHashes' = PlannedHashes
    BY DEF PlannedHashes
  <2>2. \A q \in DOMAIN plan : m.ids[q] \subseteq m'.ids[q]
    BY <1>4, PlanFacts
  <2>3. \A q \in DOMAIN plan :
          /\ plan[q].enc \subseteq m'.ids[q]
          /\ Window(q, plan[q].from, plan[q].from + plan[q].n) \subseteq m'.ids[q]
    BY <1>1, <2>2 DEF PlanInv
  <2> QED BY <1>1, <2>1, <2>3 DEF PlanInv
<1>7. StepsInv'
  <2>1. PlannedHashes' = PlannedHashes
    BY DEF PlannedHashes
  <2>2. steps' \in Seq(StepRecord) /\ Len(steps') = Len(steps) /\ SameSteps(steps, steps')
    BY <1>1, SameStepsSelf DEF StepsInv
  <2>3. DOMAIN m'.cached \subseteq (DOMAIN m.cached \ PlannedHashes) \cup PlannedHashes'
    BY <1>4, <2>1
  <2> QED BY <1>1, <1>4, <2>2, <2>3, StepsKept
<1>8. ASSUME t.n # 0
      PROVE  /\ Kept(t) \in TryRecord /\ Kept(t) # NoTry /\ Kept(t).r = r
             /\ Covered(Kept(t), t.m)
             /\ Kept(t).budget + SizeOf(Hashes(Kept(t).r, Kept(t).enc)) <= budget
  <2> DEFINE u == Kept(t)
  <2>1. u.r = r /\ u.from = from /\ u.n = t.n /\ u.budget = t.budget /\ u.enc = t.enc /\ u.dup = t.dup
    BY <1>3 DEF Kept
  <2>2. u \in TryRecord
    BY <1>3 DEF Kept, TryRecord, LoopRecord
  <2>3. u # NoTry
    BY <2>2, NoTryType
  <2> HIDE DEF u
  <2>4. Covered(u, t.m)
    <3>1. Window(r, from, from + t.n) \subseteq t.enc \cup t.dup \cup t.m.ids[r]
      BY <1>5, <1>8 DEF Window
    <3> QED BY <1>3, <2>1, <3>1 DEF Covered
  <2>5. u.budget + SizeOf(Hashes(u.r, u.enc)) <= budget
    BY <1>1, <1>3, <2>1
  <2> QED BY <2>1, <2>2, <2>3, <2>4, <2>5 DEF u
<1>9. Books(m)'
  BY <1>3
<1> QED BY <1>6, <1>7, <1>8, <1>9

LEMMA TryRunningStep ==
    ASSUME IInv, TryRunning
    PROVE  IInv'
<1> DEFINE r == running[cur]
<1>1. /\ phase = "running" /\ try = NoTry /\ cur <= Len(running)
      /\ UNCHANGED <<arrived, running, waiting, computed, phase, plan, budget, steps, done, wcache>>
  BY DEF TryRunning, queues, worker
<1>2. /\ cur \in Nat \ {0} /\ computed \in [Req -> Nat]
  BY DEF IInv, LoopInv, QueueInv
<1>3. cur \in 1 .. Len(running) /\ r \in Req
  BY <1>1, <1>2, QueueFacts
<1>4. QueueInv'
  BY <1>1 DEF IInv, QueueInv
<1>5. ASSUME cur' \in {cur, cur + 1} PROVE LoopInv'
  <2>1. \A k \in 1 .. Len(running) : k < cur => k < cur'
    BY <1>2, <1>5
  <2>2. cur' \in Nat \ {0}
    BY <1>2, <1>5
  <2> QED BY <1>1, <2>1, <2>2 DEF IInv, LoopInv
<1>6. CASE computed[r] = Prompt[r]
  <2>1. cur' = cur + 1 /\ UNCHANGED <<m, try>>
    BY <1>6 DEF TryRunning
  <2>2. PlanInv' /\ StepsInv' /\ Books(m)' /\ TryInv'
    BY <1>1, <2>1, SamePlan, SameWorker DEF IInv, TryInv
  <2> QED BY <1>4, <1>5, <2>1, <2>2 DEF IInv
<1>7. CASE computed[r] # Prompt[r]
  <2>1. PICK n \in 1 .. Prompt[r] - computed[r] : \E t \in {TrySchedule(r, computed[r], n)} :
            /\ m' = t.m
            /\ IF t.n = 0 THEN cur' = cur + 1 /\ UNCHANGED try ELSE try' = Kept(t) /\ UNCHANGED cur
    BY <1>7 DEF TryRunning
  <2>2. PICK t : /\ t = TrySchedule(r, computed[r], n) /\ m' = t.m
                 /\ IF t.n = 0 THEN cur' = cur + 1 /\ UNCHANGED try ELSE try' = Kept(t) /\ UNCHANGED cur
    BY <2>1
  <2>3. computed[r] \in Nat /\ n \in Nat \ {0}
    <3>1. computed[r] \in Nat /\ Prompt[r] \in Nat
      BY <1>2, <1>3, ConstantTypes
    <3> QED BY <3>1
  <2>4. PICK q \in Req, from \in Nat : q = r /\ from = computed[r]
    BY <1>3, <2>3
  <2>5. /\ Books(m)' /\ PlanInv' /\ StepsInv'
        /\ t.n # 0 => /\ Kept(t) \in TryRecord /\ Kept(t) # NoTry /\ Kept(t).r = q
                      /\ Covered(Kept(t), t.m)
                      /\ Kept(t).budget + SizeOf(Hashes(Kept(t).r, Kept(t).enc)) <= budget
    <3>1. t = TrySchedule(q, from, n)
      BY <2>2, <2>4
    <3> QED BY <1>1, <2>2, <2>3, <3>1, TryGood
  <2>6. TryInv'
    <3>1. CASE t.n = 0
      BY <1>1, <2>2, <3>1 DEF TryInv
    <3>2. CASE t.n # 0
      <4>1. try' = Kept(t) /\ cur' = cur /\ m' = t.m
        BY <2>2, <3>2
      <4>2. try'.r = running[cur]
        BY <2>4, <2>5, <3>2, <4>1
      <4>3. Covered(try', m') /\ try' \in TryRecord /\ try'.budget + SizeOf(Hashes(try'.r, try'.enc)) <= budget
        BY <2>5, <3>2, <4>1
      <4> QED BY <1>1, <4>1, <4>2, <4>3 DEF TryInv, Covered
    <3> QED BY <3>1, <3>2
  <2>7. cur' \in {cur, cur + 1}
    BY <2>2
  <2> QED BY <1>4, <1>5, <2>5, <2>6, <2>7 DEF IInv
<1> QED BY <1>6, <1>7

LEMMA TryWaitingStep ==
    ASSUME IInv, TryWaiting
    PROVE  IInv'
<1> DEFINE r == waiting[cur]
<1>1. /\ phase = "waiting" /\ try = NoTry /\ cur <= Len(waiting)
      /\ UNCHANGED <<arrived, running, waiting, computed, phase, plan, budget, steps, done, wcache>>
  BY DEF TryWaiting, queues, worker
<1>2. cur \in Nat \ {0}
  BY DEF IInv, LoopInv
<1>3. cur \in 1 .. Len(waiting) /\ r \in Req
  BY <1>1, <1>2, QueueFacts
<1>4. QueueInv'
  BY <1>1 DEF IInv, QueueInv
<1>5. ASSUME cur' \in {cur, cur + 1} PROVE LoopInv'
  <2>1. cur' \in Nat \ {0}
    BY <1>2, <1>5
  <2> QED BY <1>1, <2>1 DEF IInv, LoopInv
<1>6. CASE Stale(r) /\ r \notin drop
  <2>1. cur' = cur + 1 /\ UNCHANGED <<m, try>>
    BY <1>6 DEF TryWaiting
  <2>2. PlanInv' /\ StepsInv' /\ Books(m)' /\ TryInv'
    BY <1>1, <2>1, SamePlan, SameWorker DEF IInv, TryInv
  <2> QED BY <1>4, <1>5, <2>1, <2>2 DEF IInv
<1>7. CASE ~(Stale(r) /\ r \notin drop)
  <2>1. PICK from \in 0 .. Prompt[r] - 1 : \E n \in 1 .. Prompt[r] - from : \E t \in {TrySchedule(r, from, n)} :
            /\ m' = t.m
            /\ IF t.n = 0 THEN cur' = cur + 1 /\ UNCHANGED try ELSE try' = Kept(t) /\ UNCHANGED cur
    BY <1>7 DEF TryWaiting
  <2>2. PICK n \in 1 .. Prompt[r] - from : \E t :
            /\ t = TrySchedule(r, from, n) /\ m' = t.m
            /\ IF t.n = 0 THEN cur' = cur + 1 /\ UNCHANGED try ELSE try' = Kept(t) /\ UNCHANGED cur
    BY <2>1
  <2>3. PICK t : /\ t = TrySchedule(r, from, n) /\ m' = t.m
                 /\ IF t.n = 0 THEN cur' = cur + 1 /\ UNCHANGED try ELSE try' = Kept(t) /\ UNCHANGED cur
    BY <2>2
  <2>4. from \in Nat /\ n \in Nat \ {0}
    BY <1>3, ConstantTypes
  <2>5. PICK q \in Req : q = r
    BY <1>3
  <2>6. /\ Books(m)' /\ PlanInv' /\ StepsInv'
        /\ t.n # 0 => /\ Kept(t) \in TryRecord /\ Kept(t) # NoTry /\ Kept(t).r = q
                      /\ Covered(Kept(t), t.m)
                      /\ Kept(t).budget + SizeOf(Hashes(Kept(t).r, Kept(t).enc)) <= budget
    <3>1. t = TrySchedule(q, from, n)
      BY <2>3, <2>5
    <3> QED BY <1>1, <2>3, <2>4, <3>1, TryGood
  <2>7. TryInv'
    <3>1. CASE t.n = 0
      BY <1>1, <2>3, <3>1 DEF TryInv
    <3>2. CASE t.n # 0
      <4>1. try' = Kept(t) /\ cur' = cur /\ m' = t.m
        BY <2>3, <3>2
      <4>2. try'.r = waiting[cur]
        BY <2>5, <2>6, <3>2, <4>1
      <4>3. Covered(try', m') /\ try' \in TryRecord /\ try'.budget + SizeOf(Hashes(try'.r, try'.enc)) <= budget
        BY <2>6, <3>2, <4>1
      <4> QED BY <1>1, <4>1, <4>2, <4>3 DEF TryInv, Covered
    <3> QED BY <3>1, <3>2
  <2>8. cur' \in {cur, cur + 1}
    BY <2>3
  <2> QED BY <1>4, <1>5, <2>6, <2>7, <2>8 DEF IInv
<1> QED BY <1>6, <1>7

(* The inputs of try are entered: their outputs are cached and held. *)
LEMMA AllocatedBooks ==
    ASSUME IInv, try # NoTry
    PROVE  LET d == Allocated(m)
           IN  /\ Books(d) /\ d.freed = m.freed
               /\ DOMAIN d.cached = DOMAIN m.cached \cup Hashes(try.r, try.enc)
               /\ d.ids[try.r] = m.ids[try.r] \cup try.enc \cup try.dup
               /\ \A q \in Req : q # try.r => d.ids[q] = m.ids[q]
<1> DEFINE d == Allocated(m)
<1>0. PICK r \in Req : r = try.r
  BY TryFacts
<1>1. PICK I \in SUBSET Inputs(r), J \in SUBSET Inputs(r) : r = try.r /\ I = try.enc /\ J = try.dup
  BY <1>0, TryFacts DEF Covered
<1>2. /\ Hashes(r, I) \cap DOMAIN m.cached = {} /\ SizeOf(Hashes(r, I)) <= m.free
      /\ Hashes(r, J) \subseteq Hashes(r, I)
  BY <1>1, TryFacts DEF Covered
<1>3. Books(m) /\ m.ids \in [Req -> SUBSET Nat]
  BY CacheFacts DEF IInv
<1>4. CASE I = {}
  <2>1. d = m
    BY <1>1, <1>4 DEF Allocated
  <2>2. Hashes(r, I) = {} /\ J = {}
    BY <1>2, <1>4 DEF Hashes
  <2> HIDE DEF d
  <2> QED BY <1>1, <1>3, <1>4, <2>1, <2>2 DEF d
<1>5. CASE I # {}
  <2> DEFINE a == allocate(m, r, I)
             e == check_and_update_cache(a, r, J)
  <2>1. d = e
    BY <1>1, <1>5 DEF Allocated
  <2>2. /\ Books(a) /\ DOMAIN a.cached = DOMAIN m.cached \cup Hashes(r, I) /\ a.freed = m.freed
        /\ a.ids = [m.ids EXCEPT ![r] = @ \cup I]
    BY <1>2, <1>3, AllocateBooks
  <2> HIDE DEF a, d
  <2>3. Hashes(r, J) \subseteq DOMAIN a.cached
    BY <1>2, <2>2
  <2>4. /\ Books(e) /\ DOMAIN e.cached = DOMAIN a.cached /\ e.freed = a.freed
        /\ e.ids = [a.ids EXCEPT ![r] = @ \cup J]
    BY <2>2, <2>3, CheckBooks
  <2> HIDE DEF e
  <2>5. e.ids[r] = m.ids[r] \cup I \cup J /\ \A q \in Req : q # r => e.ids[q] = m.ids[q]
    BY <1>3, <2>2, <2>4
  <2> QED BY <1>1, <2>1, <2>2, <2>4, <2>5 DEF d
<1> QED BY <1>4, <1>5

LEMMA AllocateGood ==
    ASSUME IInv, try # NoTry, m' = Allocated(m), plan' = Planned,
           budget' = IF try.enc = {} THEN budget ELSE try.budget, UNCHANGED <<steps, done, wcache>>
    PROVE  Books(m)' /\ PlanInv' /\ StepsInv' /\ DOMAIN plan' = DOMAIN plan \cup {try.r}
<1>1. PICK r \in Req, H \in SUBSET Hash : r = try.r /\ H = Hashes(try.r, try.enc)
  BY TryFacts, HashesType DEF Covered
<1>2. /\ Books(m') /\ m'.freed = m.freed /\ DOMAIN m'.cached = DOMAIN m.cached \cup H
      /\ m'.ids[r] = m.ids[r] \cup try.enc \cup try.dup
      /\ \A q \in Req : q # r => m'.ids[q] = m.ids[q]
  BY <1>1, AllocatedBooks
<1>3. /\ r \notin DOMAIN plan /\ try.from \in Nat /\ try.n \in Nat /\ try.budget \in Nat
      /\ try.enc \in SUBSET Inputs(r) /\ H \cap DOMAIN m.cached = {}
      /\ Window(r, try.from, try.from + try.n) \subseteq try.enc \cup try.dup \cup m.ids[r]
  BY <1>1, TryFacts DEF Covered
<1>4. /\ DOMAIN plan' = DOMAIN plan \cup {r}
      /\ plan'[r] = [from |-> try.from, n |-> try.n, enc |-> try.enc]
      /\ \A q \in DOMAIN plan : plan'[q] = plan[q]
  BY <1>1, <1>3 DEF Planned
<1>5. plan'[r].from = try.from /\ plan'[r].n = try.n /\ plan'[r].enc = try.enc
  BY <1>4
<1>6. Hashes(r, plan'[r].enc) = H /\ \A q \in DOMAIN plan : Hashes(q, plan'[q].enc) = Hashes(q, plan[q].enc)
  BY <1>1, <1>4, <1>5
<1>7. PlannedHashes' = PlannedHashes \cup H
  BY <1>4, <1>6 DEF PlannedHashes
<1>8. PlannedHashes \in SUBSET Hash /\ PlannedHashes \subseteq DOMAIN m.cached /\ PlannedHashes \cap H = {}
  BY <1>3, PlanFacts
<1>9. /\ DOMAIN plan \in SUBSET Req
      /\ \A q \in DOMAIN plan : Hashes(q, plan[q].enc) \subseteq PlannedHashes
  BY PlanFacts DEF PlannedHashes
<1>10. PlanInv'
  <2>1. ASSUME NEW q \in DOMAIN plan'
        PROVE  /\ plan'[q] \in [from : Nat, n : Nat, enc : SUBSET Nat]
               /\ plan'[q].enc \subseteq m'.ids[q]
               /\ Window(q, plan'[q].from, plan'[q].from + plan'[q].n) \subseteq m'.ids[q]
    <3>1. CASE q = r
      <4>1. try.enc \in SUBSET Nat
        BY <1>3, ItemTypes
      <4> QED BY <1>2, <1>3, <1>4, <1>5, <3>1, <4>1
    <3>2. CASE q \in DOMAIN plan
      <4>1. q \in Req /\ q # r
        BY <1>3, <1>9, <3>2
      <4>2. /\ plan[q] \in [from : Nat, n : Nat, enc : SUBSET Nat]
            /\ plan[q].enc \subseteq m.ids[q]
            /\ Window(q, plan[q].from, plan[q].from + plan[q].n) \subseteq m.ids[q]
        BY <3>2 DEF IInv, PlanInv
      <4>3. plan'[q] = plan[q] /\ m'.ids[q] = m.ids[q]
        BY <1>2, <1>4, <3>2, <4>1
      <4> QED BY <4>2, <4>3
    <3> QED BY <1>4, <3>1, <3>2
  <2>2. ASSUME NEW p \in DOMAIN plan', NEW q \in DOMAIN plan', p # q
        PROVE  Hashes(p, plan'[p].enc) \cap Hashes(q, plan'[q].enc) = {}
    <3>1. CASE p \in DOMAIN plan /\ q \in DOMAIN plan
      <4>1. Hashes(p, plan[p].enc) \cap Hashes(q, plan[q].enc) = {}
        BY <2>2, <3>1 DEF IInv, PlanInv
      <4> QED BY <1>6, <3>1, <4>1
    <3>2. CASE p \in DOMAIN plan /\ q = r
      BY <1>6, <1>8, <1>9, <3>2
    <3>3. CASE q \in DOMAIN plan /\ p = r
      BY <1>6, <1>8, <1>9, <3>3
    <3> QED BY <1>4, <2>2, <3>1, <3>2, <3>3
  <2>3. budget' \in Nat /\ budget' + SizeOf(PlannedHashes') <= Budget
    <3>1. /\ budget \in Nat /\ budget + SizeOf(PlannedHashes) <= Budget
      BY DEF IInv, PlanInv
    <3>2. try.budget + SizeOf(H) <= budget
      BY <1>1 DEF IInv, TryInv
    <3>3. SizeOf(PlannedHashes') = SizeOf(PlannedHashes) + SizeOf(H)
      BY <1>7, <1>8, SizeDisjoint
    <3>4. SizeOf(PlannedHashes) \in Nat /\ SizeOf(H) \in Nat
      BY <1>8, SizeFinite
    <3>5. budget' \in Nat /\ budget' + SizeOf(H) <= budget
      <4>1. CASE try.enc = {}
        <5>1. H = {}
          BY <1>1, <4>1 DEF Hashes
        <5>2. SizeOf(H) = 0
          BY <5>1, SizeEmpty
        <5> QED BY <3>1, <4>1, <5>2
      <4>2. CASE try.enc # {}
        BY <1>3, <3>2, <4>2
      <4> QED BY <4>1, <4>2
    <3>6. PICK x \in Nat, y \in Nat : x = SizeOf(PlannedHashes) /\ y = SizeOf(H)
      BY <3>4
    <3> QED BY <3>1, <3>3, <3>5, <3>6, ConstantTypes
  <2> QED BY <2>1, <2>2, <2>3 DEF PlanInv
<1>11. StepsInv'
  <2>1. steps' \in Seq(StepRecord) /\ Len(steps') = Len(steps) /\ SameSteps(steps, steps') /\ StepsInv
    BY SameStepsSelf DEF IInv, StepsInv
  <2>2. /\ DOMAIN m.cached \cup m.freed \subseteq DOMAIN m'.cached \cup m'.freed
        /\ DOMAIN m'.cached \subseteq (DOMAIN m.cached \ PlannedHashes) \cup PlannedHashes'
    BY <1>2, <1>7
  <2> QED BY <2>1, <2>2, StepsKept
<1> QED BY <1>1, <1>2, <1>4, <1>10, <1>11

LEMMA AllocateRunningStep ==
    ASSUME IInv, AllocateRunning
    PROVE  IInv'
<1>1. /\ phase = "running" /\ try # NoTry /\ m' = Allocated(m) /\ plan' = Planned
      /\ budget' = (IF try.enc = {} THEN budget ELSE try.budget)
      /\ cur' = cur + 1 /\ try' = NoTry
      /\ UNCHANGED <<arrived, running, waiting, computed, phase, steps, done, wcache>>
  BY DEF AllocateRunning, queues, worker
<1>2. Books(m)' /\ PlanInv' /\ StepsInv' /\ DOMAIN plan' = DOMAIN plan \cup {try.r}
  BY <1>1, AllocateGood
<1>3. QueueInv' /\ TryInv'
  BY <1>1 DEF IInv, QueueInv, TryInv
<1>4. LoopInv'
  <2>1. cur \in Nat \ {0} /\ cur <= Len(running) /\ try.r = running[cur]
    BY <1>1 DEF IInv, LoopInv, TryInv
  <2>2. cur \in 1 .. Len(running) /\ try.r \in Range(running)
    BY <2>1, QueueFacts
  <2>3. /\ DOMAIN plan \subseteq Range(running)
        /\ \A r \in DOMAIN plan : \E k \in 1 .. Len(running) : k < cur /\ running[k] = r
    BY <1>1 DEF IInv, LoopInv
  <2>4. \A k \in 1 .. Len(running) : k < cur => k < cur + 1
    BY <2>1
  <2>5. cur + 1 \in Nat \ {0} /\ cur < cur + 1
    BY <2>1
  <2>6. \A r \in DOMAIN plan' : \E k \in 1 .. Len(running) : k < cur + 1 /\ running[k] = r
    BY <1>2, <2>1, <2>2, <2>3, <2>4, <2>5
  <2> QED BY <1>1, <1>2, <2>2, <2>3, <2>5, <2>6 DEF LoopInv
<1> QED BY <1>2, <1>3, <1>4 DEF IInv

LEMMA AllocateWaitingStep ==
    ASSUME IInv, AllocateWaiting
    PROVE  IInv'
<1>1. /\ phase = "waiting" /\ try # NoTry /\ m' = Allocated(m) /\ plan' = Planned
      /\ budget' = (IF try.enc = {} THEN budget ELSE try.budget)
      /\ computed' = [computed EXCEPT ![try.r] = try.from]
      /\ running' = Append(running, try.r) /\ waiting' = Without(waiting, {try.r})
      /\ try' = NoTry
      /\ UNCHANGED <<arrived, phase, cur, steps, done, wcache>>
  BY DEF AllocateWaiting, worker
<1>2. Books(m)' /\ PlanInv' /\ StepsInv' /\ DOMAIN plan' = DOMAIN plan \cup {try.r}
  BY <1>1, AllocateGood
<1>3. /\ running \in Seq(Req) /\ waiting \in Seq(Req) /\ IsInjective(running) /\ IsInjective(waiting)
      /\ Range(running) \cap Range(waiting) = {} /\ Range(running) \cup Range(waiting) \subseteq arrived
      /\ computed \in [Req -> Nat]
  BY DEF IInv, QueueInv
<1>4. PICK r \in Req : r = try.r
  BY <1>1, TryFacts
<1>5. r \in Range(waiting) /\ r \notin Range(running) /\ try.from \in Nat
  BY <1>1, <1>3, <1>4, TryFacts
<1>6. running' \in Seq(Req) /\ Range(running') = Range(running) \cup {r} /\ IsInjective(running')
  BY <1>1, <1>3, <1>4, <1>5, AppendRange
<1>7. waiting' \in Seq(Req) /\ Range(waiting') = Range(waiting) \ {r} /\ IsInjective(waiting')
  <2> DEFINE X == {r}
  <2>1. waiting' = Without(waiting, X)
    BY <1>1, <1>4
  <2> HIDE DEF X
  <2>2. waiting' \in Seq(Req) /\ Range(waiting') = Range(waiting) \ X /\ IsInjective(waiting')
    BY <1>3, <2>1, WithoutProperties
  <2> QED BY <2>2 DEF X
<1>8. QueueInv'
  <2>1. computed' \in [Req -> Nat]
    BY <1>1, <1>3, <1>5
  <2> QED BY <1>1, <1>3, <1>5, <1>6, <1>7, <2>1 DEF QueueInv
<1>9. LoopInv'
  <2>1. cur \in Nat \ {0} /\ DOMAIN plan \subseteq Range(running)
    BY DEF IInv, LoopInv
  <2> QED BY <1>1, <1>2, <1>4, <1>6, <2>1 DEF LoopInv
<1>10. TryInv'
  BY <1>1 DEF TryInv
<1> QED BY <1>2, <1>8, <1>9, <1>10 DEF IInv

(* The loop over the running queue ends. *)
LEMMA RunningEndsStep ==
    ASSUME IInv, BlockedRunning \/ EndRunning
    PROVE  IInv'
<1>1. /\ phase = "running" /\ phase' = "waiting" /\ cur' = 1 /\ try' = NoTry
      /\ UNCHANGED <<m, arrived, running, waiting, computed, plan, budget, steps, done, wcache>>
  BY DEF BlockedRunning, EndRunning, queues, worker
<1>2. Books(m)' /\ PlanInv' /\ StepsInv'
  BY <1>1, SamePlan, SameWorker DEF IInv
<1>3. QueueInv' /\ TryInv'
  BY <1>1 DEF IInv, QueueInv, TryInv
<1>4. LoopInv'
  BY <1>1 DEF IInv, LoopInv
<1> QED BY <1>2, <1>3, <1>4 DEF IInv

LEMMA MarkStaleSame ==
    ASSUME steps \in Seq(StepRecord), NEW v
    PROVE  /\ MarkStale(v) \in Seq(StepRecord) /\ Len(MarkStale(v)) = Len(steps)
           /\ SameSteps(steps, MarkStale(v))
<1> DEFINE n == Len(steps)
           mark(x) == IF x.r = v THEN [x EXCEPT !.live = FALSE] ELSE x
           st(k) == [steps[k] EXCEPT !.items = {mark(x) : x \in steps[k].items}]
           q == MarkStale(v)
<1>1. n \in Nat /\ DOMAIN steps = 1 .. n /\ \A k \in 1 .. n : steps[k] \in StepRecord
  OBVIOUS
<1>2. q = [k \in 1 .. n |-> st(k)]
  BY <1>1 DEF MarkStale, StepRecord
<1>3. ASSUME NEW k \in 1 .. n, NEW x \in steps[k].items
      PROVE  mark(x) \in ItemRecord /\ mark(x).need = x.need
  <2>1. x \in ItemRecord
    BY <1>1 DEF StepRecord
  <2> QED BY <2>1 DEF ItemRecord
<1>4. ASSUME NEW k \in 1 .. n
      PROVE  /\ st(k) \in StepRecord /\ st(k).enc = steps[k].enc /\ st(k).freed = steps[k].freed
             /\ st(k).reset = steps[k].reset
             /\ \A x \in st(k).items : \E y \in steps[k].items : x.need = y.need
  <2>1. steps[k] \in StepRecord
    BY <1>1
  <2>2. {mark(x) : x \in steps[k].items} \in SUBSET ItemRecord
    BY <1>3
  <2>3. \A x \in {mark(y) : y \in steps[k].items} : \E y \in steps[k].items : x.need = y.need
    BY <1>3
  <2> HIDE DEF mark
  <2>4. st(k).items = {mark(x) : x \in steps[k].items}
    BY <2>1 DEF StepRecord
  <2>5. st(k) \in StepRecord
    BY <2>1, <2>2 DEF StepRecord
  <2>6. st(k).enc = steps[k].enc /\ st(k).freed = steps[k].freed /\ st(k).reset = steps[k].reset
    BY <2>1 DEF StepRecord
  <2> HIDE DEF st
  <2> QED BY <2>3, <2>4, <2>5, <2>6
<1> HIDE DEF st, q
<1>5. q \in Seq(StepRecord) /\ Len(q) = n /\ \A k \in 1 .. n : q[k] = st(k)
  BY <1>1, <1>2, <1>4
<1>6. SameSteps(steps, q)
  BY <1>4, <1>5 DEF SameSteps
<1> QED BY <1>5, <1>6 DEF q

(* There is a running request to preempt. *)
LEMMA VictimRunning ==
    ASSUME IInv, running # <<>>
    PROVE  /\ Victim \in Range(running) /\ (~Priority => Victim = running[Len(running)])
           /\ Len(running) \in 1 .. Len(running)
<1>1. Len(running) \in Nat /\ Len(running) # 0 /\ Len(running) \in 1 .. Len(running)
  <2>1. running \in Seq(Req)
    BY DEF IInv, QueueInv
  <2> QED BY <2>1
<1>2. CASE ~Priority
  <2>1. Victim = running[Len(running)]
    BY <1>2 DEF Victim, Last
  <2> QED BY <1>1, <2>1, QueueFacts
<1>3. CASE Priority
  <2> DEFINE S == Range(running)
             T == {x \in Nat : \A y \in S : y <= x}
  <2>1. S \subseteq Nat /\ S # {} /\ NumReqs \in T
    <3>1. S \in SUBSET Req /\ running[Len(running)] \in S
      BY <1>1, QueueFacts
    <3>2. \A y \in Req : y \in Nat /\ y <= NumReqs
      BY ConstantTypes DEF Req
    <3> QED BY <3>1, <3>2, ConstantTypes
  <2>2. T \in SUBSET Nat /\ T # {}
    BY <2>1
  <2> HIDE DEF S
  <2>3. PICK x \in T : \A y \in T : x <= y
    <3> HIDE DEF T
    <3> QED BY <2>2, LeastNat
  <2>4. x \in S
    <3>1. ASSUME x \notin S PROVE FALSE
      <4>1. \A y \in S : y \in Nat /\ y <= x /\ y # x
        BY <2>1, <3>1
      <4>2. x # 0
        <5>1. PICK y \in S : y \in Nat /\ y <= x /\ y # x
          BY <2>1, <4>1
        <5>2. x \in Nat
          BY <2>3
        <5> QED BY <5>1, <5>2
      <4>3. x - 1 \in Nat /\ \A y \in S : y <= x - 1
        BY <4>1, <4>2
      <4>4. x - 1 \in T
        BY <4>3
      <4> QED BY <2>3, <4>4
    <3> QED BY <3>1
  <2>5. \E z \in S : \A y \in S : z >= y
    BY <2>1, <2>4
  <2>6. Max(S) \in S
    BY <2>5 DEF Max
  <2> QED BY <1>3, <2>6 DEF Victim, S
<1> QED BY <1>1, <1>2, <1>3, ConstantTypes

LEMMA PreemptForRunningStep ==
    ASSUME IInv, PreemptForRunning
    PROVE  IInv'
<1>1. phase = "running" /\ try # NoTry
  BY DEF PreemptForRunning
<1>2. cur \in Nat \ {0} /\ cur <= Len(running) /\ try.r = running[cur] /\ Len(running) \in Nat
  BY <1>1, QueueFacts DEF IInv, LoopInv, TryInv
<1>3. /\ Victim \in Range(running) /\ (~Priority => Victim = running[Len(running)])
      /\ Len(running) \in 1 .. Len(running)
  <2>1. running # <<>>
    BY <1>2
  <2> QED BY <2>1, VictimRunning
<1>4. PICK v \in Req : v = Victim
  BY <1>3, QueueFacts
<1>5. PICK x \in 1 .. Len(running) : running[x] = v /\ x = CHOOSE k \in DOMAIN running : running[k] = v
  <2>1. \E k \in DOMAIN running : running[k] = v
    BY <1>3, <1>4, QueueFacts
  <2>2. DOMAIN running = 1 .. Len(running)
    BY QueueFacts
  <2> QED BY <2>1, <2>2
<1>6. /\ Preempt(v) /\ running' = RemoveAt(running, x)
      /\ plan' = [r \in DOMAIN plan \ {v} |-> plan[r]]
      /\ budget' = (IF v \in DOMAIN plan THEN budget + SizeOf(Hashes(v, plan[v].enc)) ELSE budget)
      /\ cur' = (IF x < cur THEN cur - 1 ELSE cur)
      /\ try' = (IF v = try.r THEN NoTry ELSE try)
      /\ phase' = (IF v = try.r /\ ~Priority THEN "waiting" ELSE phase)
      /\ UNCHANGED <<arrived, done, wcache>>
  BY <1>4, <1>5 DEF PreemptForRunning
<1>7. /\ waiting' = Enter(<<v>>, waiting) /\ computed' = [computed EXCEPT ![v] = 0]
      /\ steps' = MarkStale(v) /\ m' = free(m, {v})
  BY <1>6 DEF Preempt
<1>8. /\ running \in Seq(Req) /\ waiting \in Seq(Req) /\ IsInjective(running) /\ IsInjective(waiting)
      /\ Range(running) \cap Range(waiting) = {} /\ Range(running) \cup Range(waiting) \subseteq arrived
      /\ computed \in [Req -> Nat]
  BY DEF IInv, QueueInv
<1>9. /\ running' \in Seq(Req) /\ Len(running') = Len(running) - 1 /\ IsInjective(running')
      /\ \A i \in 1 .. Len(running') : running'[i] = IF i < x THEN running[i] ELSE running[i + 1]
      /\ Range(running') = Range(running) \ {v}
  <2> DEFINE d == RemoveAt(running, x)
  <2>1. running \in Seq(Req) /\ IsInjective(running)
    BY <1>8
  <2>2. /\ d \in Seq(Req) /\ Len(d) = Len(running) - 1 /\ IsInjective(d)
        /\ \A i \in 1 .. Len(d) : d[i] = IF i < x THEN running[i] ELSE running[i + 1]
        /\ Range(d) = Range(running) \ {running[x]}
    BY <2>1, RemoveAtProperties
  <2>3. running' = d /\ running[x] = v
    BY <1>5, <1>6
  <2> HIDE DEF d
  <2> QED BY <2>2, <2>3
<1>10. /\ Books(m') /\ DOMAIN m'.cached = DOMAIN m.cached /\ m'.free = m.free /\ m'.freed = m.freed
       /\ \A r \in Req : r # v => m'.ids[r] = m.ids[r]
  <2> DEFINE R == {v}
  <2>1. m' = free(m, R) /\ Books(m) /\ \A r : r \notin R <=> r # v
    BY <1>7 DEF IInv
  <2> HIDE DEF R
  <2>2. /\ Books(m') /\ DOMAIN m'.cached = DOMAIN m.cached /\ m'.free = m.free /\ m'.freed = m.freed
        /\ \A r \in Req : r \notin R => m'.ids[r] = m.ids[r]
    BY <2>1, FreeBooks
  <2> QED BY <2>1, <2>2
<1>11. DOMAIN plan' = DOMAIN plan \ {v} /\ \A r \in DOMAIN plan' : plan'[r] = plan[r]
  BY <1>6
<1>12. DOMAIN plan \in SUBSET Req /\ PlannedHashes \in SUBSET Hash /\ budget \in Nat
  BY PlanFacts DEF IInv, PlanInv
<1>13. QueueInv'
  <2> DEFINE one == <<v>>
  <2>1. one \in Seq(Req) /\ IsInjective(one) /\ Range(one) = {v} /\ waiting' = Enter(one, waiting)
    BY <1>7, SingleRange
  <2> HIDE DEF one
  <2>2. Range(one) \cap Range(waiting) = {}
    BY <1>3, <1>4, <1>8, <2>1
  <2>3. waiting' \in Seq(Req) /\ IsInjective(waiting') /\ Range(waiting') = {v} \cup Range(waiting)
    BY <1>8, <2>1, <2>2, EnterProperties
  <2>4. computed' \in [Req -> Nat]
    BY <1>7, <1>8
  <2> QED BY <1>3, <1>4, <1>6, <1>8, <1>9, <2>3, <2>4 DEF QueueInv
<1>14. /\ x \in Nat /\ 1 <= x /\ x <= Len(running) /\ Len(running') = Len(running) - 1
       /\ cur' = (IF x < cur THEN cur - 1 ELSE cur)
  <2>1. x \in Nat /\ 1 <= x /\ x <= Len(running)
    BY <1>2
  <2>2. Len(running') = Len(running) - 1
    BY <1>9
  <2>3. cur' = (IF x < cur THEN cur - 1 ELSE cur)
    BY <1>6
  <2> QED BY <2>1, <2>2, <2>3
<1>15. \A r \in DOMAIN plan : \E k \in 1 .. Len(running) : k < cur /\ running[k] = r
  BY <1>1 DEF IInv, LoopInv
<1>16. cur' \in Nat \ {0} /\ phase' \in {"running", "waiting"}
  BY <1>1, <1>2, <1>6, <1>14
<1>17. LoopInv'
  <2>1. ASSUME NEW r \in DOMAIN plan' PROVE \E k \in 1 .. Len(running') : k < cur' /\ running'[k] = r
    <3>1. PICK k \in 1 .. Len(running) : k < cur /\ running[k] = r
      BY <1>11, <1>15
    <3>2. k # x
      BY <1>5, <1>11, <3>1
    <3>3. CASE k < x
      <4>1. k \in 1 .. Len(running') /\ k < cur'
        BY <1>2, <1>14, <3>1, <3>3
      <4>2. running'[k] = r
        BY <1>9, <3>1, <3>3, <4>1
      <4> QED BY <4>1, <4>2
    <3>4. CASE k > x
      <4>1. k - 1 \in 1 .. Len(running') /\ k - 1 < cur' /\ ~(k - 1 < x) /\ (k - 1) + 1 = k
        BY <1>2, <1>14, <3>1, <3>4
      <4>2. running'[k - 1] = r
        BY <1>9, <3>1, <4>1
      <4> QED BY <4>1, <4>2
    <3> QED BY <3>2, <3>3, <3>4
  <2>2. DOMAIN plan' \subseteq Range(running')
    <3>1. DOMAIN plan \subseteq Range(running)
      BY DEF IInv, LoopInv
    <3> QED BY <1>9, <1>11, <3>1
  <2> QED BY <1>16, <2>1, <2>2 DEF LoopInv
<1>18. /\ budget' \in Nat /\ budget <= budget' /\ budget' + SizeOf(PlannedHashes') <= Budget
       /\ v \notin DOMAIN plan => PlannedHashes' = PlannedHashes
  <2>1. budget + SizeOf(PlannedHashes) <= Budget
    BY DEF IInv, PlanInv
  <2>2. CASE v \in DOMAIN plan
    <3> DEFINE H == Hashes(v, plan[v].enc)
    <3>1. PlannedHashes = PlannedHashes' \cup H
      BY <1>11, <2>2 DEF PlannedHashes
    <3>2. PlannedHashes' \cap H = {}
      <4>1. \A r \in DOMAIN plan' : Hashes(r, plan[r].enc) \cap H = {}
        BY <1>11, <2>2 DEF IInv, PlanInv
      <4>2. PlannedHashes' = UNION {Hashes(r, plan[r].enc) : r \in DOMAIN plan'}
        BY <1>11 DEF PlannedHashes
      <4> HIDE DEF H
      <4> QED BY <4>1, <4>2
    <3>3. budget' = budget + SizeOf(H)
      BY <1>6, <2>2
    <3> HIDE DEF H
    <3>4. PICK P \in SUBSET Hash : P = PlannedHashes'
      BY <1>12, <3>1
    <3>5. H \in SUBSET Hash
      BY <1>12, <3>1
    <3>6. SizeOf(P \cup H) = SizeOf(P) + SizeOf(H)
      BY <3>2, <3>4, <3>5, SizeDisjoint
    <3>7. SizeOf(P) \in Nat /\ SizeOf(H) \in Nat
      BY <3>5, SizeFinite
    <3>8. SizeOf(PlannedHashes) = SizeOf(P) + SizeOf(H)
      BY <3>1, <3>4, <3>6
    <3>9. budget' \in Nat /\ budget <= budget' /\ budget' + SizeOf(P) <= Budget
      BY <1>12, <2>1, <3>3, <3>7, <3>8, ConstantTypes
    <3> QED BY <2>2, <3>4, <3>9
  <2>3. CASE v \notin DOMAIN plan
    <3>1. PlannedHashes' = PlannedHashes
      BY <1>11, <2>3 DEF PlannedHashes
    <3>2. budget' = budget
      BY <1>6, <2>3
    <3> QED BY <1>12, <2>1, <3>1, <3>2
  <2> QED BY <2>2, <2>3
<1>19. PlanInv'
  <2>1. ASSUME NEW r \in DOMAIN plan'
        PROVE  /\ plan'[r] \in [from : Nat, n : Nat, enc : SUBSET Nat]
               /\ plan'[r].enc \subseteq m'.ids[r]
               /\ Window(r, plan'[r].from, plan'[r].from + plan'[r].n) \subseteq m'.ids[r]
    <3>1. r \in DOMAIN plan /\ r \in Req /\ r # v
      BY <1>11, <1>12
    <3>2. plan'[r] = plan[r] /\ m'.ids[r] = m.ids[r]
      BY <1>10, <1>11, <3>1
    <3>3. /\ plan[r] \in [from : Nat, n : Nat, enc : SUBSET Nat]
          /\ plan[r].enc \subseteq m.ids[r]
          /\ Window(r, plan[r].from, plan[r].from + plan[r].n) \subseteq m.ids[r]
      BY <3>1 DEF IInv, PlanInv
    <3> QED BY <3>2, <3>3
  <2>2. \A r, q \in DOMAIN plan' : r # q => Hashes(r, plan'[r].enc) \cap Hashes(q, plan'[q].enc) = {}
    BY <1>11 DEF IInv, PlanInv
  <2> QED BY <1>18, <2>1, <2>2 DEF PlanInv
<1>20. TryInv'
  <2> SUFFICES ASSUME try' # NoTry PROVE TryInv'
    BY DEF TryInv
  <2>1. v # try.r /\ try' = try /\ phase' = "running"
    BY <1>1, <1>6
  <2>2. /\ try \in TryRecord /\ Covered(try, m) /\ try.r \in Req /\ try.budget \in Nat
    BY <1>1, TryFacts
  <2>3. Covered(try, m')
    BY <1>10, <2>1, <2>2 DEF Covered
  <2>4. try.budget + SizeOf(Hashes(try.r, try.enc)) <= budget'
    <3>1. try.budget + SizeOf(Hashes(try.r, try.enc)) <= budget
      BY <1>1 DEF IInv, TryInv
    <3>2. SizeOf(Hashes(try.r, try.enc)) \in Nat
      <4>1. Hashes(try.r, try.enc) \in SUBSET Hash
        BY <2>2, HashesType DEF Covered
      <4> QED BY <4>1, SizeFinite
    <3> QED BY <1>12, <1>18, <2>2, <3>1, <3>2
  <2>5. cur' <= Len(running') /\ try.r = running'[cur']
    <3>1. x # cur
      BY <1>2, <1>5, <2>1
    <3>2. CASE x < cur
      <4>1. cur' \in 1 .. Len(running') /\ ~(cur' < x) /\ cur' + 1 = cur
        BY <1>2, <1>14, <3>2
      <4>2. running'[cur'] = running[cur]
        BY <1>9, <4>1
      <4> QED BY <1>2, <1>9, <4>1, <4>2
    <3>3. CASE x > cur
      <4>1. cur' \in 1 .. Len(running') /\ cur' < x /\ cur' = cur
        BY <1>2, <1>14, <3>3
      <4>2. running'[cur'] = running[cur]
        BY <1>9, <4>1
      <4> QED BY <1>2, <1>9, <4>1, <4>2
    <3> QED BY <1>2, <3>1, <3>2, <3>3
  <2> QED BY <2>1, <2>2, <2>3, <2>4, <2>5 DEF TryInv, Covered
<1>21. StepsInv'
  <2>1. StepsInv /\ steps \in Seq(StepRecord)
    BY DEF IInv, StepsInv
  <2>2. steps' \in Seq(StepRecord) /\ Len(steps') = Len(steps) /\ SameSteps(steps, steps')
    BY <1>7, <2>1, MarkStaleSame
  <2>3. ASSUME ~Priority PROVE v \notin DOMAIN plan
    <3>1. ASSUME v \in DOMAIN plan PROVE FALSE
      <4>1. PICK k \in 1 .. Len(running) : k < cur /\ running[k] = v
        BY <1>15, <3>1
      <4>2. running[Len(running)] = v
        BY <1>3, <1>4, <2>3
      <4>3. Len(running) \in 1 .. Len(running)
        BY <1>3, Zenon
      <4>4. k = Len(running)
        BY <4>1, <4>2, <4>3, QueueFacts
      <4> QED BY <1>2, <4>1, <4>4
    <3> QED BY <3>1
  <2>4. ~Priority => DOMAIN m'.cached \subseteq (DOMAIN m.cached \ PlannedHashes) \cup PlannedHashes'
    BY <1>10, <1>18, <2>3
  <2>5. DOMAIN m.cached \cup m.freed \subseteq DOMAIN m'.cached \cup m'.freed
    BY <1>10
  <2> QED BY <1>6, <2>1, <2>2, <2>4, <2>5, StepsKept
<1> QED BY <1>10, <1>13, <1>17, <1>19, <1>20, <1>21 DEF IInv

LEMMA FreedCleared ==
    ASSUME NEW c, Books(c)
    PROVE  LET d == [c EXCEPT !.freed = {}]
           IN  Books(d) /\ DOMAIN d.cached = DOMAIN c.cached /\ d.freed = {} /\ d.ids = c.ids
<1> DEFINE d == [c EXCEPT !.freed = {}]
<1>1. c \in CacheRecord /\ Slots(c) /\ Evictable(c) /\ References(c) /\ HeldCached(c)
  BY DEF Books
<1>2. /\ d \in CacheRecord /\ d.freed = {} /\ d.cached = c.cached /\ d.ids = c.ids /\ d.free = c.free
      /\ d.freeable = c.freeable /\ d.freeable_slots = c.freeable_slots
  BY <1>1 DEF CacheRecord
<1> HIDE DEF d
<1>3. Slots(d) /\ Evictable(d)
  BY <1>1, <1>2 DEF Slots, Evictable
<1>4. References(d) /\ HeldCached(d)
  BY <1>1, <1>2 DEF References, HeldCached
<1> QED BY <1>2, <1>3, <1>4 DEF Books, d

(* The step is handed over: the worker drops what was evicted and is not
   cached again, and computes what was planned. *)
LEMMA FinishStep ==
    ASSUME IInv, phase = "waiting", NEW c, Books(c), DOMAIN c.cached = DOMAIN m.cached,
           c.freed = m.freed, \A r \in DOMAIN plan : c.ids[r] = m.ids[r],
           Finish(c, get_freed_mm_hashes(c))
    PROVE  IInv'
<1> DEFINE D == DOMAIN m.cached
           items == {[r |-> r, live |-> TRUE,
                      need |-> Hashes(r, Window(r, plan[r].from, plan[r].from + plan[r].n))] : r \in DOMAIN plan}
           st == [items |-> items, enc |-> PlannedHashes, freed |-> m.freed \ D, reset |-> FALSE]
<1>1. /\ phase' = "idle" /\ cur' = 1 /\ try' = NoTry /\ plan' = <<>> /\ budget' = Budget
      /\ computed' = [r \in Req |-> IF r \in DOMAIN plan THEN computed[r] + plan[r].n ELSE computed[r]]
      /\ steps' = Append(steps, st) /\ m' = [c EXCEPT !.freed = {}]
      /\ UNCHANGED <<arrived, running, waiting, done, wcache>>
  BY DEF Finish, get_freed_mm_hashes, queues
<1>2. Books(m') /\ DOMAIN m'.cached = D /\ m'.freed = {}
  BY <1>1, FreedCleared
<1>3. DOMAIN plan' = {} /\ PlannedHashes' = {}
  BY <1>1 DEF PlannedHashes
<1>4. /\ DOMAIN plan \in SUBSET Req /\ PlannedHashes \in SUBSET Hash /\ PlannedHashes \subseteq D
      /\ D \in SUBSET Hash /\ m.freed \in SUBSET Hash
  BY PlanFacts, CacheFacts
<1>5. QueueInv'
  <2>1. computed \in [Req -> Nat] /\ \A r \in DOMAIN plan : plan[r].n \in Nat
    BY DEF IInv, QueueInv, PlanInv
  <2>2. computed' \in [Req -> Nat]
    BY <1>1, <2>1
  <2> QED BY <1>1, <2>2 DEF IInv, QueueInv
<1>6. LoopInv' /\ TryInv'
  BY <1>1, <1>2, <1>3 DEF LoopInv, TryInv
<1>7. PlanInv'
  <2>1. SizeOf({}) = 0
    BY SizeEmpty
  <2> QED BY <1>1, <1>3, <2>1, ConstantTypes DEF PlanInv
<1>8. ASSUME NEW r \in DOMAIN plan
      PROVE  Hashes(r, Window(r, plan[r].from, plan[r].from + plan[r].n)) \subseteq D
  <2> DEFINE W == Window(r, plan[r].from, plan[r].from + plan[r].n)
  <2>1. W \subseteq m.ids[r]
    BY DEF IInv, PlanInv
  <2>2. Hashes(r, m.ids[r]) \subseteq D
    BY <1>4, CacheFacts
  <2> HIDE DEF W, D
  <2>3. Hashes(r, W) \subseteq Hashes(r, m.ids[r])
    BY <2>1 DEF Hashes
  <2> QED BY <2>2, <2>3 DEF W
<1>9. items \in SUBSET ItemRecord
  <2> DEFINE need(r) == Hashes(r, Window(r, plan[r].from, plan[r].from + plan[r].n))
  <2>1. \A r \in DOMAIN plan : r \in Req /\ need(r) \in SUBSET Hash
    BY <1>4, <1>8
  <2> HIDE DEF need
  <2>2. \A r \in DOMAIN plan : [r |-> r, live |-> TRUE, need |-> need(r)] \in ItemRecord
    BY <2>1 DEF ItemRecord
  <2>3. items = {[r |-> r, live |-> TRUE, need |-> need(r)] : r \in DOMAIN plan}
    BY DEF need
  <2> QED BY <2>2, <2>3
<1>10. \A x \in items : x.need \subseteq D
  <2> HIDE DEF D
  <2> QED BY <1>8
<1> HIDE DEF items, D
<1>11. st \in StepRecord
  BY <1>4, <1>9 DEF StepRecord
<1>12. st.items = items /\ st.enc = PlannedHashes /\ st.freed = m.freed \ D /\ st.reset = FALSE
  OBVIOUS
<1> HIDE DEF st
<1>13. PICK s \in StepRecord : s = st
  BY <1>11
<1>14. ASSUME NEW X \in SUBSET Hash, X \subseteq D \cup m.freed, ~Priority => D \subseteq X \cup PlannedHashes
       PROVE  /\ SizeOf(After(s, X)) <= CacheSize /\ After(s, X) \subseteq D
              /\ ~Priority => D \subseteq After(s, X)
  <2>1. After(s, X) = (X \ (m.freed \ D)) \cup PlannedHashes
    BY <1>12, <1>13 DEF After
  <2>2. After(s, X) \subseteq D
    BY <1>4, <1>14, <2>1
  <2>3. ~Priority => D \subseteq After(s, X)
    BY <1>14, <2>1
  <2>4. SizeOf(After(s, X)) <= CacheSize
    <3>1. m.free \in Nat /\ m.free = CacheSize - SizeOf(D)
      BY DEF IInv, Books, Slots, D
    <3> DEFINE A == After(s, X)
    <3>2. A \in SUBSET D
      BY <2>2
    <3> HIDE DEF A
    <3>3. SizeOf(A) \in Nat /\ SizeOf(D) \in Nat /\ SizeOf(A) <= SizeOf(D)
      BY <1>4, <3>2, SizeSubset
    <3> QED BY <3>1, <3>3, ConstantTypes DEF A
  <2> QED BY <2>2, <2>3, <2>4
<1>15. StepsInv'
  <2>1. StepsInv /\ steps \in Seq(StepRecord) /\ Len(steps) \in Nat
    BY DEF IInv, StepsInv
  <2>2. /\ steps' \in Seq(StepRecord) /\ Len(steps') = Len(steps) + 1 /\ steps'[Len(steps) + 1] = s
        /\ \A k \in 1 .. Len(steps) : steps'[k] = steps[k]
    BY <1>1, <1>13, <2>1
  <2>3. SameSteps(steps, steps')
    BY <2>2 DEF SameSteps
  <2>4. ASSUME NEW X \in SUBSET Hash, X \subseteq DOMAIN m.cached \cup m.freed,
               ~Priority => DOMAIN m.cached \subseteq X \cup PlannedHashes
        PROVE  /\ SizeOf(After(s, X)) <= CacheSize
               /\ After(s, X) \subseteq DOMAIN m'.cached \cup m'.freed
               /\ ~Priority => /\ \A x \in s.items : x.need \subseteq After(s, X)
                               /\ DOMAIN m'.cached \subseteq After(s, X) \cup PlannedHashes'
    <3>1. /\ SizeOf(After(s, X)) <= CacheSize /\ After(s, X) \subseteq D
          /\ ~Priority => D \subseteq After(s, X)
      BY <1>14, <2>4 DEF D
    <3>2. \A x \in s.items : x.need \subseteq D
      BY <1>10, <1>12, <1>13
    <3> QED BY <1>2, <3>1, <3>2
  <2> QED BY <1>1, <2>1, <2>2, <2>3, <2>4, StepsExtended
<1> QED BY <1>2, <1>5, <1>6, <1>7, <1>15 DEF IInv

LEMMA EndScheduleStep ==
    ASSUME IInv, EndSchedule
    PROVE  IInv'
<1>1. phase = "waiting" /\ Finish(m, get_freed_mm_hashes(m)) /\ Books(m)
  BY DEF EndSchedule, IInv
<1> QED BY <1>1, FinishStep

LEMMA BlockedWaitingStep ==
    ASSUME IInv, BlockedWaiting
    PROVE  IInv'
<1>1. phase = "waiting" /\ try # NoTry /\ Finish(free(m, {try.r}), get_freed_mm_hashes(free(m, {try.r})))
  BY DEF BlockedWaiting
<1>2. PICK c : c = free(m, {try.r})
  OBVIOUS
<1>3. /\ Books(c) /\ DOMAIN c.cached = DOMAIN m.cached /\ c.freed = m.freed
      /\ \A r \in Req : r # try.r => c.ids[r] = m.ids[r]
  <2> DEFINE R == {try.r}
  <2>1. c = free(m, R) /\ Books(m) /\ \A r : r \notin R <=> r # try.r
    BY <1>2 DEF IInv
  <2> HIDE DEF R
  <2>2. /\ Books(c) /\ DOMAIN c.cached = DOMAIN m.cached /\ c.freed = m.freed
        /\ \A r \in Req : r \notin R => c.ids[r] = m.ids[r]
    BY <2>1, FreeBooks
  <2> QED BY <2>1, <2>2
<1>4. \A r \in DOMAIN plan : c.ids[r] = m.ids[r]
  BY <1>1, <1>3, TryFacts, PlanFacts
<1>5. Finish(c, get_freed_mm_hashes(c))
  BY <1>1, <1>2
<1> QED BY <1>1, <1>3, <1>4, <1>5, FinishStep

LEMMA ExecuteStep ==
    ASSUME IInv, Execute
    PROVE  IInv'
<1>1. /\ done < Len(steps) /\ wcache' = After(steps[done + 1], wcache) /\ done' = done + 1
      /\ UNCHANGED <<m, arrived, running, waiting, computed, phase, cur, try, plan, budget, steps>>
  BY DEF Execute, queues, loop
<1>2. Books(m)' /\ PlanInv' /\ QueueInv' /\ TryInv'
  BY <1>1, SamePlan DEF IInv, QueueInv, TryInv, Covered
<1>3. LoopInv'
  BY <1>1 DEF IInv, LoopInv
<1>4. StepsInv'
  <2>1. steps \in Seq(StepRecord) /\ done \in 0 .. Len(steps) /\ Len(steps) \in Nat /\ done \in Nat
    BY DEF IInv, StepsInv
  <2>2. PICK F \in [done .. Len(steps) -> SUBSET Hash] : WorkerHolds(F) /\ WorkerFollows(F)
    BY DEF IInv, StepsInv
  <2>3. PICK G : G = [k \in done + 1 .. Len(steps) |-> F[k]]
    OBVIOUS
  <2>4. G \in [done + 1 .. Len(steps) -> SUBSET Hash] /\ \A k \in done + 1 .. Len(steps) : G[k] = F[k]
    BY <2>1, <2>2, <2>3
  <2>5. /\ F[done] = wcache
        /\ \A k \in done + 1 .. Len(steps) : F[k] = After(steps[k], F[k - 1])
        /\ \A k \in done .. Len(steps) : SizeOf(F[k]) <= CacheSize
    BY <2>2 DEF WorkerHolds
  <2>6. /\ done + 1 \in done + 1 .. Len(steps) /\ Len(steps) \in done + 1 .. Len(steps) /\ (done + 1) - 1 = done
        /\ \A k \in (done + 1) + 1 .. Len(steps) : k \in done + 1 .. Len(steps) /\ k - 1 \in done + 1 .. Len(steps)
        /\ \A k \in done + 1 .. Len(steps) : k \in done .. Len(steps)
    BY <1>1, <2>1
  <2>7. F[done + 1] = wcache'
    BY <1>1, <2>5, <2>6
  <2>8. WorkerHolds(G)'
    <3>1. G[done + 1] = wcache'
      BY <2>4, <2>6, <2>7
    <3>2. \A k \in (done + 1) + 1 .. Len(steps) : G[k] = After(steps[k], G[k - 1])
      BY <2>4, <2>5, <2>6
    <3>3. \A k \in done + 1 .. Len(steps) : SizeOf(G[k]) <= CacheSize
      BY <2>4, <2>5, <2>6
    <3> QED BY <1>1, <3>1, <3>2, <3>3 DEF WorkerHolds
  <2>9. WorkerFollows(G)'
    <3>1. /\ F[Len(steps)] \subseteq DOMAIN m.cached \cup m.freed
          /\ ~Priority => /\ \A k \in done + 1 .. Len(steps) : \A x \in steps[k].items : x.need \subseteq F[k]
                          /\ DOMAIN m.cached \subseteq F[Len(steps)] \cup PlannedHashes
      BY <2>2 DEF WorkerFollows
    <3>2. G[Len(steps)] = F[Len(steps)] /\ PlannedHashes' = PlannedHashes
      BY <1>1, <2>4, <2>6 DEF PlannedHashes
    <3>3. ~Priority => \A k \in (done + 1) + 1 .. Len(steps) : \A x \in steps[k].items : x.need \subseteq G[k]
      BY <2>4, <2>6, <3>1
    <3> QED BY <1>1, <3>1, <3>2, <3>3 DEF WorkerFollows
  <2>10. done' \in 0 .. Len(steps')
    BY <1>1, <2>1
  <2> QED BY <1>1, <2>1, <2>4, <2>8, <2>9, <2>10 DEF StepsInv
<1> QED BY <1>2, <1>3, <1>4 DEF IInv

LEMMA UpdateStep ==
    ASSUME IInv, Update
    PROVE  IInv'
<1>1. /\ phase = "idle" /\ done > 0 /\ steps' = Tail(steps) /\ done' = done - 1
      /\ UNCHANGED <<arrived, waiting, computed, phase, cur, try, plan, budget, wcache>>
  BY DEF Update, loop
<1>2. PICK inputs, ends : /\ m' = free_encoder_inputs(m, inputs) /\ running' = Without(running, ends)
                          /\ \A r \in Req : inputs[r] \subseteq m.ids[r]
  <2> DEFINE live == {x.r : x \in {y \in Head(steps).items : y.live}}
             ends == {r \in live : /\ computed[r] = Prompt[r]
                                   /\ ~\E k \in 2 .. Len(steps) : \E x \in steps[k].items : x.r = r}
             inputs == [r \in Req |-> IF r \in ends THEN m.ids[r] ELSE IF r \in live THEN Passed(r) ELSE {}]
  <2>1. m' = free_encoder_inputs(m, inputs) /\ running' = Without(running, ends)
    BY DEF Update
  <2>2. \A r \in Req : inputs[r] \subseteq m.ids[r]
    <3> HIDE DEF live, ends
    <3> QED BY DEF Passed
  <2> HIDE DEF inputs, ends
  <2> QED BY <2>1, <2>2
<1>3. /\ Books(m') /\ DOMAIN m'.cached = DOMAIN m.cached /\ m'.freed = m.freed
  BY <1>2, ReleaseBooks DEF IInv
<1>4. /\ DOMAIN plan = {} /\ try = NoTry /\ m.freed = {} /\ PlannedHashes = {}
      /\ budget \in Nat /\ cur \in Nat \ {0}
  BY <1>1, IdleFacts
<1>5. DOMAIN plan' = {} /\ PlannedHashes' = {}
  BY <1>1, <1>4 DEF PlannedHashes
<1>6. QueueInv'
  <2>1. /\ running \in Seq(Req) /\ IsInjective(running)
    BY DEF IInv, QueueInv
  <2>2. running' \in Seq(Req) /\ Range(running') = Range(running) \ ends /\ IsInjective(running')
    BY <1>2, <2>1, WithoutProperties
  <2> QED BY <1>1, <2>2 DEF IInv, QueueInv
<1>7. LoopInv' /\ TryInv'
  BY <1>1, <1>3, <1>4, <1>5 DEF LoopInv, TryInv
<1>8. PlanInv'
  BY <1>1, <1>4, <1>5 DEF IInv, PlanInv
<1>9. StepsInv'
  <2>1. /\ steps \in Seq(StepRecord) /\ done \in Nat /\ done - 1 \in Nat
        /\ 1 <= done /\ done <= Len(steps)
    BY <1>1 DEF IInv, StepsInv
  <2>2. PICK n \in Nat : n = Len(steps)
    BY <2>1
  <2>3. /\ steps' \in Seq(StepRecord) /\ Len(steps') = n - 1 /\ \A k \in 1 .. n - 1 : steps'[k] = steps[k + 1]
    BY <1>1, <2>1, <2>2
  <2>4. PICK F \in [done .. n -> SUBSET Hash] : WorkerHolds(F) /\ WorkerFollows(F)
    BY <2>2 DEF IInv, StepsInv
  <2>5. PICK G : G = [k \in done - 1 .. n - 1 |-> F[k + 1]]
    OBVIOUS
  <2>6. /\ G \in [done - 1 .. n - 1 -> SUBSET Hash]
        /\ \A k \in done - 1 .. n - 1 : G[k] = F[k + 1] /\ k + 1 \in done .. n
    BY <2>1, <2>2, <2>4, <2>5
  <2>7. /\ F[done] = wcache
        /\ \A k \in done + 1 .. n : F[k] = After(steps[k], F[k - 1])
        /\ \A k \in done .. n : SizeOf(F[k]) <= CacheSize
    BY <2>2, <2>4 DEF WorkerHolds
  <2>8. /\ done - 1 \in done - 1 .. n - 1 /\ n - 1 \in done - 1 .. n - 1
        /\ (done - 1) + 1 = done /\ (n - 1) + 1 = n
    BY <2>1, <2>2
  <2>9. ASSUME NEW k \in (done - 1) + 1 .. n - 1
        PROVE  /\ k \in done - 1 .. n - 1 /\ k - 1 \in done - 1 .. n - 1 /\ k \in 1 .. n - 1
               /\ k + 1 \in done + 1 .. n /\ (k + 1) - 1 = k /\ (k - 1) + 1 = k
    BY <2>1, <2>2
  <2>10. WorkerHolds(G)'
    <3>1. G[done - 1] = wcache
      BY <2>6, <2>7, <2>8
    <3>2. ASSUME NEW k \in (done - 1) + 1 .. n - 1 PROVE G[k] = After(steps'[k], G[k - 1])
      <4>1. G[k] = F[k + 1] /\ G[k - 1] = F[k] /\ steps'[k] = steps[k + 1]
        BY <2>3, <2>6, <2>9
      <4>2. F[k + 1] = After(steps[k + 1], F[k])
        BY <2>7, <2>9
      <4> QED BY <4>1, <4>2
    <3>3. \A k \in done - 1 .. n - 1 : SizeOf(G[k]) <= CacheSize
      BY <2>6, <2>7
    <3> QED BY <1>1, <2>3, <3>1, <3>2, <3>3 DEF WorkerHolds
  <2>11. WorkerFollows(G)'
    <3>1. /\ F[n] \subseteq DOMAIN m.cached \cup m.freed
          /\ ~Priority => /\ \A k \in done + 1 .. n : \A x \in steps[k].items : x.need \subseteq F[k]
                          /\ DOMAIN m.cached \subseteq F[n] \cup PlannedHashes
      BY <2>2, <2>4 DEF WorkerFollows
    <3>2. G[n - 1] = F[n]
      BY <2>6, <2>8
    <3>3. ASSUME ~Priority, NEW k \in (done - 1) + 1 .. n - 1, NEW x \in steps'[k].items
          PROVE  x.need \subseteq G[k]
      <4>1. G[k] = F[k + 1] /\ steps'[k] = steps[k + 1] /\ k + 1 \in done + 1 .. n
        BY <2>3, <2>6, <2>9
      <4> QED BY <3>1, <3>3, <4>1
    <3> QED BY <1>1, <1>3, <1>4, <1>5, <2>3, <3>1, <3>2, <3>3 DEF WorkerFollows
  <2>12. done' \in 0 .. Len(steps')
    BY <1>1, <2>1, <2>2, <2>3
  <2> QED BY <1>1, <2>3, <2>6, <2>10, <2>11, <2>12 DEF StepsInv
<1> QED BY <1>3, <1>6, <1>7, <1>8, <1>9 DEF IInv

LEMMA AbortStep ==
    ASSUME IInv, NEW r \in Req, Abort(r)
    PROVE  IInv'
<1>1. /\ phase = "idle" /\ running' = Without(running, {r}) /\ waiting' = Without(waiting, {r})
      /\ m' = free(m, {r}) /\ steps' = MarkStale(r)
      /\ UNCHANGED <<arrived, computed, phase, cur, try, plan, budget, done, wcache>>
  BY DEF Abort, loop
<1>2. PICK R : R = {r}
  OBVIOUS
<1>3. /\ Books(m') /\ DOMAIN m'.cached = DOMAIN m.cached /\ m'.freed = m.freed
  <2>1. m' = free(m, R) /\ Books(m)
    BY <1>1, <1>2 DEF IInv
  <2> QED BY <2>1, FreeBooks
<1>4. /\ DOMAIN plan = {} /\ try = NoTry /\ m.freed = {} /\ PlannedHashes = {}
      /\ budget \in Nat /\ cur \in Nat \ {0}
  BY <1>1, IdleFacts
<1>5. DOMAIN plan' = {} /\ PlannedHashes' = {}
  BY <1>1, <1>4 DEF PlannedHashes
<1>6. QueueInv'
  <2>1. /\ running \in Seq(Req) /\ waiting \in Seq(Req) /\ IsInjective(running) /\ IsInjective(waiting)
    BY DEF IInv, QueueInv
  <2>2. running' = Without(running, R) /\ waiting' = Without(waiting, R)
    BY <1>1, <1>2
  <2>3. running' \in Seq(Req) /\ Range(running') = Range(running) \ R /\ IsInjective(running')
    BY <2>1, <2>2, WithoutProperties
  <2>4. waiting' \in Seq(Req) /\ Range(waiting') = Range(waiting) \ R /\ IsInjective(waiting')
    BY <2>1, <2>2, WithoutProperties
  <2> QED BY <1>1, <2>3, <2>4 DEF IInv, QueueInv
<1>7. LoopInv' /\ TryInv'
  BY <1>1, <1>3, <1>4, <1>5 DEF LoopInv, TryInv
<1>8. PlanInv'
  BY <1>1, <1>4, <1>5 DEF IInv, PlanInv
<1>9. StepsInv'
  <2>1. StepsInv /\ steps \in Seq(StepRecord)
    BY DEF IInv, StepsInv
  <2>2. steps' \in Seq(StepRecord) /\ Len(steps') = Len(steps) /\ SameSteps(steps, steps')
    BY <1>1, <2>1, MarkStaleSame
  <2>3. /\ DOMAIN m.cached \cup m.freed \subseteq DOMAIN m'.cached \cup m'.freed
        /\ DOMAIN m'.cached \subseteq (DOMAIN m.cached \ PlannedHashes) \cup PlannedHashes'
    BY <1>3, <1>4
  <2> QED BY <1>1, <2>1, <2>2, <2>3, StepsKept
<1> QED BY <1>3, <1>6, <1>7, <1>8, <1>9 DEF IInv

(* The steps under way are no longer live, and one is added after which the
   worker holds nothing, like the manager. *)
LEMMA ResetStep ==
    ASSUME IInv, Reset
    PROVE  IInv'
<1> DEFINE n == Len(steps)
           stale(k) == [steps[k] EXCEPT !.items = {[x EXCEPT !.live = FALSE] : x \in steps[k].items}]
           P == [k \in 1 .. n |-> stale(k)]
           st == [items |-> {}, enc |-> {}, freed |-> {}, reset |-> TRUE]
<1>1. /\ phase = "idle" /\ m' = EmptyCache /\ running' = <<>> /\ waiting' = Enter(running, waiting)
      /\ computed' = [r \in Req |-> 0]
      /\ UNCHANGED <<arrived, phase, cur, try, plan, budget, done, wcache>>
  BY DEF Reset, loop
<1>2. Books(m') /\ DOMAIN m'.cached = {} /\ m'.freed = {}
  BY <1>1, EmptyBooks
<1>3. /\ DOMAIN plan = {} /\ try = NoTry /\ m.freed = {} /\ PlannedHashes = {}
      /\ budget \in Nat /\ cur \in Nat \ {0}
  BY <1>1, IdleFacts
<1>4. DOMAIN plan' = {} /\ PlannedHashes' = {}
  BY <1>1, <1>3 DEF PlannedHashes
<1>5. QueueInv'
  <2>1. /\ running \in Seq(Req) /\ waiting \in Seq(Req) /\ IsInjective(running) /\ IsInjective(waiting)
        /\ Range(running) \cap Range(waiting) = {} /\ Range(running) \cup Range(waiting) \subseteq arrived
    BY DEF IInv, QueueInv
  <2>2. /\ waiting' \in Seq(Req) /\ IsInjective(waiting')
        /\ Range(waiting') = Range(running) \cup Range(waiting)
    BY <1>1, <2>1, EnterProperties
  <2>3. running' \in Seq(Req) /\ IsInjective(running') /\ Range(running') = {}
    BY <1>1 DEF IsInjective, Range
  <2>4. computed' \in [Req -> Nat]
    BY <1>1
  <2> QED BY <1>1, <2>1, <2>2, <2>3, <2>4 DEF QueueInv
<1>6. LoopInv' /\ TryInv'
  BY <1>1, <1>2, <1>3, <1>4 DEF LoopInv, TryInv
<1>7. PlanInv'
  BY <1>1, <1>3, <1>4 DEF IInv, PlanInv
<1>8. StepsInv /\ steps \in Seq(StepRecord) /\ n \in Nat /\ DOMAIN steps = 1 .. n
      /\ \A k \in 1 .. n : steps[k] \in StepRecord
  BY DEF IInv, StepsInv
<1>9. steps' = Append(P, st)
  <2>1. P = [k \in DOMAIN steps |-> [steps[k] EXCEPT !.items = {[x EXCEPT !.live = FALSE] : x \in @}]]
    BY <1>8 DEF StepRecord
  <2> QED BY <2>1 DEF Reset
<1>10. ASSUME NEW k \in 1 .. n
       PROVE  /\ stale(k) \in StepRecord /\ stale(k).enc = steps[k].enc /\ stale(k).freed = steps[k].freed
              /\ stale(k).reset = steps[k].reset
              /\ \A x \in stale(k).items : \E y \in steps[k].items : x.need = y.need
  <2> DEFINE I == {[x EXCEPT !.live = FALSE] : x \in steps[k].items}
  <2>1. steps[k] \in StepRecord
    BY <1>8
  <2>2. \A x \in steps[k].items : x \in ItemRecord
    BY <2>1 DEF StepRecord
  <2>3. I \in SUBSET ItemRecord /\ \A x \in I : \E y \in steps[k].items : x.need = y.need
    BY <2>2 DEF ItemRecord
  <2>4. stale(k) = [steps[k] EXCEPT !.items = I]
    OBVIOUS
  <2> HIDE DEF I, stale
  <2>5. stale(k).items = I /\ stale(k) \in StepRecord
    BY <2>1, <2>3, <2>4 DEF StepRecord
  <2>6. stale(k).enc = steps[k].enc /\ stale(k).freed = steps[k].freed /\ stale(k).reset = steps[k].reset
    BY <2>1, <2>4 DEF StepRecord
  <2> QED BY <2>3, <2>5, <2>6
<1>11. st \in StepRecord /\ st.items = {} /\ \A X : After(st, X) = {}
  BY DEF StepRecord, After
<1> HIDE DEF stale, st
<1>12. P \in Seq(StepRecord) /\ Len(P) = n /\ \A k \in 1 .. n : P[k] = stale(k)
  BY <1>8, <1>10
<1> HIDE DEF P
<1>13. /\ steps' \in Seq(StepRecord) /\ Len(steps') = n + 1 /\ steps'[n + 1] = st
       /\ \A k \in 1 .. n : steps'[k] = P[k]
  BY <1>8, <1>9, <1>11, <1>12
<1>14. SameSteps(steps, steps')
  BY <1>10, <1>12, <1>13 DEF SameSteps
<1>15. StepsInv'
  <2>1. PICK s \in StepRecord : s = st
    BY <1>11
  <2>2. SizeOf({}) <= CacheSize
    BY SizeEmpty, ConstantTypes
  <2>3. ASSUME NEW X \in SUBSET Hash
        PROVE  /\ SizeOf(After(s, X)) <= CacheSize
               /\ After(s, X) \subseteq DOMAIN m'.cached \cup m'.freed
               /\ ~Priority => /\ \A x \in s.items : x.need \subseteq After(s, X)
                               /\ DOMAIN m'.cached \subseteq After(s, X) \cup PlannedHashes'
    <3>1. After(s, X) = {} /\ s.items = {}
      BY <1>11, <2>1
    <3> QED BY <1>2, <2>2, <3>1
  <2> QED BY <1>1, <1>8, <1>13, <1>14, <2>1, <2>3, StepsExtended
<1> QED BY <1>2, <1>5, <1>6, <1>7, <1>15 DEF IInv

LEMMA StutterStep ==
    ASSUME IInv, UNCHANGED vars
    PROVE  IInv'
<1>1. /\ UNCHANGED <<m, arrived, running, waiting, computed, phase, cur, try, plan, budget>>
      /\ UNCHANGED <<steps, done, wcache>>
  BY DEF vars, queues, loop, worker
<1>2. Books(m)' /\ PlanInv' /\ StepsInv'
  BY <1>1, SamePlan, SameWorker DEF IInv
<1>3. QueueInv' /\ LoopInv'
  BY <1>1 DEF IInv, QueueInv, LoopInv
<1>4. TryInv'
  BY <1>1 DEF IInv, TryInv, Covered
<1> QED BY <1>2, <1>3, <1>4 DEF IInv

LEMMA NextStep == IInv /\ [Next]_vars => IInv'
<1> SUFFICES ASSUME IInv, [Next]_vars PROVE IInv'
  OBVIOUS
<1>1. CASE BeginSchedule
  BY <1>1, BeginScheduleStep
<1>2. CASE TryRunning
  BY <1>2, TryRunningStep
<1>3. CASE AllocateRunning
  BY <1>3, AllocateRunningStep
<1>4. CASE PreemptForRunning
  BY <1>4, PreemptForRunningStep
<1>5. CASE BlockedRunning
  BY <1>5, RunningEndsStep
<1>6. CASE EndRunning
  BY <1>6, RunningEndsStep
<1>7. CASE TryWaiting
  BY <1>7, TryWaitingStep
<1>8. CASE AllocateWaiting
  BY <1>8, AllocateWaitingStep
<1>9. CASE BlockedWaiting
  BY <1>9, BlockedWaitingStep
<1>10. CASE EndSchedule
  BY <1>10, EndScheduleStep
<1>11. CASE Execute
  BY <1>11, ExecuteStep
<1>12. CASE Update
  BY <1>12, UpdateStep
<1>13. CASE Reset
  BY <1>13, ResetStep
<1>14. ASSUME NEW r \in Req, Arrive(r) PROVE IInv'
  BY <1>14, ArriveStep
<1>15. ASSUME NEW r \in Req, Abort(r) PROVE IInv'
  BY <1>15, AbortStep
<1>16. CASE UNCHANGED vars
  BY <1>16, StutterStep
<1> QED BY <1>1, <1>2, <1>3, <1>4, <1>5, <1>6, <1>7, <1>8, <1>9, <1>10, <1>11, <1>12, <1>13, <1>14,
           <1>15, <1>16 DEF Next, Schedule

(* The invariant holds always: the manager's books, what the step under way
   holds, and what the worker will hold after each step it has not executed. *)
THEOREM InvariantHolds == Spec => []IInv
<1>1. Init => IInv
  BY InitIInv
<1>2. IInv /\ [Next]_vars => IInv'
  BY NextStep
<1> QED BY <1>1, <1>2, PTL DEF Spec

-----------------------------------------------------------------------------
(* The properties *)

LEMMA AccountsFollow == IInv => CacheAccounted
<1> SUFFICES ASSUME IInv PROVE CacheAccounted
  OBVIOUS
<1>1. m \in CacheRecord /\ Slots(m) /\ Evictable(m) /\ References(m)
  BY DEF IInv, Books
<1>2. /\ DOMAIN m.cached \in SUBSET Hash /\ Range(m.freeable) \in SUBSET Hash
      /\ m.cached \in [DOMAIN m.cached -> SUBSET Req]
  BY <1>1, CacheFields
<1>3. Range(m.freeable) \in SUBSET DOMAIN m.cached
  BY <1>1 DEF Evictable
<1>4. /\ SizeOf(Range(m.freeable)) \in Nat /\ SizeOf(DOMAIN m.cached) \in Nat
      /\ SizeOf(Range(m.freeable)) <= SizeOf(DOMAIN m.cached)
  BY <1>2, <1>3, SizeSubset
<1>5. /\ m.free \in Nat /\ m.free = CacheSize - SizeOf(DOMAIN m.cached)
      /\ m.freeable_slots = m.free + SizeOf(Range(m.freeable))
  BY <1>1 DEF Slots
<1>6. m.free \in 0 .. CacheSize /\ m.freeable_slots \in 0 .. CacheSize
  BY <1>4, <1>5, ConstantTypes
<1>7. \A h \in DOMAIN m.cached : m.cached[h] \subseteq Req
  BY <1>2
<1>8. budget \in 0 .. Budget
  <2>1. budget \in Nat /\ budget + SizeOf(PlannedHashes) <= Budget
    BY DEF IInv, PlanInv
  <2>2. SizeOf(PlannedHashes) \in Nat
    BY PlanFacts
  <2> QED BY <2>1, <2>2, ConstantTypes
<1>9. done \in 0 .. Len(steps) /\ wcache \subseteq Hash
  <2>1. done \in 0 .. Len(steps) /\ Len(steps) \in Nat
    BY DEF IInv, StepsInv
  <2>2. PICK F \in [done .. Len(steps) -> SUBSET Hash] : F[done] = wcache
    BY DEF IInv, StepsInv, WorkerHolds
  <2>3. done \in done .. Len(steps)
    BY <2>1
  <2>4. F[done] \in SUBSET Hash
    BY <2>2, <2>3
  <2> QED BY <2>1, <2>2, <2>4
<1>10. TypeOK
  BY <1>2, <1>6, <1>7, <1>8, <1>9 DEF TypeOK
<1>11. SlotsAccounted
  BY <1>1, <1>5 DEF SlotsAccounted, Evictable
<1>12. ReferencesMatchInputs
  <2>1. \A h, r : h \in Hashes(r, m.ids[r]) <=> \E i \in m.ids[r] : HashOf(r, i) = h
    BY DEF Hashes
  <2> QED BY <1>1, <2>1 DEF ReferencesMatchInputs, References
<1> QED BY <1>10, <1>11, <1>12 DEF CacheAccounted

(* For any requests, items and sizes: the manager's counters, its evictable
   entries and its references agree with the inputs that requests hold, and
   the encoder budget of a step is never overdrawn, through scheduling,
   preemption, abort, reset and the results of earlier steps. *)
THEOREM CacheAlwaysAccounted == Spec => []CacheAccounted
<1>1. IInv => CacheAccounted
  BY AccountsFollow
<1> QED BY <1>1, InvariantHolds, PTL

(* The worker, whichever of its steps it has executed, holds no more outputs
   than the manager has space for. *)
THEOREM WorkerAlwaysWithinCapacity == Spec => []WorkerWithinCapacity
<1>1. ASSUME IInv PROVE WorkerWithinCapacity
  <2>1. done \in 0 .. Len(steps) /\ Len(steps) \in Nat
    BY <1>1 DEF IInv, StepsInv
  <2>2. PICK F : F[done] = wcache /\ \A k \in done .. Len(steps) : SizeOf(F[k]) <= CacheSize
    BY <1>1 DEF IInv, StepsInv, WorkerHolds
  <2>3. done \in done .. Len(steps)
    BY <2>1
  <2> QED BY <2>2, <2>3 DEF WorkerWithinCapacity
<1>2. IInv => WorkerWithinCapacity
  BY <1>1
<1> QED BY <1>2, InvariantHolds, PTL

(* Served first come first, a step never meets an encoder cache miss: with
   any number of steps in flight, the worker has, or computes in the step,
   every output its tokens need. *)
THEOREM CacheNeverMissed ==
    ASSUME ~Priority
    PROVE  Spec => []NoCacheMiss
<1>1. ASSUME IInv PROVE NoCacheMiss
  <2> SUFFICES ASSUME done < Len(steps)
               PROVE  UNION {x.need : x \in steps[done + 1].items} \subseteq After(steps[done + 1], wcache)
    BY DEF NoCacheMiss
  <2>1. done \in Nat /\ Len(steps) \in Nat
    BY <1>1 DEF IInv, StepsInv
  <2>2. PICK F : WorkerHolds(F) /\ WorkerFollows(F)
    BY <1>1 DEF IInv, StepsInv
  <2>3. done + 1 \in done + 1 .. Len(steps) /\ (done + 1) - 1 = done
    BY <2>1
  <2>4. F[done + 1] = After(steps[done + 1], wcache)
    BY <2>2, <2>3 DEF WorkerHolds
  <2>5. \A x \in steps[done + 1].items : x.need \subseteq F[done + 1]
    BY <2>2, <2>3 DEF WorkerFollows
  <2> QED BY <2>4, <2>5
<1>2. IInv => NoCacheMiss
  BY <1>1
<1> QED BY <1>2, InvariantHolds, PTL
======================================================================
