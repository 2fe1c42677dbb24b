-------------------------- MODULE BlockPoolProofs --------------------------
(***************************************************************************)
(* Proofs about the block pool, for any number of blocks, clients and      *)
(* keys.                                                                   *)
(***************************************************************************)
EXTENDS BlockPoolClients, FiniteSetTheorems, TLAPS
----------------------------------------------------------------------------
(* Place numbers the elements of a finite set of positions in their order. *)
LEMMA PlaceMonotone ==
    ASSUME NEW n \in Nat, NEW J \in SUBSET (1 .. n)
    PROVE  /\ IsFiniteSet(J)
           /\ Cardinality(J) \in Nat
           /\ \A j \in J : Place(J, j) \in 1 .. Cardinality(J)
           /\ \A j, k \in J : j < k => Place(J, j) < Place(J, k)
<1>1. IsFiniteSet(J) /\ Cardinality(J) \in Nat
  <2>1. IsFiniteSet(1 .. n)
    BY FS_Interval
  <2>2. IsFiniteSet(J)
    BY <2>1, FS_Subset
  <2> QED BY <2>2, FS_CardinalityType
<1>2. ASSUME NEW j \in J
      PROVE  Place(J, j) \in 1 .. Cardinality(J)
  <2>1. {i \in J : i <= j} \in SUBSET J
    OBVIOUS
  <2>2. IsFiniteSet({i \in J : i <= j}) /\ Cardinality({i \in J : i <= j}) <= Cardinality(J)
    BY <1>1, <2>1, FS_Subset
  <2>3. {i \in J : i <= j} # {}
    OBVIOUS
  <2>4. Cardinality({i \in J : i <= j}) \in Nat \ {0}
    BY <2>2, <2>3, FS_EmptySet, FS_CardinalityType
  <2> QED BY <1>1, <2>2, <2>4 DEF Place
<1>3. ASSUME NEW j \in J, NEW k \in J, j < k
      PROVE  Place(J, j) < Place(J, k)
  <2> DEFINE A == {i \in J : i <= j}
             B == {i \in J : i <= k}
  <2> J \subseteq Int
    OBVIOUS
  <2>1. A \in SUBSET B /\ k \in B /\ k \notin A /\ B \in SUBSET J
    <3>1. ASSUME NEW i \in J, i <= j
          PROVE  i <= k
      <4> i \in Int /\ j \in Int /\ k \in Int
        OBVIOUS
      <4> QED BY <1>3, <3>1
    <3>2. k \in B /\ k \notin A
      BY <1>3
    <3> QED BY <3>1, <3>2
  <2>2. IsFiniteSet(B)
    BY <1>1, <2>1, FS_Subset
  <2>3. Cardinality(A) <= Cardinality(B) /\ Cardinality(A) # Cardinality(B) /\ IsFiniteSet(A)
    BY <2>1, <2>2, FS_Subset
  <2>4. Cardinality(A) \in Nat /\ Cardinality(B) \in Nat
    BY <2>2, <2>3, FS_CardinalityType
  <2> QED BY <2>3, <2>4 DEF Place
<1> QED BY <1>1, <1>2, <1>3

(* Nth is the inverse of Place: every number up to the cardinality is the place
   of exactly one element. *)
LEMMA NthExists ==
    ASSUME NEW n \in Nat, NEW J \in SUBSET (1 .. n), NEW k \in 1 .. Cardinality(J)
    PROVE  Nth(J, k) \in J /\ Place(J, Nth(J, k)) = k
<1> DEFINE f == [j \in J |-> Place(J, j)]
           I == 1 .. Cardinality(J)
<1>1. f \in Injection(J, I)
  <2>1. f \in [J -> I]
    BY PlaceMonotone
  <2>2. \A i, j \in J : f[i] = f[j] => i = j
    <3> SUFFICES ASSUME NEW i \in J, NEW j \in J, i < j
                 PROVE  f[i] # f[j]
      OBVIOUS
    <3>1. Place(J, i) < Place(J, j) /\ Place(J, i) \in I /\ Place(J, j) \in I
      BY PlaceMonotone
    <3> QED BY <3>1, PlaceMonotone
  <2> QED BY <2>1, <2>2 DEF Injection, IsInjective
<1>2. Cardinality(J) = Cardinality(I) /\ IsFiniteSet(I)
  <2>1. Cardinality(J) \in Nat
    BY PlaceMonotone
  <2>2. /\ IsFiniteSet(1 .. Cardinality(J))
        /\ Cardinality(1 .. Cardinality(J))
             = IF 1 > Cardinality(J) THEN 0 ELSE Cardinality(J) - 1 + 1
    BY <2>1, FS_Interval
  <2> QED BY <2>1, <2>2
<1>3. f \in Surjection(J, I)
  BY <1>1, <1>2, FS_Injection
<1>4. \E j \in J : Place(J, j) = k
  BY <1>3 DEF Surjection
<1> QED BY <1>4 DEF Nth
----------------------------------------------------------------------------
(* Keep is a filter: it keeps the elements of X, and it does not repeat one
   that is not repeated in s. *)
LEMMA KeepProperties ==
    ASSUME NEW S, NEW s \in Seq(S), NEW X
    PROVE  /\ Keep(s, X) \in Seq(S \cap X)
           /\ ToSet(Keep(s, X)) = ToSet(s) \cap X
           /\ (\A i, j \in DOMAIN s : s[i] = s[j] /\ s[i] \in X => i = j)
                 => Injective(Keep(s, X))
<1> DEFINE J == Kept(s, X)
           m == Cardinality(J)
           K == Keep(s, X)
<1>1. /\ Len(s) \in Nat
      /\ DOMAIN s = 1 .. Len(s)
      /\ J \in SUBSET (1 .. Len(s))
      /\ \A j \in J : s[j] \in S \cap X
  BY DEF Kept
<1>2. m \in Nat /\ \A j \in J : Place(J, j) \in 1 .. m
  BY <1>1, PlaceMonotone
<1>3. \A k \in 1 .. m : Nth(J, k) \in J /\ Place(J, Nth(J, k)) = k
  BY <1>1, NthExists
<1>4. K = [k \in 1 .. m |-> s[Nth(J, k)]]
  BY DEF Keep
<1>5. \A j \in J : Nth(J, Place(J, j)) = j
  <2> SUFFICES ASSUME NEW j \in J
               PROVE  Nth(J, Place(J, j)) = j
    OBVIOUS
  <2> DEFINE h == Nth(J, Place(J, j))
  <2>1. h \in J /\ Place(J, h) = Place(J, j)
    BY <1>2, <1>3
  <2>2. h \in Int /\ j \in Int /\ Place(J, j) \in Int
    BY <1>1, <1>2, <2>1
  <2>3. ~(h < j) /\ ~(j < h)
    <3> HIDE DEF h
    <3>1. \A a, b \in J : a < b => Place(J, a) < Place(J, b)
      BY <1>1, PlaceMonotone
    <3> QED BY <2>1, <2>2, <3>1
  <2> HIDE DEF h
  <2>4. h = j
    BY <2>2, <2>3
  <2> QED BY <2>4 DEF h
<1> HIDE DEF J, m, K
<1>6. K \in Seq(S \cap X)
  <2>1. \A k \in 1 .. m : s[Nth(J, k)] \in S \cap X
    BY <1>1, <1>3
  <2>2. K \in [1 .. m -> S \cap X]
    BY <1>4, <2>1
  <2> QED BY <1>2, <2>2
<1>7. ToSet(K) = ToSet(s) \cap X
  <2>1. ASSUME NEW x \in ToSet(K)
        PROVE  x \in ToSet(s) \cap X
    <3>1. PICK k \in 1 .. m : x = s[Nth(J, k)]
      BY <1>4 DEF ToSet
    <3>2. Nth(J, k) \in J
      BY <1>3
    <3> QED BY <1>1, <3>1, <3>2 DEF ToSet
  <2>2. ASSUME NEW x \in ToSet(s) \cap X
        PROVE  x \in ToSet(K)
    <3>1. PICK j \in J : x = s[j]
      BY DEF J, Kept, ToSet
    <3>2. Place(J, j) \in 1 .. m /\ Nth(J, Place(J, j)) = j
      BY <1>2, <1>5
    <3>3. K[Place(J, j)] = x /\ Place(J, j) \in DOMAIN K
      BY <1>4, <3>1, <3>2
    <3> QED BY <3>3 DEF ToSet
  <2> QED BY <2>1, <2>2
<1>8. ASSUME \A i, j \in DOMAIN s : s[i] = s[j] /\ s[i] \in X => i = j
      PROVE  Injective(K)
  <2> SUFFICES ASSUME NEW k \in 1 .. m, NEW l \in 1 .. m, K[k] = K[l]
               PROVE  k = l
    BY <1>4 DEF Injective
  <2>1. s[Nth(J, k)] = s[Nth(J, l)] /\ Nth(J, k) \in J /\ Nth(J, l) \in J
    BY <1>3, <1>4
  <2>2. Nth(J, k) = Nth(J, l)
    BY <1>1, <1>8, <2>1
  <2> QED BY <1>3, <2>2
<1> QED BY <1>6, <1>7, <1>8 DEF K

(* The elements of a concatenation. *)
LEMMA ConcatSet ==
    ASSUME NEW S, NEW s \in Seq(S), NEW t \in Seq(S)
    PROVE  /\ s \o t \in Seq(S)
           /\ ToSet(s \o t) = ToSet(s) \cup ToSet(t)
           /\ Injective(s) /\ Injective(t) /\ ToSet(s) \cap ToSet(t) = {}
                 => Injective(s \o t)
<1> DEFINE u == s \o t
<1>1. /\ Len(s) \in Nat /\ Len(t) \in Nat
      /\ DOMAIN s = 1 .. Len(s) /\ DOMAIN t = 1 .. Len(t)
      /\ u \in Seq(S)
      /\ DOMAIN u = 1 .. Len(s) + Len(t)
      /\ \A i \in 1 .. Len(s) : u[i] = s[i]
      /\ \A i \in 1 .. Len(t) : u[i + Len(s)] = t[i]
      /\ \A i \in Len(s) + 1 .. Len(s) + Len(t) : u[i] = t[i - Len(s)]
  OBVIOUS
<1> HIDE DEF u
<1>2. ToSet(u) = ToSet(s) \cup ToSet(t)
  <2>1. ASSUME NEW i \in DOMAIN u
        PROVE  u[i] \in ToSet(s) \cup ToSet(t)
    <3>1. CASE i <= Len(s)
      BY <1>1, <3>1 DEF ToSet
    <3>2. CASE i > Len(s)
      <4>1. i - Len(s) \in DOMAIN t /\ u[i] = t[i - Len(s)]
        BY <1>1, <3>2
      <4> QED BY <4>1 DEF ToSet
    <3> QED BY <1>1, <3>1, <3>2
  <2>2. ASSUME NEW i \in DOMAIN s
        PROVE  s[i] \in ToSet(u)
    <3>1. i \in DOMAIN u /\ u[i] = s[i]
      BY <1>1
    <3> QED BY <3>1 DEF ToSet
  <2>3. ASSUME NEW i \in DOMAIN t
        PROVE  t[i] \in ToSet(u)
    <3>1. i + Len(s) \in DOMAIN u /\ u[i + Len(s)] = t[i]
      BY <1>1
    <3> QED BY <3>1 DEF ToSet
  <2> QED BY <2>1, <2>2, <2>3 DEF ToSet
<1>3. ASSUME Injective(s), Injective(t), ToSet(s) \cap ToSet(t) = {},
             NEW i \in DOMAIN u, NEW j \in DOMAIN u, u[i] = u[j], i < j
      PROVE  FALSE
  <2>1. CASE j <= Len(s)
    BY <1>1, <1>3, <2>1 DEF Injective
  <2>2. CASE i > Len(s)
    <3>1. /\ i - Len(s) \in DOMAIN t /\ j - Len(s) \in DOMAIN t
          /\ t[i - Len(s)] = t[j - Len(s)]
      BY <1>1, <1>3, <2>2
    <3>2. i - Len(s) = j - Len(s)
      BY <1>3, <3>1 DEF Injective
    <3> QED BY <1>1, <1>3, <3>2
  <2>3. CASE i <= Len(s) /\ j > Len(s)
    <3>1. i \in DOMAIN s /\ j - Len(s) \in DOMAIN t /\ s[i] = t[j - Len(s)]
      BY <1>1, <1>3, <2>3
    <3> QED BY <1>3, <3>1 DEF ToSet
  <2> QED BY <1>1, <1>3, <2>1, <2>2, <2>3
<1>4. ASSUME Injective(s), Injective(t), ToSet(s) \cap ToSet(t) = {}
      PROVE  Injective(u)
  <2> SUFFICES ASSUME NEW i \in DOMAIN u, NEW j \in DOMAIN u, u[i] = u[j]
               PROVE  i = j
    BY DEF Injective
  <2> i \in Int /\ j \in Int
    BY <1>1
  <2>1. ~(i < j)
    BY <1>3, <1>4
  <2>2. ~(j < i)
    BY <1>3, <1>4
  <2> QED BY <2>1, <2>2
<1> QED BY <1>1, <1>2, <1>4 DEF u

(* New blocks at the end of a table that has none of them. *)
LEMMA ConcatDistinct ==
    ASSUME NEW s \in Seq(Block), NEW t \in Seq(Block), Distinct(s), Injective(t),
           ToSet(s) \cap ToSet(t) = {}
    PROVE  Distinct(s \o t)
<1> DEFINE u == s \o t
<1>1. /\ Len(s) \in Nat /\ Len(t) \in Nat
      /\ DOMAIN s = 1 .. Len(s) /\ DOMAIN t = 1 .. Len(t)
      /\ DOMAIN u = 1 .. Len(s) + Len(t)
      /\ \A i \in 1 .. Len(s) : u[i] = s[i]
      /\ \A i \in Len(s) + 1 .. Len(s) + Len(t) : u[i] = t[i - Len(s)]
  OBVIOUS
<1> HIDE DEF u
<1>2. ASSUME NEW i \in DOMAIN u, NEW j \in DOMAIN u, u[i] = u[j], u[i] # NullBlock, i < j
      PROVE  FALSE
  <2>1. CASE j <= Len(s)
    BY <1>1, <1>2, <2>1 DEF Distinct
  <2>2. CASE i > Len(s)
    <3>1. /\ i - Len(s) \in DOMAIN t /\ j - Len(s) \in DOMAIN t
          /\ t[i - Len(s)] = t[j - Len(s)]
      BY <1>1, <1>2, <2>2
    <3>2. i - Len(s) = j - Len(s)
      BY <3>1 DEF Injective
    <3> QED BY <1>1, <1>2, <3>2
  <2>3. CASE i <= Len(s) /\ j > Len(s)
    <3>1. i \in DOMAIN s /\ j - Len(s) \in DOMAIN t /\ s[i] = t[j - Len(s)]
      BY <1>1, <1>2, <2>3
    <3> QED BY <3>1 DEF ToSet
  <2> QED BY <1>1, <1>2, <2>1, <2>2, <2>3
<1>3. ASSUME NEW i \in DOMAIN u, NEW j \in DOMAIN u, u[i] = u[j], u[i] # NullBlock
      PROVE  i = j
  <2>1. i \in Int /\ j \in Int
    BY <1>1
  <2>2. ~(i < j) /\ ~(j < i)
    BY <1>2, <1>3
  <2> QED BY <2>1, <2>2
<1> QED BY <1>3 DEF Distinct, u

(* popleft_n cuts a list in two. *)
LEMMA SplitSet ==
    ASSUME NEW S, NEW s \in Seq(S), NEW n \in 0 .. Len(s)
    PROVE  LET u == SubSeq(s, 1, n)
               v == SubSeq(s, n + 1, Len(s))
           IN  /\ u \in Seq(S) /\ v \in Seq(S) /\ Len(u) = n
               /\ ToSet(s) = ToSet(u) \cup ToSet(v)
               /\ Injective(s) => /\ Injective(u) /\ Injective(v)
                                  /\ ToSet(u) \cap ToSet(v) = {}
<1> DEFINE u == SubSeq(s, 1, n)
           v == SubSeq(s, n + 1, Len(s))
<1>1. /\ Len(s) \in Nat /\ n \in Nat /\ n <= Len(s)
      /\ DOMAIN s = 1 .. Len(s)
      /\ u \in Seq(S) /\ Len(u) = n /\ DOMAIN u = 1 .. n
      /\ \A i \in 1 .. n : u[i] = s[i]
  OBVIOUS
<1>2. /\ v \in Seq(S) /\ DOMAIN v = 1 .. Len(s) - n
      /\ \A i \in 1 .. Len(s) - n : v[i] = s[n + i]
  OBVIOUS
<1> HIDE DEF u, v
<1>3. ToSet(s) = ToSet(u) \cup ToSet(v)
  <2>1. ASSUME NEW i \in DOMAIN s
        PROVE  s[i] \in ToSet(u) \cup ToSet(v)
    <3>1. CASE i <= n
      BY <1>1, <3>1 DEF ToSet
    <3>2. CASE i > n
      <4>1. i - n \in DOMAIN v /\ v[i - n] = s[i]
        BY <1>1, <1>2, <3>2
      <4> QED BY <4>1 DEF ToSet
    <3> QED BY <1>1, <3>1, <3>2
  <2>2. \A i \in DOMAIN u : i \in DOMAIN s /\ u[i] = s[i]
    BY <1>1
  <2>3. \A i \in DOMAIN v : n + i \in DOMAIN s /\ v[i] = s[n + i]
    BY <1>1, <1>2
  <2> QED BY <2>1, <2>2, <2>3 DEF ToSet
<1>4. ASSUME Injective(s)
      PROVE  Injective(u) /\ Injective(v) /\ ToSet(u) \cap ToSet(v) = {}
  <2>1. Injective(u)
    BY <1>1, <1>4 DEF Injective
  <2>2. Injective(v)
    <3> SUFFICES ASSUME NEW i \in DOMAIN v, NEW j \in DOMAIN v, v[i] = v[j]
                 PROVE  i = j
      BY DEF Injective
    <3>1. n + i \in DOMAIN s /\ n + j \in DOMAIN s /\ s[n + i] = s[n + j]
      BY <1>1, <1>2
    <3>2. n + i = n + j
      BY <1>4, <3>1 DEF Injective
    <3> QED BY <1>1, <1>2, <3>2
  <2>3. ASSUME NEW i \in DOMAIN u, NEW j \in DOMAIN v, u[i] = v[j]
        PROVE  FALSE
    <3>1. i \in DOMAIN s /\ n + j \in DOMAIN s /\ s[i] = s[n + j]
      BY <1>1, <1>2, <2>3
    <3>2. i = n + j
      BY <1>4, <3>1 DEF Injective
    <3> QED BY <1>1, <1>2, <3>2
  <2> QED BY <2>1, <2>2, <2>3 DEF ToSet
<1> QED BY <1>1, <1>2, <1>3, <1>4 DEF u, v

(* Reversing a list keeps its elements and their distinctness. *)
LEMMA ReverseSet ==
    ASSUME NEW S, NEW s \in Seq(S)
    PROVE  /\ Reverse(s) \in Seq(S)
           /\ ToSet(Reverse(s)) = ToSet(s)
           /\ Distinct(s) => Distinct(Reverse(s))
<1> DEFINE r == Reverse(s)
           at(i) == Len(s) - i + 1
<1>1. /\ Len(s) \in Nat /\ DOMAIN s = 1 .. Len(s)
      /\ \A i \in 1 .. Len(s) : s[i] \in S
  OBVIOUS
<1>2. r = [i \in 1 .. Len(s) |-> s[at(i)]]
  BY DEF Reverse
<1>3. \A i \in 1 .. Len(s) : at(i) \in 1 .. Len(s) /\ at(at(i)) = i
  BY <1>1
<1>4. r \in Seq(S) /\ DOMAIN r = 1 .. Len(s)
  <2>1. r \in [1 .. Len(s) -> S]
    BY <1>1, <1>2, <1>3
  <2> QED BY <1>1, <2>1
<1>5. \A i \in 1 .. Len(s) : r[i] = s[at(i)] /\ r[at(i)] = s[i]
  BY <1>2, <1>3
<1>6. \A i, j \in 1 .. Len(s) : at(i) = at(j) => i = j
  BY <1>1
<1> HIDE DEF r, at
<1>7. ToSet(r) = ToSet(s)
  BY <1>1, <1>3, <1>4, <1>5 DEF ToSet
<1>8. Distinct(s) => Distinct(r)
  BY <1>1, <1>3, <1>4, <1>5, <1>6 DEF Distinct
<1> QED BY <1>4, <1>7, <1>8 DEF r
----------------------------------------------------------------------------
(* The number of entries for a key is finite, although there may be infinitely
   many keys: there is at most one per block. *)
LEMMA EmitType ==
    ASSUME NEW pub \in [Key -> Int], NEW stored \in SUBSET (Key \X Block),
           NEW removed \in SUBSET (Key \X Block)
    PROVE  Emit(pub, stored, removed) \in [Key -> Int]
<1>1. ASSUME NEW E \in SUBSET (Key \X Block), NEW k \in Key
      PROVE  Cardinality({e \in E : e[1] = k}) \in Nat
  <2> DEFINE T == {e \in E : e[1] = k}
             f == [e \in T |-> e[2]]
  <2>1. \A e \in T : e = <<k, e[2]>> /\ e[2] \in Block
    OBVIOUS
  <2>2. f \in Injection(T, Block)
    BY <2>1 DEF Injection, IsInjective
  <2>3. IsFiniteSet(T)
    BY <2>2, FS_Injection, BlockAssumption
  <2> QED BY <2>3, FS_CardinalityType
<1>2. \A k \in Key : /\ Cardinality({e \in stored : e[1] = k}) \in Nat
                     /\ Cardinality({e \in removed : e[1] = k}) \in Nat
  BY <1>1
<1> QED BY <1>2 DEF Emit

(* _remove_cached_block_hashes takes exactly the entries of its blocks. *)
LEMMA RemoveHashesProperties ==
    ASSUME NEW p \in PoolType, HashesMatchMap(p), NEW bs \in SUBSET Block,
           NEW emit \in BOOLEAN
    PROVE  LET q == RemoveHashes(p, bs, emit)
           IN  /\ q \in PoolType /\ HashesMatchMap(q)
               /\ q.ref = p.ref /\ q.free = p.free /\ q.watch = p.watch
               /\ q.map = {e \in p.map : e[2] \notin bs}
               /\ \A b \in Block : q.key[b] = IF b \in bs THEN NoKey ELSE p.key[b]
               /\ \A b \in Block : q.alias[b] = IF b \in bs THEN {} ELSE p.alias[b]
<1> DEFINE q == RemoveHashes(p, bs, emit)
<1>1. Entries(p, bs) = {e \in p.map : e[2] \in bs}
  <2> SUFFICES ASSUME NEW e \in p.map, e[2] \in bs
               PROVE  e[1] \in KeysOf(p, e[2])
    BY DEF Entries
  <2>1. e = <<e[1], e[2]>> /\ e[1] \in Key /\ e[2] \in Block
    BY DEF PoolType
  <2> QED BY <2>1 DEF HashesMatchMap
<1>2. Emit(p.pub, {}, Entries(p, bs)) \in [Key -> Int]
  <2>1. Entries(p, bs) \in SUBSET (Key \X Block) /\ p.pub \in [Key -> Int]
    BY <1>1 DEF PoolType
  <2> QED BY <2>1, EmitType
<1>3. /\ q.ref = p.ref /\ q.free = p.free /\ q.watch = p.watch
      /\ q.key = [b \in Block |-> IF b \in bs THEN NoKey ELSE p.key[b]]
      /\ q.alias = [b \in Block |-> IF b \in bs THEN {} ELSE p.alias[b]]
      /\ q.map = p.map \ Entries(p, bs)
      /\ q.pub = IF emit THEN Emit(p.pub, {}, Entries(p, bs)) ELSE p.pub
      /\ DOMAIN q = DOMAIN p
  BY DEF RemoveHashes, PoolType
<1>4. q \in PoolType
  <2>1. /\ p.ref \in [Block -> Nat] /\ p.free \in Seq(RealBlock)
        /\ p.watch \in SUBSET RealBlock /\ p.key \in [Block -> Key \cup {NoKey}]
        /\ p.alias \in [Block -> SUBSET Key] /\ p.map \in SUBSET (Key \X Block)
        /\ p.pub \in [Key -> Int]
    BY DEF PoolType
  <2>2. /\ q.key \in [Block -> Key \cup {NoKey}] /\ q.alias \in [Block -> SUBSET Key]
        /\ q.map \in SUBSET (Key \X Block) /\ q.pub \in [Key -> Int]
    BY <1>2, <1>3, <2>1
  <2> QED BY <1>3, <2>1, <2>2 DEF PoolType, RemoveHashes
<1>5. q.map = {e \in p.map : e[2] \notin bs}
  BY <1>1, <1>3
<1> HIDE DEF q
<1>6. HashesMatchMap(q)
  <2>1. ASSUME NEW k \in Key, NEW b \in Block
        PROVE  <<k, b>> \in q.map <=> k \in KeysOf(q, b)
    BY <1>3, <1>5 DEF HashesMatchMap, KeysOf
  <2>2. NullBlock \in Block
    BY NullBlockAssumption
  <2>3. \A b \in Block : (q.key[b] = NoKey => q.alias[b] = {}) /\ q.key[b] \notin q.alias[b]
    BY <1>3 DEF HashesMatchMap
  <2> QED BY <1>3, <2>1, <2>2, <2>3 DEF HashesMatchMap
<1> QED BY <1>3, <1>4, <1>5, <1>6 DEF q

(* The fields of a well-typed pool. *)
LEMMA PoolFields ==
    ASSUME NEW p \in PoolType
    PROVE  /\ p.ref \in [Block -> Nat] /\ p.free \in Seq(RealBlock)
           /\ p.watch \in SUBSET RealBlock /\ p.key \in [Block -> Key \cup {NoKey}]
           /\ p.alias \in [Block -> SUBSET Key] /\ p.map \in SUBSET (Key \X Block)
           /\ p.pub \in [Key -> Int]
BY DEF PoolType

(* The hash operations leave the reference counts and the free queue alone and
   keep the map in step with the blocks. *)
OnlyHashes(p, q) ==
    /\ q \in PoolType /\ HashesMatchMap(q)
    /\ q.ref = p.ref /\ q.free = p.free /\ q.watch = p.watch

(* _insert_block_hash changes only hashes, and keeps them in step with the map. *)
LEMMA InsertHashProperties ==
    ASSUME NEW p \in PoolType, HashesMatchMap(p), NEW b \in RealBlock, NEW k \in Key,
           NEW emit \in BOOLEAN
    PROVE  OnlyHashes(p, InsertHash(p, b, k, emit))
<1> DEFINE q == InsertHash(p, b, k, emit)
<1>1. CASE p.key[b] = k \/ <<k, b>> \in p.map
  BY <1>1 DEF InsertHash, OnlyHashes
<1>2. CASE ~(p.key[b] = k \/ <<k, b>> \in p.map)
  <2> DEFINE nk == IF p.key[b] = NoKey THEN k ELSE p.key[b]
             na == IF p.key[b] = NoKey THEN p.alias[b] ELSE p.alias[b] \cup {k}
             np == IF emit THEN Emit(p.pub, {<<k, b>>}, {}) ELSE p.pub
  <2>0. b \in Block /\ b # NullBlock
    BY DEF RealBlock
  <2>1. q = [p EXCEPT !.key[b] = nk, !.alias[b] = na, !.map = p.map \cup {<<k, b>>},
                      !.pub = np]
    BY <1>2 DEF InsertHash
  <2>2. np \in [Key -> Int]
    <3>1. {<<k, b>>} \in SUBSET (Key \X Block)
      BY <2>0
    <3>2. Emit(p.pub, {<<k, b>>}, {}) \in [Key -> Int]
      BY <3>1, EmitType, PoolFields
    <3> QED BY <3>2, PoolFields
  <2>3. /\ nk \in Key \cup {NoKey} /\ na \in SUBSET Key
        /\ p.map \cup {<<k, b>>} \in SUBSET (Key \X Block)
    BY <2>0, PoolFields
  <2> DEFINE fk == [p.key EXCEPT ![b] = nk]
             fa == [p.alias EXCEPT ![b] = na]
             nm == p.map \cup {<<k, b>>}
  <2>6. fk \in [Block -> Key \cup {NoKey}] /\ fa \in [Block -> SUBSET Key]
    BY <2>3, PoolFields
  <2>7. q = [p EXCEPT !.key = fk, !.alias = fa, !.map = nm, !.pub = np]
    BY <2>1
  <2>4. q \in PoolType
    <3> HIDE DEF np, fk, fa, nm, q
    <3> QED BY <2>2, <2>3, <2>6, <2>7 DEF PoolType, nm
  <2>5. /\ q.ref = p.ref /\ q.free = p.free /\ q.watch = p.watch
        /\ q.map = p.map \cup {<<k, b>>}
        /\ q.key = [p.key EXCEPT ![b] = nk] /\ q.alias = [p.alias EXCEPT ![b] = na]
    BY <2>7 DEF PoolType
  <2> HIDE DEF q
  <2>8. HashesMatchMap(q)
    <3>1. \A x \in Block : /\ q.key[x] = IF x = b THEN nk ELSE p.key[x]
                           /\ q.alias[x] = IF x = b THEN na ELSE p.alias[x]
      BY <2>5, PoolFields
    <3>2. k # NoKey
      BY KeyAssumption
    <3>3. ASSUME NEW j \in Key, NEW x \in Block
          PROVE  <<j, x>> \in q.map <=> j \in KeysOf(q, x)
      <4>1. <<j, x>> \in p.map <=> j \in KeysOf(p, x)
        BY DEF HashesMatchMap
      <4>2. <<j, x>> \in q.map <=> <<j, x>> \in p.map \/ (j = k /\ x = b)
        BY <2>5
      <4>3. KeysOf(q, x) = KeysOf(p, x) \cup (IF x = b THEN {k} ELSE {})
        BY <3>1, <3>2 DEF HashesMatchMap, KeysOf
      <4> QED BY <4>1, <4>2, <4>3
    <3>4. \A x \in Block : (q.key[x] = NoKey => q.alias[x] = {}) /\ q.key[x] \notin q.alias[x]
      BY <1>2, <2>0, <3>1, <3>2 DEF HashesMatchMap
    <3>5. q.key[NullBlock] = NoKey
      BY <2>0, <3>1, NullBlockAssumption DEF HashesMatchMap
    <3> QED BY <3>3, <3>4, <3>5 DEF HashesMatchMap
  <2> QED BY <2>4, <2>5, <2>8 DEF OnlyHashes, q
<1> QED BY <1>1, <1>2

(* So does cache_full_blocks. *)
LEMMA CacheFullBlocksProperties ==
    ASSUME NEW p \in PoolType, HashesMatchMap(p), NEW bs \in SUBSET RealBlock,
           NEW f \in [bs -> Key]
    PROVE  OnlyHashes(p, CacheFullBlocks(p, f))
<1> DEFINE r == RemoveHashes(p, bs, TRUE)
           new == {<<f[b], b>> : b \in bs}
           nk == [b \in Block |-> IF b \in bs THEN f[b] ELSE r.key[b]]
           np == Emit(r.pub, new, {})
           q == CacheFullBlocks(p, f)
<1>0. bs \in SUBSET Block /\ NullBlock \notin bs
  BY DEF RealBlock
<1>1. /\ r \in PoolType /\ HashesMatchMap(r)
      /\ r.ref = p.ref /\ r.free = p.free /\ r.watch = p.watch
      /\ \A b \in bs : r.key[b] = NoKey /\ r.alias[b] = {}
  BY <1>0, RemoveHashesProperties
<1>2. q = [r EXCEPT !.key = nk, !.map = r.map \cup new, !.pub = np]
  BY DEF CacheFullBlocks
<1>3. new \in SUBSET (Key \X Block)
  BY <1>0
<1> HIDE DEF r
<1>4. np \in [Key -> Int]
  BY <1>1, <1>3, EmitType, PoolFields
<1>5. nk \in [Block -> Key \cup {NoKey}] /\ r.map \cup new \in SUBSET (Key \X Block)
  BY <1>1, <1>3, PoolFields
<1>6. /\ q \in PoolType
      /\ q.ref = r.ref /\ q.free = r.free /\ q.watch = r.watch
      /\ q.map = r.map \cup new /\ q.key = nk /\ q.alias = r.alias
  <2> HIDE DEF nk, np, new
  <2> QED BY <1>1, <1>2, <1>4, <1>5 DEF PoolType
<1> HIDE DEF q
<1>7. HashesMatchMap(q)
  <2>1. \A x \in Block : /\ q.key[x] = IF x \in bs THEN f[x] ELSE r.key[x]
                         /\ q.alias[x] = r.alias[x]
    BY <1>6
  <2>2. \A x \in bs : f[x] \in Key /\ f[x] # NoKey
    BY KeyAssumption
  <2>3. \A k \in Key, x \in Block :
           <<k, x>> \in q.map <=> <<k, x>> \in r.map \/ (x \in bs /\ k = f[x])
    BY <1>6
  <2>4. ASSUME NEW k \in Key, NEW x \in Block
        PROVE  <<k, x>> \in q.map <=> k \in KeysOf(q, x)
    <3>1. <<k, x>> \in r.map <=> k \in KeysOf(r, x)
      BY <1>1 DEF HashesMatchMap
    <3>2. KeysOf(q, x) = KeysOf(r, x) \cup (IF x \in bs THEN {f[x]} ELSE {})
      BY <1>1, <2>1, <2>2 DEF KeysOf
    <3> QED BY <2>3, <3>1, <3>2
  <2>5. \A x \in Block : (q.key[x] = NoKey => q.alias[x] = {}) /\ q.key[x] \notin q.alias[x]
    BY <1>1, <2>1, <2>2 DEF HashesMatchMap
  <2>6. q.key[NullBlock] = NoKey
    BY <1>0, <1>1, <2>1, NullBlockAssumption DEF HashesMatchMap
  <2> QED BY <2>4, <2>5, <2>6 DEF HashesMatchMap
<1> QED BY <1>1, <1>6, <1>7 DEF OnlyHashes, q

(* So does cache_partial_block. *)
LEMMA CachePartialBlockProperties ==
    ASSUME NEW p \in PoolType, HashesMatchMap(p), NEW b \in Block, NEW k \in Key,
           NEW replace \in BOOLEAN
    PROVE  OnlyHashes(p, CachePartialBlock(p, b, k, replace, KeyTokens))
<1>1. CASE b = NullBlock
  BY <1>1 DEF CachePartialBlock, OnlyHashes
<1>2. CASE b # NullBlock
  <2> DEFINE r == RemoveHashes(p, {b}, TRUE)
  <2>1. b \in RealBlock /\ {b} \in SUBSET Block
    BY <1>2 DEF RealBlock
  <2>2. OnlyHashes(p, r)
    BY <2>1, RemoveHashesProperties DEF OnlyHashes
  <2> HIDE DEF r
  <2>3. OnlyHashes(p, InsertHash(p, b, k, TRUE))
    BY <2>1, InsertHashProperties
  <2>4. OnlyHashes(r, InsertHash(r, b, k, TRUE))
    BY <2>1, <2>2, InsertHashProperties DEF OnlyHashes
  <2>5. OnlyHashes(p, InsertHash(r, b, k, TRUE))
    BY <2>2, <2>4 DEF OnlyHashes
  <2>6. \/ CachePartialBlock(p, b, k, replace, KeyTokens) = InsertHash(p, b, k, TRUE)
        \/ CachePartialBlock(p, b, k, replace, KeyTokens) = InsertHash(r, b, k, TRUE)
    BY <1>2 DEF CachePartialBlock, r
  <2> QED BY <2>3, <2>5, <2>6
<1> QED BY <1>1, <1>2

(* So does move_block_hashes, if the destination has no hash. *)
LEMMA MoveBlockHashesProperties ==
    ASSUME NEW p \in PoolType, HashesMatchMap(p), NEW src \in RealBlock,
           NEW dst \in RealBlock, src # dst, p.key[dst] = NoKey, p.alias[dst] = {}
    PROVE  OnlyHashes(p, MoveBlockHashes(p, src, dst))
<1> DEFINE r == RemoveHashes(p, {src}, FALSE)
           moved == {<<e[1], dst>> : e \in Entries(p, {src})}
           fk == [r.key EXCEPT ![dst] = p.key[src]]
           fa == [r.alias EXCEPT ![dst] = p.alias[src]]
           nm == r.map \cup moved
           q == MoveBlockHashes(p, src, dst)
<1>0. src \in Block /\ dst \in Block /\ src # NullBlock /\ dst # NullBlock
  BY DEF RealBlock
<1>1. /\ r \in PoolType /\ HashesMatchMap(r)
      /\ r.ref = p.ref /\ r.free = p.free /\ r.watch = p.watch
      /\ r.map = {e \in p.map : e[2] # src}
      /\ \A b \in Block : r.key[b] = IF b = src THEN NoKey ELSE p.key[b]
      /\ \A b \in Block : r.alias[b] = IF b = src THEN {} ELSE p.alias[b]
  <2>1. {src} \in SUBSET Block /\ FALSE \in BOOLEAN
    BY <1>0
  <2>2. /\ r \in PoolType /\ HashesMatchMap(r)
        /\ r.ref = p.ref /\ r.free = p.free /\ r.watch = p.watch
        /\ r.map = {e \in p.map : e[2] \notin {src}}
        /\ \A b \in Block : r.key[b] = IF b \in {src} THEN NoKey ELSE p.key[b]
        /\ \A b \in Block : r.alias[b] = IF b \in {src} THEN {} ELSE p.alias[b]
    BY <2>1, RemoveHashesProperties
  <2> HIDE DEF r
  <2> QED BY <2>2
<1>2. q = [r EXCEPT !.key = fk, !.alias = fa, !.map = nm]
  BY DEF MoveBlockHashes
<1> HIDE DEF r
<1>3. \A k \in Key, x \in Block : <<k, x>> \in moved <=> x = dst /\ <<k, src>> \in p.map
  <2>1. ASSUME NEW k \in Key, <<k, src>> \in p.map
        PROVE  <<k, dst>> \in moved
    <3>1. k \in KeysOf(p, src)
      BY <1>0, <2>1 DEF HashesMatchMap
    <3>2. <<k, src>> \in Entries(p, {src})
      BY <2>1, <3>1 DEF Entries
    <3> QED BY <3>2
  <2>2. ASSUME NEW k \in Key, NEW x \in Block, <<k, x>> \in moved
        PROVE  x = dst /\ <<k, src>> \in p.map
    <3>1. PICK e \in Entries(p, {src}) : <<k, x>> = <<e[1], dst>>
      BY <2>2
    <3>2. e \in p.map /\ e[2] = src /\ e \in Key \X Block
      BY PoolFields DEF Entries
    <3>3. e = <<e[1], e[2]>> /\ k = e[1] /\ x = dst
      BY <3>1, <3>2
    <3> QED BY <3>2, <3>3
  <2> QED BY <2>1, <2>2
<1>4. /\ fk \in [Block -> Key \cup {NoKey}] /\ fa \in [Block -> SUBSET Key]
      /\ nm \in SUBSET (Key \X Block)
  <2>1. moved \in SUBSET (Key \X Block)
    BY <1>0, PoolFields DEF Entries
  <2> QED BY <1>0, <1>1, <2>1, PoolFields
<1>5. /\ q \in PoolType
      /\ q.ref = r.ref /\ q.free = r.free /\ q.watch = r.watch
      /\ q.map = nm /\ q.key = fk /\ q.alias = fa
  <2> HIDE DEF fk, fa, nm, q
  <2> QED BY <1>1, <1>2, <1>4 DEF PoolType
<1>6. \A x \in Block :
         /\ q.key[x] = CASE x = dst -> p.key[src] [] x = src -> NoKey [] OTHER -> p.key[x]
         /\ q.alias[x] = CASE x = dst -> p.alias[src] [] x = src -> {} [] OTHER -> p.alias[x]
  BY <1>0, <1>1, <1>5, PoolFields
<1> HIDE DEF q, moved, fk, fa
<1>7. HashesMatchMap(q)
  <2>1. ASSUME NEW k \in Key, NEW x \in Block
        PROVE  <<k, x>> \in q.map <=> k \in KeysOf(q, x)
    <3>1. <<k, x>> \in q.map <=> (x # src /\ <<k, x>> \in p.map) \/ (x = dst /\ <<k, src>> \in p.map)
      BY <1>1, <1>3, <1>5
    <3>2. (<<k, x>> \in p.map <=> k \in KeysOf(p, x)) /\ (<<k, src>> \in p.map <=> k \in KeysOf(p, src))
      BY <1>0 DEF HashesMatchMap
    <3>3. CASE x = dst
      <4>1. KeysOf(q, x) = KeysOf(p, src) /\ KeysOf(p, x) = {}
        BY <1>0, <1>6, <3>3 DEF KeysOf
      <4> QED BY <3>1, <3>2, <3>3, <4>1
    <3>4. CASE x = src
      <4>1. KeysOf(q, x) = {}
        BY <1>0, <1>6, <3>4 DEF KeysOf
      <4> QED BY <3>1, <3>4, <4>1
    <3>5. CASE x # src /\ x # dst
      <4>1. KeysOf(q, x) = KeysOf(p, x)
        BY <1>6, <3>5 DEF KeysOf
      <4> QED BY <3>1, <3>2, <3>5, <4>1
    <3> QED BY <3>3, <3>4, <3>5
  <2>2. \A x \in Block : (q.key[x] = NoKey => q.alias[x] = {}) /\ q.key[x] \notin q.alias[x]
    BY <1>0, <1>6 DEF HashesMatchMap
  <2>3. q.key[NullBlock] = NoKey
    BY <1>0, <1>6, NullBlockAssumption DEF HashesMatchMap
  <2> QED BY <2>1, <2>2, <2>3 DEF HashesMatchMap
<1> QED BY <1>1, <1>5, <1>7 DEF OnlyHashes, q

(* reset_prefix_cache leaves no hash and touches neither counts nor queue. *)
LEMMA ResetPrefixCacheProperties ==
    ASSUME NEW p \in PoolType
    PROVE  LET q == ResetPrefixCache(p)
           IN  /\ q \in PoolType /\ HashesMatchMap(q)
               /\ q.ref = p.ref /\ q.free = p.free
<1> DEFINE q == ResetPrefixCache(p)
           np == IF EnableEvents THEN [k \in DOMAIN p.pub |-> 0] ELSE p.pub
<1>1. np \in [Key -> Int]
  BY PoolFields
<1>2. /\ q = [p EXCEPT !.key = [b \in Block |-> NoKey], !.alias = [b \in Block |-> {}],
                       !.map = {}, !.watch = {}, !.pub = np]
  BY DEF ResetPrefixCache
<1> HIDE DEF np, q
<1>3. /\ q \in PoolType /\ q.ref = p.ref /\ q.free = p.free /\ q.map = {}
      /\ q.key = [b \in Block |-> NoKey] /\ q.alias = [b \in Block |-> {}]
  BY <1>1, <1>2 DEF PoolType
<1>4. HashesMatchMap(q)
  BY <1>3, NullBlockAssumption DEF HashesMatchMap, KeysOf
<1> QED BY <1>3, <1>4 DEF q
----------------------------------------------------------------------------
(* What an operation on the reference counts and the free queue keeps. *)
PoolGood(p) == p \in PoolType /\ HashesMatchMap(p) /\ FreeMatchesRefs(p)

(* A sequence over a smaller set. *)
LEMMA SeqWeaken ==
    ASSUME NEW S, NEW T, S \subseteq T, NEW s \in Seq(S)
    PROVE  s \in Seq(T)
OBVIOUS

(* get_new_blocks hands out distinct unreferenced blocks and counts one
   reference for each. *)
LEMMA GetNewBlocksProperties ==
    ASSUME NEW p, PoolGood(p), NEW n \in 0 .. NumFree(p)
    PROVE  LET q == GetNewBlocks(p, n)
               s == NewBlocks(p, n)
           IN  /\ PoolGood(q)
               /\ s \in Seq(RealBlock) /\ Injective(s)
               /\ \A b \in ToSet(s) : p.ref[b] = 0
               /\ \A b \in Block : q.ref[b] = IF b \in ToSet(s) THEN p.ref[b] + 1 ELSE p.ref[b]
               /\ EnableCaching => \A b \in ToSet(s) : q.key[b] = NoKey /\ q.alias[b] = {}
<1> DEFINE s == NewBlocks(p, n)
           new == ToSet(s)
           rest == SubSeq(p.free, n + 1, Len(p.free))
           r == IF EnableCaching THEN RemoveHashes(p, new, TRUE) ELSE p
           nr == [b \in Block |-> IF b \in new THEN p.ref[b] + 1 ELSE p.ref[b]]
           q == GetNewBlocks(p, n)
<1>0. p \in PoolType /\ HashesMatchMap(p) /\ FreeMatchesRefs(p)
  BY DEF PoolGood
<1>1. p.free \in Seq(RealBlock) /\ Injective(p.free) /\ n \in 0 .. Len(p.free)
  BY <1>0, PoolFields DEF FreeMatchesRefs, NumFree
<1>2. /\ s \in Seq(RealBlock) /\ rest \in Seq(RealBlock)
      /\ ToSet(p.free) = new \cup ToSet(rest)
      /\ Injective(s) /\ Injective(rest) /\ new \cap ToSet(rest) = {}
  BY <1>1, SplitSet DEF NewBlocks
<1> HIDE DEF s, rest
<1>3. new \in SUBSET RealBlock /\ new \in SUBSET Block
  <2>1. \A i \in DOMAIN s : s[i] \in RealBlock
    BY <1>2
  <2> QED BY <2>1 DEF ToSet, RealBlock
<1>4. \A b \in new : p.ref[b] = 0
  BY <1>0, <1>2, <1>3 DEF FreeMatchesRefs
<1> HIDE DEF new
<1>5. /\ r \in PoolType /\ HashesMatchMap(r)
      /\ r.ref = p.ref /\ r.free = p.free /\ r.watch = p.watch
      /\ EnableCaching => \A b \in new : r.key[b] = NoKey /\ r.alias[b] = {}
  <2>1. CASE EnableCaching
    BY <1>0, <1>3, <2>1, RemoveHashesProperties
  <2>2. CASE ~EnableCaching
    BY <1>0, <2>2
  <2> QED BY <2>1, <2>2
<1>6. q = [r EXCEPT !.free = rest, !.watch = r.watch \ new, !.ref = nr]
  <2>1. q = [r EXCEPT !.free = rest, !.watch = @ \ new,
                      !.ref = [b \in Block |-> IF b \in new THEN @[b] + 1 ELSE @[b]]]
    BY DEF GetNewBlocks, rest, new, s
  <2> HIDE DEF r
  <2> QED BY <1>5, <2>1
<1> HIDE DEF r
<1>7. nr \in [Block -> Nat]
  BY <1>0, PoolFields
<1>8. /\ q \in PoolType /\ q.ref = nr /\ q.free = rest
      /\ q.key = r.key /\ q.alias = r.alias /\ q.map = r.map
  <2> HIDE DEF nr, q
  <2> QED BY <1>2, <1>5, <1>6, <1>7 DEF PoolType
<1> HIDE DEF q
<1>9. HashesMatchMap(q)
  BY <1>5, <1>8 DEF HashesMatchMap, KeysOf
<1>10. \A b \in Block : q.ref[b] = IF b \in new THEN p.ref[b] + 1 ELSE p.ref[b]
  BY <1>8
<1>11. FreeMatchesRefs(q)
  <2>1. ASSUME NEW b \in RealBlock
        PROVE  q.ref[b] = 0 <=> b \in ToSet(rest)
    <3>1. b \in Block /\ p.ref[b] \in Nat
      BY <1>0, PoolFields DEF RealBlock
    <3>2. p.ref[b] = 0 <=> b \in ToSet(p.free)
      BY <1>0 DEF FreeMatchesRefs
    <3>3. CASE b \in new
      BY <1>2, <1>10, <3>1, <3>3
    <3>4. CASE b \notin new
      BY <1>2, <1>10, <3>1, <3>2, <3>4
    <3> QED BY <3>3, <3>4
  <2> QED BY <1>2, <1>8, <2>1 DEF FreeMatchesRefs
<1> QED BY <1>2, <1>4, <1>5, <1>8, <1>9, <1>10, <1>11 DEF PoolGood, q, new, s

(* touch takes the unreferenced blocks of a hit out of the free queue. *)
LEMMA TouchProperties ==
    ASSUME NEW p, PoolGood(p), NEW bs \in SUBSET Block
    PROVE  LET q == Touch(p, bs)
           IN  /\ PoolGood(q)
               /\ \A b \in Block : q.ref[b] = IF b \in bs \ {NullBlock} THEN p.ref[b] + 1 ELSE p.ref[b]
<1> DEFINE X == Block \ {b \in bs : p.ref[b] = 0}
           rest == Keep(p.free, X)
           nr == [b \in Block |-> IF b \in bs \ {NullBlock} THEN p.ref[b] + 1 ELSE p.ref[b]]
           q == Touch(p, bs)
<1>0. p \in PoolType /\ HashesMatchMap(p) /\ FreeMatchesRefs(p)
  BY DEF PoolGood
<1>1. p.free \in Seq(RealBlock) /\ Injective(p.free)
  BY <1>0, PoolFields DEF FreeMatchesRefs
<1>2. /\ rest \in Seq(RealBlock \cap X)
      /\ ToSet(rest) = ToSet(p.free) \cap X
      /\ Injective(rest)
  <2> HIDE DEF X
  <2>1. \A i, j \in DOMAIN p.free : p.free[i] = p.free[j] /\ p.free[i] \in X => i = j
    BY <1>1 DEF Injective
  <2> QED BY <1>1, <2>1, KeepProperties
<1> HIDE DEF rest
<1>3. rest \in Seq(RealBlock)
  BY <1>2, SeqWeaken
<1>4. q = [p EXCEPT !.ref = nr, !.free = rest]
  BY DEF Touch, rest
<1>5. nr \in [Block -> Nat]
  BY <1>0, PoolFields
<1>6. /\ q \in PoolType /\ q.ref = nr /\ q.free = rest
      /\ q.key = p.key /\ q.alias = p.alias /\ q.map = p.map
  <2> HIDE DEF nr, q
  <2> QED BY <1>0, <1>3, <1>4, <1>5 DEF PoolType
<1> HIDE DEF q
<1>7. HashesMatchMap(q)
  BY <1>0, <1>6 DEF HashesMatchMap, KeysOf
<1>8. \A b \in Block : q.ref[b] = IF b \in bs \ {NullBlock} THEN p.ref[b] + 1 ELSE p.ref[b]
  BY <1>6
<1>9. FreeMatchesRefs(q)
  <2>1. ASSUME NEW b \in RealBlock
        PROVE  q.ref[b] = 0 <=> b \in ToSet(rest)
    <3>1. b \in Block /\ p.ref[b] \in Nat
      BY <1>0, PoolFields DEF RealBlock
    <3>2. p.ref[b] = 0 <=> b \in ToSet(p.free)
      BY <1>0 DEF FreeMatchesRefs
    <3>3. CASE b \in bs
      BY <1>2, <1>8, <3>1, <3>2, <3>3 DEF RealBlock
    <3>4. CASE b \notin bs
      BY <1>2, <1>8, <3>1, <3>2, <3>4
    <3> QED BY <3>3, <3>4
  <2> QED BY <1>2, <1>6, <2>1 DEF FreeMatchesRefs
<1> QED BY <1>6, <1>7, <1>8, <1>9 DEF PoolGood, q

(* The blocks released by a table are distinct and were not free. *)
LEMMA ReleasedProperties ==
    ASSUME NEW p, PoolGood(p), NEW s \in Seq(Block), Distinct(s),
           NEW X \in SUBSET Released(p, s)
    PROVE  /\ Keep(s, X) \in Seq(RealBlock) /\ Injective(Keep(s, X))
           /\ ToSet(Keep(s, X)) = X
           /\ X \cap ToSet(p.free) = {}
<1>1. X \subseteq RealBlock /\ X \subseteq ToSet(s) /\ \A b \in X : p.ref[b] = 1
  <2>1. \A i \in DOMAIN s : s[i] \in Block
    OBVIOUS
  <2> QED BY <2>1 DEF Released, RealBlock, ToSet
<1>2. /\ Keep(s, X) \in Seq(Block \cap X)
      /\ ToSet(Keep(s, X)) = ToSet(s) \cap X
  BY KeepProperties
<1>3. Injective(Keep(s, X))
  <2>1. \A i, j \in DOMAIN s : s[i] = s[j] /\ s[i] \in X => i = j
    BY <1>1 DEF Distinct, RealBlock
  <2> QED BY <2>1, KeepProperties
<1>4. Keep(s, X) \in Seq(RealBlock)
  BY <1>1, <1>2, SeqWeaken
<1>5. X \cap ToSet(p.free) = {}
  BY <1>1 DEF PoolGood, FreeMatchesRefs
<1> QED BY <1>1, <1>2, <1>3, <1>4, <1>5

(* Taking one reference from every real block of a table. *)
LEMMA DecrementProperties ==
    ASSUME NEW p, PoolGood(p), NEW s \in Seq(Block),
           \A b \in ToSet(s) \ {NullBlock} : p.ref[b] > 0,
           NEW q, q.ref = Decrement(p, s),
           Injective(q.free), ToSet(q.free) = ToSet(p.free) \cup Released(p, s)
    PROVE  /\ q.ref \in [Block -> Nat]
           /\ FreeMatchesRefs(q)
<1> DEFINE T == ToSet(s) \ {NullBlock}
<1>0. p.ref \in [Block -> Nat] /\ FreeMatchesRefs(p)
  BY PoolFields DEF PoolGood
<1>1. q.ref = [b \in Block |-> IF b \in T THEN p.ref[b] - 1 ELSE p.ref[b]]
  BY DEF Decrement
<1>2. Released(p, s) = {b \in T : p.ref[b] = 1}
  BY DEF Released
<1>3. \A b \in T : p.ref[b] > 0
  OBVIOUS
<1> HIDE DEF T
<1>4. q.ref \in [Block -> Nat]
  BY <1>0, <1>1, <1>3
<1>5. ASSUME NEW b \in RealBlock
      PROVE  q.ref[b] = 0 <=> b \in ToSet(q.free)
  <2>1. b \in Block /\ p.ref[b] \in Nat
    BY <1>0 DEF RealBlock
  <2>2. p.ref[b] = 0 <=> b \in ToSet(p.free)
    BY <1>0 DEF FreeMatchesRefs
  <2>3. CASE b \in T
    BY <1>1, <1>2, <1>3, <2>1, <2>2, <2>3
  <2>4. CASE b \notin T
    BY <1>1, <1>2, <2>1, <2>2, <2>4
  <2> QED BY <2>3, <2>4
<1> QED BY <1>4, <1>5 DEF FreeMatchesRefs

(* free_blocks: the released blocks go to both ends of the free queue. *)
LEMMA FreeBlocksProperties ==
    ASSUME NEW p, PoolGood(p), NEW s \in Seq(Block), Distinct(s),
           \A b \in ToSet(s) \ {NullBlock} : p.ref[b] > 0
    PROVE  LET q == FreeBlocks(p, s)
           IN  /\ PoolGood(q)
               /\ q.ref = Decrement(p, s)
<1> DEFINE R == Released(p, s)
           first == {b \in R : p.key[b] = NoKey \/ ~EnableCaching}
           last == R \ first
           kf == Keep(s, first)
           kl == Keep(s, last)
           nf == kf \o p.free \o kl
           q == FreeBlocks(p, s)
<1>0. p \in PoolType /\ HashesMatchMap(p) /\ FreeMatchesRefs(p)
  BY DEF PoolGood
<1>1. p.free \in Seq(RealBlock) /\ Injective(p.free)
  BY <1>0, PoolFields DEF FreeMatchesRefs
<1>2. q = [p EXCEPT !.ref = Decrement(p, s), !.free = nf]
  BY DEF FreeBlocks
<1>3. kf \in Seq(RealBlock) /\ Injective(kf) /\ ToSet(kf) = first /\ first \cap ToSet(p.free) = {}
  <2>1. first \in SUBSET Released(p, s)
    OBVIOUS
  <2> HIDE DEF first
  <2> QED BY <2>1, ReleasedProperties
<1>4. kl \in Seq(RealBlock) /\ Injective(kl) /\ ToSet(kl) = last /\ last \cap ToSet(p.free) = {}
  <2>1. last \in SUBSET Released(p, s)
    OBVIOUS
  <2> HIDE DEF last
  <2> QED BY <2>1, ReleasedProperties
<1>5. first \cap last = {} /\ first \cup last = R
  OBVIOUS
<1> HIDE DEF kf, kl, first, last, R
<1>6. kf \o p.free \in Seq(RealBlock) /\ Injective(kf \o p.free) /\ ToSet(kf \o p.free) = first \cup ToSet(p.free)
  BY <1>1, <1>3, ConcatSet
<1>7. nf \in Seq(RealBlock) /\ Injective(nf) /\ ToSet(nf) = ToSet(p.free) \cup R
  <2> DEFINE u == kf \o p.free
  <2>1. ToSet(u) \cap ToSet(kl) = {}
    BY <1>4, <1>5, <1>6
  <2>2. nf = u \o kl /\ u \in Seq(RealBlock) /\ Injective(u)
    BY <1>6
  <2> HIDE DEF u
  <2>3. u \o kl \in Seq(RealBlock) /\ Injective(u \o kl) /\ ToSet(u \o kl) = ToSet(u) \cup ToSet(kl)
    BY <1>4, <2>1, <2>2, ConcatSet
  <2> QED BY <1>4, <1>5, <1>6, <2>2, <2>3 DEF u
<1> HIDE DEF nf
<1>8. /\ q.ref = Decrement(p, s) /\ q.free = nf /\ q.key = p.key
      /\ q.alias = p.alias /\ q.map = p.map
  BY <1>0, <1>2 DEF PoolType
<1>9. Decrement(p, s) \in [Block -> Nat] /\ FreeMatchesRefs(q)
  <2> HIDE DEF q
  <2> QED BY <1>7, <1>8, DecrementProperties DEF R
<1>10. q \in PoolType
  <2> HIDE DEF q
  <2> QED BY <1>0, <1>2, <1>7, <1>9 DEF PoolType
<1> HIDE DEF q
<1>11. HashesMatchMap(q)
  BY <1>0, <1>8 DEF HashesMatchMap, KeysOf
<1> QED BY <1>8, <1>9, <1>10, <1>11 DEF PoolGood, q

(* unpin_blocks for one block. *)
LEMMA UnpinBlocksProperties ==
    ASSUME NEW p, PoolGood(p), NEW s \in Seq(RealBlock), Distinct(s),
           \A b \in ToSet(s) \ {NullBlock} : p.ref[b] > 0
    PROVE  LET q == UnpinBlocks(p, s)
           IN  /\ PoolGood(q)
               /\ q.ref = Decrement(p, s)
<1> DEFINE R == Released(p, s)
           kr == Keep(s, R)
           nf == p.free \o kr
           q == UnpinBlocks(p, s)
<1>0. p \in PoolType /\ HashesMatchMap(p) /\ FreeMatchesRefs(p)
  BY DEF PoolGood
<1>1. p.free \in Seq(RealBlock) /\ Injective(p.free)
  BY <1>0, PoolFields DEF FreeMatchesRefs
<1>2. q = [p EXCEPT !.ref = Decrement(p, s), !.watch = p.watch \cup ToSet(s), !.free = nf]
  BY DEF UnpinBlocks
<1>s. s \in Seq(Block)
  BY SeqWeaken DEF RealBlock
<1>3. kr \in Seq(RealBlock) /\ Injective(kr) /\ ToSet(kr) = R /\ R \cap ToSet(p.free) = {}
  BY <1>s, ReleasedProperties
<1>4. p.watch \cup ToSet(s) \in SUBSET RealBlock
  <2>1. \A i \in DOMAIN s : s[i] \in RealBlock
    OBVIOUS
  <2> QED BY <1>0, <2>1, PoolFields DEF ToSet
<1> HIDE DEF kr, R
<1>7. nf \in Seq(RealBlock) /\ Injective(nf) /\ ToSet(nf) = ToSet(p.free) \cup R
  BY <1>1, <1>3, ConcatSet
<1> HIDE DEF nf
<1>8. /\ q.ref = Decrement(p, s) /\ q.free = nf /\ q.key = p.key
      /\ q.alias = p.alias /\ q.map = p.map
  BY <1>0, <1>2 DEF PoolType
<1>9. Decrement(p, s) \in [Block -> Nat] /\ FreeMatchesRefs(q)
  <2> HIDE DEF q
  <2> QED BY <1>s, <1>7, <1>8, DecrementProperties DEF R
<1>10. q \in PoolType
  <2> HIDE DEF q
  <2> QED BY <1>0, <1>2, <1>4, <1>7, <1>9 DEF PoolType
<1> HIDE DEF q
<1>11. HashesMatchMap(q)
  BY <1>0, <1>8 DEF HashesMatchMap, KeysOf
<1> QED BY <1>8, <1>9, <1>10, <1>11 DEF PoolGood, q
----------------------------------------------------------------------------
(* The inductive invariant.  None of its parts is inductive by itself: a block
   that is freed goes back to the queue exactly once because its count says how
   many tables it is in, and a hit counts only real blocks because the null
   block has no hash. *)
IInv ==
    /\ PoolGood(pool)
    /\ held \in [Holder -> Seq(Block)]
    /\ RefCountsHolders

(* The number of tables that b is in when the tables are h. *)
HolderSet(h, b) == {c \in Holder : b \in ToSet(h[c]) \ {NullBlock}}

(* A block has finitely many holders. *)
LEMMA HolderSetFinite ==
    ASSUME NEW h, NEW b
    PROVE  IsFiniteSet(HolderSet(h, b)) /\ Cardinality(HolderSet(h, b)) \in Nat
<1>1. HolderSet(h, b) \in SUBSET Holder
  BY DEF HolderSet
<1>2. IsFiniteSet(HolderSet(h, b))
  <2>1. IsFiniteSet(Holder)
    BY ClientAssumption, FS_Union DEF Holder
  <2> QED BY <1>1, <2>1, FS_Subset
<1> QED BY <1>2, FS_CardinalityType

(* One client's table changes from t to u: the number of tables that b is in
   goes up, goes down or stays. *)
LEMMA HolderChange ==
    ASSUME NEW h \in [Holder -> Seq(Block)], NEW c \in Holder, NEW u \in Seq(Block),
           NEW b \in RealBlock
    PROVE  LET g == [h EXCEPT ![c] = u]
               before == Cardinality(HolderSet(h, b))
               after == Cardinality(HolderSet(g, b))
           IN  /\ b \in ToSet(u) /\ b \notin ToSet(h[c]) => after = before + 1
               /\ b \notin ToSet(u) /\ b \in ToSet(h[c]) => after = before - 1
               /\ (b \in ToSet(u) <=> b \in ToSet(h[c])) => after = before
<1> DEFINE g == [h EXCEPT ![c] = u]
           H == HolderSet(h, b)
           G == HolderSet(g, b)
<1>1. /\ IsFiniteSet(H) /\ Cardinality(H) \in Nat
      /\ IsFiniteSet(G) /\ Cardinality(G) \in Nat
  BY HolderSetFinite
<1>2. /\ c \in H <=> b \in ToSet(h[c])
      /\ c \in G <=> b \in ToSet(u)
      /\ \A d \in Holder \ {c} : d \in H <=> d \in G
      /\ H \subseteq Holder /\ G \subseteq Holder
  BY DEF HolderSet, RealBlock
<1> HIDE DEF H, G, g
<1>3. ASSUME b \in ToSet(u), b \notin ToSet(h[c])
      PROVE  Cardinality(G) = Cardinality(H) + 1
  <2>1. G = H \cup {c} /\ c \notin H
    BY <1>2, <1>3
  <2> QED BY <1>1, <2>1, FS_AddElement
<1>4. ASSUME b \notin ToSet(u), b \in ToSet(h[c])
      PROVE  Cardinality(G) = Cardinality(H) - 1
  <2>1. G = H \ {c} /\ c \in H
    BY <1>2, <1>4
  <2> QED BY <1>1, <2>1, FS_RemoveElement
<1>5. ASSUME b \in ToSet(u) <=> b \in ToSet(h[c])
      PROVE  G = H
  <2>1. \A d \in Holder : d \in H <=> d \in G
    <3>1. CASE b \in ToSet(u)
      BY <1>2, <1>5, <3>1
    <3>2. CASE b \notin ToSet(u)
      BY <1>2, <1>5, <3>2
    <3> QED BY <3>1, <3>2
  <2> QED BY <1>2, <2>1
<1> QED BY <1>3, <1>4, <1>5 DEF G, H, g

(* The counts f are those of the tables h. *)
RefsGood(f, h) ==
    /\ \A b \in RealBlock : f[b] = Cardinality(HolderSet(h, b))
    /\ \A c \in Holder : Distinct(h[c])

(* The reference counts follow a change of one holder's blocks. *)
LEMMA RefsChange ==
    ASSUME NEW h \in [Holder -> Seq(Block)], NEW f, RefsGood(f, h),
           NEW c \in Holder, NEW u \in Seq(Block), Distinct(u), NEW g,
           \A b \in RealBlock :
              g[b] = CASE b \in ToSet(u) /\ b \notin ToSet(h[c]) -> f[b] + 1
                       [] b \notin ToSet(u) /\ b \in ToSet(h[c]) -> f[b] - 1
                       [] OTHER -> f[b]
    PROVE  RefsGood(g, [h EXCEPT ![c] = u])
<1> DEFINE h2 == [h EXCEPT ![c] = u]
<1>1. \A d \in Holder : Distinct(h2[d])
  BY DEF RefsGood
<1>2. ASSUME NEW b \in RealBlock
      PROVE  g[b] = Cardinality(HolderSet(h2, b))
  <2> DEFINE before == Cardinality(HolderSet(h, b))
             after == Cardinality(HolderSet(h2, b))
  <2>1. f[b] = before
    BY DEF RefsGood
  <2>2. /\ b \in ToSet(u) /\ b \notin ToSet(h[c]) => after = before + 1
        /\ b \notin ToSet(u) /\ b \in ToSet(h[c]) => after = before - 1
        /\ (b \in ToSet(u) <=> b \in ToSet(h[c])) => after = before
    BY HolderChange
  <2> HIDE DEF before, after
  <2>3. g[b] = after
    BY <2>1, <2>2
  <2> QED BY <2>3 DEF after
<1> QED BY <1>1, <1>2 DEF RefsGood

(* RefCountsHolders in terms of the counts and the tables. *)
LEMMA RefsGoodInv ==
    RefCountsHolders <=> RefsGood(pool.ref, held)
BY DEF RefCountsHolders, RefsGood, HolderSet, Holds

(* An action that changes one holder keeps the invariant if the counts follow. *)
LEMMA RefsFollow ==
    ASSUME IInv, NEW c \in Holder, NEW u \in Seq(Block), Distinct(u),
           NEW q, PoolGood(q),
           pool' = q, held' = [held EXCEPT ![c] = u],
           \A b \in RealBlock :
              q.ref[b] = CASE b \in ToSet(u) /\ b \notin ToSet(held[c]) -> pool.ref[b] + 1
                           [] b \notin ToSet(u) /\ b \in ToSet(held[c]) -> pool.ref[b] - 1
                           [] OTHER -> pool.ref[b]
    PROVE  IInv'
<1>1. held \in [Holder -> Seq(Block)] /\ RefsGood(pool.ref, held)
  BY RefsGoodInv DEF IInv
<1>2. held' \in [Holder -> Seq(Block)]
  BY <1>1
<1>3. RefsGood(q.ref, [held EXCEPT ![c] = u])
  BY <1>1, RefsChange
<1>4. RefCountsHolders'
  BY <1>3 DEF RefCountsHolders, RefsGood, HolderSet, Holds
<1> QED BY <1>2, <1>4 DEF IInv

(* A step that changes only hashes. *)
LEMMA HashStep ==
    ASSUME IInv, UNCHANGED held, pool' \in PoolType, HashesMatchMap(pool'),
           pool'.ref = pool.ref, pool'.free = pool.free
    PROVE  IInv'
<1>1. FreeMatchesRefs(pool')
  BY DEF IInv, PoolGood, FreeMatchesRefs
<1>2. RefCountsHolders'
  BY DEF IInv, RefCountsHolders, Holds
<1> QED BY <1>1, <1>2 DEF IInv, PoolGood

(* The elements of a block table. *)
LEMMA TableFacts ==
    ASSUME IInv, NEW c \in Holder
    PROVE  /\ held[c] \in Seq(Block) /\ Distinct(held[c])
           /\ ToSet(held[c]) \subseteq Block
           /\ \A b \in ToSet(held[c]) \ {NullBlock} : pool.ref[b] > 0
<1>1. held[c] \in Seq(Block) /\ Distinct(held[c])
  BY DEF IInv, RefCountsHolders
<1>2. ToSet(held[c]) \subseteq Block
  <2>1. \A i \in DOMAIN held[c] : held[c][i] \in Block
    BY <1>1
  <2> QED BY <2>1 DEF ToSet
<1>3. ASSUME NEW b \in ToSet(held[c]) \ {NullBlock}
      PROVE  pool.ref[b] > 0
  <2>1. b \in RealBlock /\ pool.ref[b] = Cardinality(HolderSet(held, b))
    BY <1>2 DEF IInv, RefCountsHolders, HolderSet, Holds, RealBlock
  <2>2. c \in HolderSet(held, b)
    BY DEF HolderSet
  <2>3. Cardinality(HolderSet(held, b)) # 0
    BY <2>2, HolderSetFinite, FS_EmptySet
  <2> QED BY <2>1, <2>3, HolderSetFinite
<1> QED BY <1>1, <1>2, <1>3
----------------------------------------------------------------------------
(* A new pool: everything is free and nothing is cached. *)
LEMMA InitIInv ==
    Init => IInv
<1> SUFFICES ASSUME Init PROVE IInv
  OBVIOUS
<1>1. /\ pool.ref = [b \in Block |-> 0] /\ pool.key = [b \in Block |-> NoKey]
      /\ pool.alias = [b \in Block |-> {}] /\ pool.map = {} /\ pool.free = BlockOrder
      /\ held = [c \in Holder |-> <<>>]
  BY DEF Init, NewPool
<1>2. pool \in PoolType
  <2>1. BlockOrder \in Seq(RealBlock)
    BY OrderAssumption
  <2> QED BY <2>1 DEF Init, NewPool, PoolType
<1>3. HashesMatchMap(pool)
  BY <1>1, NullBlockAssumption DEF HashesMatchMap, KeysOf
<1>4. FreeMatchesRefs(pool)
  BY <1>1, OrderAssumption DEF FreeMatchesRefs, Injective, RealBlock
<1>5. held \in [Holder -> Seq(Block)]
  BY <1>1
<1>6. RefCountsHolders
  <2>1. \A c \in Holder : ToSet(held[c]) = {} /\ Distinct(held[c])
    BY <1>1 DEF ToSet, Distinct
  <2>2. \A b \in RealBlock : {c \in Holder : b \in Holds(c)} = {}
    BY <2>1 DEF Holds
  <2>3. Cardinality({}) = 0
    BY FS_EmptySet
  <2>4. \A b \in RealBlock : pool.ref[b] = 0
    BY <1>1 DEF RealBlock
  <2> QED BY <2>1, <2>2, <2>3, <2>4 DEF RefCountsHolders
<1> QED BY <1>2, <1>3, <1>4, <1>5, <1>6 DEF IInv, PoolGood

(* allocate_new_blocks, allocate_external_computed_blocks *)
LEMMA AllocateIInv ==
    ASSUME IInv, NEW c \in Holder, NEW n \in 1 .. NumFree(pool), Allocate(c, n)
    PROVE  IInv'
<1> DEFINE s == NewBlocks(pool, n)
           u == held[c] \o s
           q == GetNewBlocks(pool, n)
<1>1. PoolGood(pool) /\ n \in 0 .. NumFree(pool)
  <2>1. NumFree(pool) \in Nat
    BY PoolFields DEF IInv, PoolGood, NumFree
  <2> QED BY <2>1 DEF IInv
<1>2. /\ PoolGood(q)
      /\ s \in Seq(RealBlock) /\ Injective(s)
      /\ \A b \in ToSet(s) : pool.ref[b] = 0
      /\ \A b \in Block : q.ref[b] = IF b \in ToSet(s) THEN pool.ref[b] + 1 ELSE pool.ref[b]
  BY <1>1, GetNewBlocksProperties
<1> HIDE DEF s, q
<1>3. s \in Seq(Block) /\ NullBlock \notin ToSet(s)
  <2>1. \A i \in DOMAIN s : s[i] \in RealBlock
    BY <1>2
  <2> QED BY <1>2, <2>1, SeqWeaken DEF RealBlock, ToSet
<1>4. /\ held[c] \in Seq(Block) /\ Distinct(held[c])
      /\ \A b \in ToSet(held[c]) \ {NullBlock} : pool.ref[b] > 0
  BY TableFacts
<1>5. ToSet(held[c]) \cap ToSet(s) = {}
  BY <1>2, <1>3, <1>4
<1>6. u \in Seq(Block) /\ ToSet(u) = ToSet(held[c]) \cup ToSet(s)
  BY <1>3, <1>4, ConcatSet
<1>7. Distinct(u)
  BY <1>2, <1>3, <1>4, <1>5, ConcatDistinct
<1> HIDE DEF u
<1>8. pool' = q /\ held' = [held EXCEPT ![c] = u]
  BY DEF Allocate, q, u, s
<1>9. \A b \in RealBlock :
         q.ref[b] = CASE b \in ToSet(u) /\ b \notin ToSet(held[c]) -> pool.ref[b] + 1
                      [] b \notin ToSet(u) /\ b \in ToSet(held[c]) -> pool.ref[b] - 1
                      [] OTHER -> pool.ref[b]
  BY <1>2, <1>5, <1>6 DEF RealBlock
<1> QED BY <1>2, <1>6, <1>7, <1>8, <1>9, RefsFollow

(* add_local_computed_blocks *)
LEMMA HitIInv ==
    ASSUME IInv, NEW c \in Holder, NEW s \in HitSeqs, Hit(c, s)
    PROVE  IInv'
<1> DEFINE q == Touch(pool, ToSet(s))
<1>1. held[c] = <<>> /\ Distinct(s) /\ pool' = q /\ held' = [held EXCEPT ![c] = s]
  BY DEF Hit
<1>2. PICK n \in 1 .. MaxHit : s \in [1 .. n -> Block]
  BY DEF HitSeqs
<1>3. s \in Seq(Block) /\ ToSet(s) \in SUBSET Block
  <2>1. n \in Nat
    BY BoundAssumption
  <2>2. s \in Seq(Block)
    BY <1>2, <2>1
  <2>3. \A i \in DOMAIN s : s[i] \in Block
    BY <2>2
  <2> QED BY <2>2, <2>3 DEF ToSet
<1>4. /\ PoolGood(q)
      /\ \A b \in Block : q.ref[b] = IF b \in ToSet(s) \ {NullBlock} THEN pool.ref[b] + 1 ELSE pool.ref[b]
  BY <1>3, TouchProperties DEF IInv
<1>5. ToSet(held[c]) = {}
  BY <1>1 DEF ToSet
<1> HIDE DEF q
<1>6. \A b \in RealBlock :
         q.ref[b] = CASE b \in ToSet(s) /\ b \notin ToSet(held[c]) -> pool.ref[b] + 1
                      [] b \notin ToSet(s) /\ b \in ToSet(held[c]) -> pool.ref[b] - 1
                      [] OTHER -> pool.ref[b]
  BY <1>4, <1>5 DEF RealBlock
<1> QED BY <1>1, <1>3, <1>4, <1>5, <1>6, RefsFollow

(* free *)
LEMMA FreeIInv ==
    ASSUME IInv, NEW c \in Holder, Free(c)
    PROVE  IInv'
<1> DEFINE s == Reverse(held[c])
           q == FreeBlocks(pool, s)
<1>1. pool' = q /\ held' = [held EXCEPT ![c] = <<>>]
  BY DEF Free
<1>2. /\ held[c] \in Seq(Block) /\ Distinct(held[c])
      /\ \A b \in ToSet(held[c]) \ {NullBlock} : pool.ref[b] > 0
  BY TableFacts
<1>3. s \in Seq(Block) /\ ToSet(s) = ToSet(held[c]) /\ Distinct(s)
  BY <1>2, ReverseSet
<1> HIDE DEF s
<1>4. PoolGood(q) /\ q.ref = Decrement(pool, s)
  BY <1>2, <1>3, FreeBlocksProperties DEF IInv
<1> HIDE DEF q
<1>5. <<>> \in Seq(Block) /\ Distinct(<<>>) /\ ToSet(<<>>) = {}
  BY DEF Distinct, ToSet
<1>6. \A b \in RealBlock :
         q.ref[b] = CASE b \in ToSet(<<>>) /\ b \notin ToSet(held[c]) -> pool.ref[b] + 1
                      [] b \notin ToSet(<<>>) /\ b \in ToSet(held[c]) -> pool.ref[b] - 1
                      [] OTHER -> pool.ref[b]
  BY <1>3, <1>4, <1>5 DEF RealBlock, Decrement
<1> QED BY <1>1, <1>4, <1>5, <1>6, RefsFollow

(* The table in which entry i has become a null block. *)
LEMMA NullifyFacts ==
    ASSUME IInv, NEW c \in Holder, NEW i \in DOMAIN held[c], held[c][i] # NullBlock
    PROVE  LET s == <<held[c][i]>>
               u == [held[c] EXCEPT ![i] = NullBlock]
           IN  /\ s \in Seq(RealBlock) /\ Distinct(s)
               /\ \A b \in ToSet(s) \ {NullBlock} : pool.ref[b] > 0
               /\ u \in Seq(Block) /\ Distinct(u)
               /\ \A b \in RealBlock :
                     Decrement(pool, s)[b] =
                        CASE b \in ToSet(u) /\ b \notin ToSet(held[c]) -> pool.ref[b] + 1
                          [] b \notin ToSet(u) /\ b \in ToSet(held[c]) -> pool.ref[b] - 1
                          [] OTHER -> pool.ref[b]
<1> DEFINE t == held[c]
           x == t[i]
           s == <<x>>
           u == [t EXCEPT ![i] = NullBlock]
<1>1. /\ t \in Seq(Block) /\ Distinct(t)
      /\ \A b \in ToSet(t) \ {NullBlock} : pool.ref[b] > 0
  BY TableFacts
<1>2. x \in RealBlock /\ x \in ToSet(t) /\ x # NullBlock
  BY <1>1 DEF RealBlock, ToSet
<1>3. s \in Seq(RealBlock) /\ ToSet(s) = {x} /\ Distinct(s)
  <2>1. DOMAIN s = {1} /\ s[1] = x
    OBVIOUS
  <2>2. s \in Seq(RealBlock)
    BY <1>2
  <2> QED BY <2>1, <2>2 DEF ToSet, Distinct
<1>4. /\ u \in Seq(Block) /\ DOMAIN u = DOMAIN t
      /\ \A j \in DOMAIN t : u[j] = IF j = i THEN NullBlock ELSE t[j]
  BY <1>1, NullBlockAssumption
<1> HIDE DEF u, t
<1>5. Distinct(u)
  BY <1>1, <1>4 DEF Distinct
<1>6. \A b \in RealBlock : b \in ToSet(u) <=> b \in ToSet(t) /\ b # x
  <2> SUFFICES ASSUME NEW b \in RealBlock
               PROVE  b \in ToSet(u) <=> b \in ToSet(t) /\ b # x
    OBVIOUS
  <2>1. ASSUME b \in ToSet(u) PROVE b \in ToSet(t) /\ b # x
    <3>1. PICK j \in DOMAIN t : b = u[j]
      BY <1>4, <2>1 DEF ToSet
    <3>2. j # i /\ b = t[j]
      BY <1>4, <3>1 DEF RealBlock
    <3>3. i \in DOMAIN t
      BY DEF t
    <3> QED BY <1>1, <1>2, <3>2, <3>3 DEF ToSet, Distinct
  <2>2. ASSUME b \in ToSet(t), b # x PROVE b \in ToSet(u)
    <3>1. PICK j \in DOMAIN t : b = t[j]
      BY <2>2 DEF ToSet
    <3>2. j # i
      BY <2>2, <3>1
    <3> QED BY <1>4, <3>1, <3>2 DEF ToSet
  <2> QED BY <2>1, <2>2
<1>7. \A b \in RealBlock :
         Decrement(pool, s)[b] =
            CASE b \in ToSet(u) /\ b \notin ToSet(t) -> pool.ref[b] + 1
              [] b \notin ToSet(u) /\ b \in ToSet(t) -> pool.ref[b] - 1
              [] OTHER -> pool.ref[b]
  <2> SUFFICES ASSUME NEW b \in RealBlock
               PROVE  Decrement(pool, s)[b] =
                         CASE b \in ToSet(u) /\ b \notin ToSet(t) -> pool.ref[b] + 1
                           [] b \notin ToSet(u) /\ b \in ToSet(t) -> pool.ref[b] - 1
                           [] OTHER -> pool.ref[b]
    OBVIOUS
  <2>1. Decrement(pool, s)[b] = IF b = x THEN pool.ref[b] - 1 ELSE pool.ref[b]
    BY <1>2, <1>3 DEF Decrement, RealBlock
  <2> HIDE DEF s, x
  <2> QED BY <1>2, <1>6, <2>1
<1>8. \A b \in ToSet(s) \ {NullBlock} : pool.ref[b] > 0
  BY <1>1, <1>2, <1>3
<1> QED BY <1>3, <1>4, <1>5, <1>7, <1>8 DEF u, t

(* _remove_blocks_in_range *)
LEMMA RemoveSkippedIInv ==
    ASSUME IInv, NEW c \in Holder, NEW i \in DOMAIN held[c], RemoveSkipped(c, i)
    PROVE  IInv'
<1> DEFINE s == <<held[c][i]>>
           u == [held[c] EXCEPT ![i] = NullBlock]
           q == FreeBlocks(pool, s)
<1>1. held[c][i] # NullBlock /\ pool' = q /\ held' = [held EXCEPT ![c] = u]
  BY DEF RemoveSkipped
<1>2. /\ s \in Seq(RealBlock) /\ Distinct(s)
      /\ \A b \in ToSet(s) \ {NullBlock} : pool.ref[b] > 0
      /\ u \in Seq(Block) /\ Distinct(u)
      /\ \A b \in RealBlock :
            Decrement(pool, s)[b] =
               CASE b \in ToSet(u) /\ b \notin ToSet(held[c]) -> pool.ref[b] + 1
                 [] b \notin ToSet(u) /\ b \in ToSet(held[c]) -> pool.ref[b] - 1
                 [] OTHER -> pool.ref[b]
  BY <1>1, NullifyFacts
<1> HIDE DEF s, u
<1>3. s \in Seq(Block)
  BY <1>2, SeqWeaken DEF RealBlock
<1>4. PoolGood(q) /\ q.ref = Decrement(pool, s)
  BY <1>2, <1>3, FreeBlocksProperties DEF IInv
<1> HIDE DEF q
<1>5. \A b \in RealBlock :
         q.ref[b] = CASE b \in ToSet(u) /\ b \notin ToSet(held[c]) -> pool.ref[b] + 1
                      [] b \notin ToSet(u) /\ b \in ToSet(held[c]) -> pool.ref[b] - 1
                      [] OTHER -> pool.ref[b]
  BY <1>2, <1>4
<1> QED BY <1>1, <1>2, <1>4, <1>5, RefsFollow

(* _unpin_page *)
LEMMA UnpinIInv ==
    ASSUME IInv, NEW c \in Holder, NEW i \in DOMAIN held[c], Unpin(c, i)
    PROVE  IInv'
<1> DEFINE s == <<held[c][i]>>
           u == [held[c] EXCEPT ![i] = NullBlock]
           q == UnpinBlocks(pool, s)
<1>1. held[c][i] # NullBlock /\ pool' = q /\ held' = [held EXCEPT ![c] = u]
  BY DEF Unpin
<1>2. /\ s \in Seq(RealBlock) /\ Distinct(s)
      /\ \A b \in ToSet(s) \ {NullBlock} : pool.ref[b] > 0
      /\ u \in Seq(Block) /\ Distinct(u)
      /\ \A b \in RealBlock :
            Decrement(pool, s)[b] =
               CASE b \in ToSet(u) /\ b \notin ToSet(held[c]) -> pool.ref[b] + 1
                 [] b \notin ToSet(u) /\ b \in ToSet(held[c]) -> pool.ref[b] - 1
                 [] OTHER -> pool.ref[b]
  BY <1>1, NullifyFacts
<1> HIDE DEF s, u
<1>3. PoolGood(q) /\ q.ref = Decrement(pool, s)
  BY <1>2, UnpinBlocksProperties DEF IInv
<1> HIDE DEF q
<1>4. \A b \in RealBlock :
         q.ref[b] = CASE b \in ToSet(u) /\ b \notin ToSet(held[c]) -> pool.ref[b] + 1
                      [] b \notin ToSet(u) /\ b \in ToSet(held[c]) -> pool.ref[b] - 1
                      [] OTHER -> pool.ref[b]
  BY <1>2, <1>3
<1> QED BY <1>1, <1>2, <1>3, <1>4, RefsFollow

(* The block cow that a copy takes from the free queue, and the pair that is
   kept for the copy. *)
LEMMA CopyFacts ==
    ASSUME IInv, EnableCaching, NumFree(pool) >= 1,
           NEW c \in Holder, NEW i \in DOMAIN held[c], held[c][i] # NullBlock
    PROVE  LET src == held[c][i]
               cow == pool.free[1]
               q == GetNewBlocks(pool, 1)
               s == <<src, cow>>
           IN  /\ src \in RealBlock /\ cow \in RealBlock /\ src # cow
               /\ src \in ToSet(held[c]) /\ cow \notin ToSet(held[c])
               /\ pool.ref[cow] = 0
               /\ PoolGood(q)
               /\ \A b \in Block : q.ref[b] = IF b = cow THEN pool.ref[b] + 1 ELSE pool.ref[b]
               /\ q.key[cow] = NoKey /\ q.alias[cow] = {}
               /\ s \in Seq(Block) /\ Distinct(s) /\ ToSet(s) = {src, cow}
<1> DEFINE src == held[c][i]
           cow == pool.free[1]
           q == GetNewBlocks(pool, 1)
           s == <<src, cow>>
           n == NewBlocks(pool, 1)
<1>1. PoolGood(pool) /\ pool.free \in Seq(RealBlock) /\ 1 \in 0 .. NumFree(pool)
  <2>1. PoolGood(pool) /\ pool.free \in Seq(RealBlock)
    BY PoolFields DEF IInv, PoolGood
  <2>2. NumFree(pool) \in Nat
    BY <2>1 DEF NumFree
  <2> QED BY <2>1, <2>2
<1>2. /\ PoolGood(q)
      /\ \A b \in ToSet(n) : pool.ref[b] = 0
      /\ \A b \in Block : q.ref[b] = IF b \in ToSet(n) THEN pool.ref[b] + 1 ELSE pool.ref[b]
      /\ \A b \in ToSet(n) : q.key[b] = NoKey /\ q.alias[b] = {}
  BY <1>1, GetNewBlocksProperties
<1>3. ToSet(n) = {cow} /\ cow \in RealBlock
  <2>1. Len(pool.free) >= 1 /\ Len(pool.free) \in Nat
    BY <1>1 DEF NumFree
  <2>2. DOMAIN n = {1} /\ n[1] = cow
    BY <1>1, <2>1 DEF NewBlocks
  <2>3. cow \in RealBlock
    BY <1>1, <2>1
  <2> HIDE DEF n, cow
  <2> QED BY <2>2, <2>3 DEF ToSet
<1>4. /\ src \in RealBlock /\ src \in ToSet(held[c])
      /\ \A b \in ToSet(held[c]) \ {NullBlock} : pool.ref[b] > 0
  BY TableFacts DEF RealBlock, ToSet
<1>5. pool.ref[cow] = 0
  BY <1>2, <1>3
<1>6. cow \notin ToSet(held[c]) /\ src # cow
  <2> HIDE DEF cow, src
  <2> QED BY <1>3, <1>4, <1>5 DEF RealBlock
<1>7. src \in Block /\ cow \in Block
  BY <1>3, <1>4 DEF RealBlock
<1> HIDE DEF src, cow, q, n
<1>8. s \in Seq(Block) /\ Distinct(s) /\ ToSet(s) = {src, cow}
  <2>1. s \in Seq(Block) /\ DOMAIN s = {1, 2} /\ s[1] = src /\ s[2] = cow
    BY <1>7
  <2> HIDE DEF s
  <2> QED BY <1>6, <2>1 DEF Distinct, ToSet
<1> QED BY <1>2, <1>3, <1>4, <1>5, <1>6, <1>8 DEF src, cow, q, n

(* MambaManager.allocate_new_blocks: only the copy's pair changes. *)
LEMMA CopyCachedIInv ==
    ASSUME IInv, NEW c \in Holder, NEW d \in Holder, NEW i \in DOMAIN held[c],
           CopyCached(c, d, i)
    PROVE  IInv'
<1> DEFINE src == held[c][i]
           cow == pool.free[1]
           q == GetNewBlocks(pool, 1)
           m == MoveBlockHashes(q, src, cow)
           t == Touch(m, {src})
           s == <<src, cow>>
<1>1. /\ EnableCaching /\ held[d] = <<>> /\ src # NullBlock /\ NumFree(pool) >= 1
      /\ held' = [held EXCEPT ![d] = s] /\ pool' = t
  BY DEF CopyCached
<1>2. /\ src \in RealBlock /\ cow \in RealBlock /\ src # cow
      /\ pool.ref[cow] = 0
      /\ PoolGood(q)
      /\ \A b \in Block : q.ref[b] = IF b = cow THEN pool.ref[b] + 1 ELSE pool.ref[b]
      /\ q.key[cow] = NoKey /\ q.alias[cow] = {}
      /\ s \in Seq(Block) /\ Distinct(s) /\ ToSet(s) = {src, cow}
  BY <1>1, CopyFacts
<1> HIDE DEF src, cow, q, s
<1>3. PoolGood(m) /\ m.ref = q.ref
  <2>1. OnlyHashes(q, m)
    BY <1>2, MoveBlockHashesProperties DEF PoolGood
  <2> HIDE DEF m
  <2> QED BY <1>2, <2>1 DEF OnlyHashes, PoolGood, FreeMatchesRefs
<1> HIDE DEF m
<1>4. /\ PoolGood(t)
      /\ \A b \in Block : t.ref[b] = IF b \in {src} \ {NullBlock} THEN m.ref[b] + 1 ELSE m.ref[b]
  <2>1. {src} \in SUBSET Block
    BY <1>2 DEF RealBlock
  <2> QED BY <1>3, <2>1, TouchProperties
<1> HIDE DEF t
<1>5. ToSet(held[d]) = {}
  BY <1>1 DEF ToSet
<1>6. \A b \in RealBlock :
         t.ref[b] = CASE b \in ToSet(s) /\ b \notin ToSet(held[d]) -> pool.ref[b] + 1
                      [] b \notin ToSet(s) /\ b \in ToSet(held[d]) -> pool.ref[b] - 1
                      [] OTHER -> pool.ref[b]
  BY <1>2, <1>3, <1>4, <1>5 DEF RealBlock
<1> QED BY <1>1, <1>2, <1>4, <1>6, RefsFollow

(* The table in which entry i is cow instead of src. *)
LEMMA ReplaceFacts ==
    ASSUME NEW t \in Seq(Block), Distinct(t), NEW i \in DOMAIN t, t[i] # NullBlock,
           NEW cow \in RealBlock, cow \notin ToSet(t)
    PROVE  LET u == [t EXCEPT ![i] = cow]
           IN  /\ u \in Seq(Block) /\ Distinct(u)
               /\ \A b \in RealBlock :
                     b \in ToSet(u) <=> b = cow \/ (b \in ToSet(t) /\ b # t[i])
<1> DEFINE u == [t EXCEPT ![i] = cow]
<1>1. /\ u \in Seq(Block) /\ DOMAIN u = DOMAIN t
      /\ \A j \in DOMAIN t : u[j] = IF j = i THEN cow ELSE t[j]
  BY DEF RealBlock
<1> HIDE DEF u
<1>2. \A j \in DOMAIN t : t[j] # cow
  BY DEF ToSet
<1>3. Distinct(u)
  BY <1>1, <1>2 DEF Distinct
<1>4. ASSUME NEW b \in RealBlock, b \in ToSet(u)
      PROVE  b = cow \/ (b \in ToSet(t) /\ b # t[i])
  <2>1. PICK j \in DOMAIN t : b = u[j]
    BY <1>1, <1>4 DEF ToSet
  <2>2. CASE j = i
    BY <1>1, <2>1, <2>2
  <2>3. CASE j # i
    <3>1. b = t[j] /\ b # NullBlock
      BY <1>1, <2>1, <2>3 DEF RealBlock
    <3> QED BY <2>3, <3>1 DEF ToSet, Distinct
  <2> QED BY <2>2, <2>3
<1>5. ASSUME NEW b \in RealBlock, b = cow \/ (b \in ToSet(t) /\ b # t[i])
      PROVE  b \in ToSet(u)
  <2>1. CASE b = cow
    BY <1>1, <2>1 DEF ToSet
  <2>2. CASE b \in ToSet(t) /\ b # t[i]
    <3>1. PICK j \in DOMAIN t : b = t[j]
      BY <2>2 DEF ToSet
    <3> QED BY <1>1, <2>2, <3>1 DEF ToSet
  <2> QED BY <1>5, <2>1, <2>2
<1> QED BY <1>1, <1>3, <1>4, <1>5 DEF u

(* Two holders change: the copy gets the pair, and the table gets cow for src.
   The counts after the first change are g. *)
LEMMA CopyOnWriteIInv ==
    ASSUME IInv, NEW c \in Holder, NEW d \in Holder, c # d,
           NEW i \in DOMAIN held[c], CopyOnWrite(c, d, i)
    PROVE  IInv'
<1> DEFINE src == held[c][i]
           cow == pool.free[1]
           q == GetNewBlocks(pool, 1)
           t == Touch(q, {cow})
           s == <<src, cow>>
           u == [held[c] EXCEPT ![i] = cow]
           h == [held EXCEPT ![d] = s]
           g == [b \in Block |-> IF b \in {src, cow} THEN pool.ref[b] + 1 ELSE pool.ref[b]]
<1>0. /\ held \in [Holder -> Seq(Block)] /\ RefsGood(pool.ref, held)
      /\ held[c] \in Seq(Block) /\ Distinct(held[c])
  BY TableFacts, RefsGoodInv DEF IInv
<1>1. /\ EnableCaching /\ held[d] = <<>> /\ src # NullBlock /\ NumFree(pool) >= 1
      /\ held' = [held EXCEPT ![c][i] = cow, ![d] = s] /\ pool' = t
  BY DEF CopyOnWrite
<1>2. /\ src \in RealBlock /\ cow \in RealBlock /\ src # cow
      /\ src \in ToSet(held[c]) /\ cow \notin ToSet(held[c])
      /\ pool.ref[cow] = 0
      /\ PoolGood(q)
      /\ \A b \in Block : q.ref[b] = IF b = cow THEN pool.ref[b] + 1 ELSE pool.ref[b]
      /\ s \in Seq(Block) /\ Distinct(s) /\ ToSet(s) = {src, cow}
  BY <1>1, CopyFacts
<1>3. /\ u \in Seq(Block) /\ Distinct(u)
      /\ \A b \in RealBlock : b \in ToSet(u) <=> b = cow \/ (b \in ToSet(held[c]) /\ b # src)
  BY <1>0, <1>1, <1>2, ReplaceFacts
<1>4. h \in [Holder -> Seq(Block)] /\ h[c] = held[c]
  BY <1>0, <1>2
<1>5. held' = [h EXCEPT ![c] = u]
  BY <1>0, <1>1, <1>2
<1> HIDE DEF src, cow, q, s, u, h
<1>6. \A b \in RealBlock : b \in Block /\ pool.ref[b] \in Nat
  BY PoolFields DEF IInv, PoolGood, RealBlock
<1>7. RefsGood(g, h)
  <2>1. ToSet(held[d]) = {}
    BY <1>1 DEF ToSet
  <2>2. \A b \in RealBlock :
           g[b] = CASE b \in ToSet(s) /\ b \notin ToSet(held[d]) -> pool.ref[b] + 1
                    [] b \notin ToSet(s) /\ b \in ToSet(held[d]) -> pool.ref[b] - 1
                    [] OTHER -> pool.ref[b]
    BY <1>2, <1>6, <2>1
  <2> HIDE DEF g
  <2> QED BY <1>0, <1>2, <2>2, RefsChange DEF h
<1>8. /\ PoolGood(t)
      /\ \A b \in Block : t.ref[b] = IF b \in {cow} \ {NullBlock} THEN q.ref[b] + 1 ELSE q.ref[b]
  <2>1. {cow} \in SUBSET Block
    BY <1>2 DEF RealBlock
  <2> QED BY <1>2, <2>1, TouchProperties
<1> HIDE DEF t
<1>9. \A b \in RealBlock :
         t.ref[b] = CASE b \in ToSet(u) /\ b \notin ToSet(h[c]) -> g[b] + 1
                      [] b \notin ToSet(u) /\ b \in ToSet(h[c]) -> g[b] - 1
                      [] OTHER -> g[b]
  <2> SUFFICES ASSUME NEW b \in RealBlock
               PROVE  t.ref[b] = CASE b \in ToSet(u) /\ b \notin ToSet(h[c]) -> g[b] + 1
                                   [] b \notin ToSet(u) /\ b \in ToSet(h[c]) -> g[b] - 1
                                   [] OTHER -> g[b]
    OBVIOUS
  <2>0. t.ref[b] = (IF b = cow THEN q.ref[b] + 1 ELSE q.ref[b])
    BY <1>8 DEF RealBlock
  <2>1. CASE b = cow
    BY <1>2, <1>3, <1>4, <1>6, <2>0, <2>1
  <2>2. CASE b = src
    BY <1>2, <1>3, <1>4, <1>6, <2>0, <2>2
  <2>3. CASE b # cow /\ b # src
    BY <1>2, <1>3, <1>4, <1>6, <2>0, <2>3
  <2> QED BY <2>1, <2>2, <2>3
<1> HIDE DEF g
<1>10. RefsGood(t.ref, [h EXCEPT ![c] = u])
  BY <1>3, <1>4, <1>7, <1>9, RefsChange
<1>11. held' \in [Holder -> Seq(Block)]
  BY <1>3, <1>4, <1>5
<1>12. RefsGood(pool'.ref, held')
  BY <1>1, <1>5, <1>10
<1>13. RefCountsHolders'
  BY <1>12 DEF RefCountsHolders, RefsGood, HolderSet, Holds
<1> QED BY <1>1, <1>8, <1>11, <1>13 DEF IInv

(* _free_cow_retained_blocks *)
LEMMA FreeRetainedIInv ==
    ASSUME IInv, NEW d \in Holder, FreeRetained(d)
    PROVE  IInv'
<1> DEFINE s == held[d]
           q == FreeBlocks(pool, s)
<1>1. pool' = q /\ held' = [held EXCEPT ![d] = <<>>]
  BY DEF FreeRetained
<1>2. /\ s \in Seq(Block) /\ Distinct(s)
      /\ \A b \in ToSet(s) \ {NullBlock} : pool.ref[b] > 0
  BY TableFacts
<1>3. PoolGood(q) /\ q.ref = Decrement(pool, s)
  BY <1>2, FreeBlocksProperties DEF IInv
<1> HIDE DEF q
<1>4. <<>> \in Seq(Block) /\ Distinct(<<>>) /\ ToSet(<<>>) = {}
  BY DEF Distinct, ToSet
<1>5. \A b \in RealBlock :
         q.ref[b] = CASE b \in ToSet(<<>>) /\ b \notin ToSet(held[d]) -> pool.ref[b] + 1
                      [] b \notin ToSet(<<>>) /\ b \in ToSet(held[d]) -> pool.ref[b] - 1
                      [] OTHER -> pool.ref[b]
  BY <1>3, <1>4 DEF RealBlock, Decrement
<1> QED BY <1>1, <1>3, <1>4, <1>5, RefsFollow

(* One step per action. *)
LEMMA NextIInv ==
    IInv /\ [Next]_vars => IInv'
<1> SUFFICES ASSUME IInv, [Next]_vars PROVE IInv'
  OBVIOUS
<1>p. pool \in PoolType /\ HashesMatchMap(pool)
  BY DEF IInv, PoolGood
<1>1. ASSUME NEW c \in Client, ClientStep(c)
      PROVE  IInv'
  <2> c \in Holder
    BY DEF Holder
  <2>1. ASSUME NEW n \in 1 .. NumFree(pool), Allocate(c, n) PROVE IInv'
    BY <2>1, AllocateIInv
  <2>2. ASSUME NEW s \in HitSeqs, Hit(c, s) PROVE IInv'
    BY <2>2, HitIInv
  <2>3. CASE Free(c)
    BY <2>3, FreeIInv
  <2>4. ASSUME NEW bs \in SUBSET Holds(c), NEW f \in [bs -> Key], CacheFull(c, f)
        PROVE  IInv'
    <3>1. bs \in SUBSET RealBlock
      BY TableFacts DEF Holds, RealBlock
    <3>2. OnlyHashes(pool, CacheFullBlocks(pool, f))
      BY <1>p, <3>1, CacheFullBlocksProperties
    <3>3. pool' = CacheFullBlocks(pool, f) /\ UNCHANGED held
      BY <2>4 DEF CacheFull
    <3> QED BY <3>2, <3>3, HashStep DEF OnlyHashes
  <2>5. ASSUME NEW i \in DOMAIN held[c], RemoveSkipped(c, i) PROVE IInv'
    BY <2>5, RemoveSkippedIInv
  <2>6. ASSUME NEW i \in DOMAIN held[c], Unpin(c, i) PROVE IInv'
    BY <2>6, UnpinIInv
  <2>7. ASSUME NEW i \in DOMAIN held[c], NEW k \in Key, NEW replace \in BOOLEAN,
               CachePartial(c, i, k, replace)
        PROVE  IInv'
    <3>1. held[c][i] \in Block
      BY TableFacts DEF ToSet
    <3>2. OnlyHashes(pool, CachePartialBlock(pool, held[c][i], k, replace, KeyTokens))
      BY <1>p, <3>1, CachePartialBlockProperties
    <3>3. /\ pool' = CachePartialBlock(pool, held[c][i], k, replace, KeyTokens)
          /\ UNCHANGED held
      BY <2>7 DEF CachePartial
    <3> QED BY <3>2, <3>3, HashStep DEF OnlyHashes
  <2>8. ASSUME NEW i \in DOMAIN held[c], NEW d \in Copy, CopyOnWrite(c, d, i) PROVE IInv'
    <3>1. d \in Holder /\ c # d
      BY <1>1, ClientAssumption DEF Holder
    <3> QED BY <2>8, <3>1, CopyOnWriteIInv
  <2>9. ASSUME NEW i \in DOMAIN held[c], NEW d \in Copy, CopyCached(c, d, i) PROVE IInv'
    <3>1. d \in Holder
      BY DEF Holder
    <3> QED BY <2>9, <3>1, CopyCachedIInv
  <2> QED BY <1>1, <2>1, <2>2, <2>3, <2>4, <2>5, <2>6, <2>7, <2>8, <2>9 DEF ClientStep
<1>2. ASSUME NEW d \in Copy, FreeRetained(d)
      PROVE  IInv'
  <2>1. d \in Holder
    BY DEF Holder
  <2> QED BY <1>2, <2>1, FreeRetainedIInv
<1>3. ASSUME NEW bs \in SUBSET RealBlock, Evict(bs)
      PROVE  IInv'
  <2>1. bs \in SUBSET Block /\ TRUE \in BOOLEAN
    BY DEF RealBlock
  <2>2. OnlyHashes(pool, RemoveHashes(pool, bs, TRUE))
    BY <1>p, <2>1, RemoveHashesProperties DEF OnlyHashes
  <2>3. pool' = RemoveHashes(pool, bs, TRUE) /\ UNCHANGED held
    BY <1>3 DEF Evict, EvictBlocks
  <2> QED BY <2>2, <2>3, HashStep DEF OnlyHashes
<1>4. CASE Reset
  <2>1. pool' = ResetPrefixCache(pool) /\ UNCHANGED held
    BY <1>4 DEF Reset
  <2> QED BY <1>p, <2>1, ResetPrefixCacheProperties, HashStep
<1>5. CASE UNCHANGED vars
  <2>1. UNCHANGED pool /\ UNCHANGED held
    BY <1>5 DEF vars
  <2> QED BY <1>p, <2>1, HashStep
<1> QED BY <1>1, <1>2, <1>3, <1>4, <1>5 DEF Next

(* The state of the pool and the block tables stays well-typed, whatever the
   managers call in whatever order. *)
THEOREM TypeCorrect == Spec => []TypeOK
<1>1. IInv => TypeOK
  BY DEF IInv, PoolGood, TypeOK
<1> QED BY <1>1, InitIInv, NextIInv, PTL DEF Spec

(* A block is in the free queue exactly when its reference count is zero, and
   never twice. *)
THEOREM FreeQueueCorrect == Spec => []FreeIsUnreferenced
<1>1. IInv => FreeIsUnreferenced
  BY DEF IInv, PoolGood, FreeIsUnreferenced
<1> QED BY <1>1, InitIInv, NextIInv, PTL DEF Spec

(* Reference counts are the numbers of block tables: no block is handed out
   while a table has it, and none is lost. *)
THEOREM RefCountsCorrect == Spec => []RefCountsHolders
<1>1. IInv => RefCountsHolders
  BY DEF IInv
<1> QED BY <1>1, InitIInv, NextIInv, PTL DEF Spec

(* The prefix-cache map and the hashes on the blocks agree. *)
THEOREM CacheMapCorrect == Spec => []MapMatchesBlocks
<1>1. IInv => MapMatchesBlocks
  BY DEF IInv, PoolGood, MapMatchesBlocks
<1> QED BY <1>1, InitIInv, NextIInv, PTL DEF Spec
----------------------------------------------------------------------------
(* The blocks that m has under k. *)
Under(m, k) == {b \in Block : <<k, b>> \in m}

(* Under the key k there are as many blocks as entries. *)
LEMMA EntriesOfKey ==
    ASSUME NEW E \in SUBSET (Key \X Block), NEW k \in Key
    PROVE  /\ IsFiniteSet(Under(E, k)) /\ Cardinality(Under(E, k)) \in Nat
           /\ Cardinality({e \in E : e[1] = k}) = Cardinality(Under(E, k))
<1> DEFINE B == Under(E, k)
           T == {e \in E : e[1] = k}
           f == [b \in B |-> <<k, b>>]
<1>1. IsFiniteSet(B) /\ Cardinality(B) \in Nat
  BY BlockAssumption, FS_Subset, FS_CardinalityType DEF Under
<1>2. f \in Bijection(B, T)
  <2>1. f \in [B -> T]
    BY DEF Under
  <2>2. \A b, c \in B : f[b] = f[c] => b = c
    OBVIOUS
  <2>3. \A e \in T : \E b \in B : f[b] = e
    <3> SUFFICES ASSUME NEW e \in T PROVE \E b \in B : f[b] = e
      OBVIOUS
    <3>1. e = <<k, e[2]>> /\ e[2] \in Block
      OBVIOUS
    <3> QED BY <3>1 DEF Under
  <2> QED BY <2>1, <2>2, <2>3 DEF Bijection, Injection, IsInjective, Surjection
<1>3. ExistsBijection(B, T)
  BY <1>2 DEF ExistsBijection
<1> QED BY <1>1, <1>3, FS_Bijection

(* The subscriber counts the map that results when the removed entries were in
   it and the stored ones were not. *)
Counted(pub, m) == \A k \in Key : pub[k] = Cardinality(Under(m, k))

LEMMA EmitCounts ==
    ASSUME EnableEvents, NEW m \in SUBSET (Key \X Block), NEW pub \in [Key -> Int],
           Counted(pub, m),
           NEW stored \in SUBSET (Key \X Block), stored \cap m = {},
           NEW removed \in SUBSET m, stored = {} \/ removed = {}
    PROVE  Counted(Emit(pub, stored, removed), (m \ removed) \cup stored)
<1> SUFFICES ASSUME NEW k \in Key
             PROVE  Emit(pub, stored, removed)[k]
                      = Cardinality(Under((m \ removed) \cup stored, k))
  BY DEF Counted
<1> DEFINE M == Under(m, k)
           S == Under(stored, k)
           R == Under(removed, k)
           s == Cardinality({e \in stored : e[1] = k})
           r == Cardinality({e \in removed : e[1] = k})
<1>1. /\ IsFiniteSet(M) /\ IsFiniteSet(S) /\ IsFiniteSet(R)
      /\ Cardinality(M) \in Nat /\ Cardinality(S) \in Nat /\ Cardinality(R) \in Nat
      /\ s = Cardinality(S) /\ r = Cardinality(R)
  <2>1. removed \in SUBSET (Key \X Block)
    OBVIOUS
  <2> QED BY <2>1, EntriesOfKey
<1>2. Emit(pub, stored, removed)[k] = pub[k] + s - r
  BY DEF Emit
<1>3. pub[k] = Cardinality(M)
  BY DEF Counted
<1>4. M \cap S = {} /\ R \in SUBSET M
  BY DEF Under
<1>5. Under((m \ removed) \cup stored, k) = (M \ R) \cup S
  BY DEF Under
<1> HIDE DEF M, S, R, s, r
<1>6. CASE removed = {}
  <2>1. R = {}
    BY <1>6 DEF R, Under
  <2>2. Cardinality(R) = 0 /\ (M \ R) \cup S = M \cup S
    BY <2>1, FS_EmptySet
  <2>3. Cardinality(M \cup S) = Cardinality(M) + Cardinality(S) - Cardinality(M \cap S)
    BY <1>1, FS_Union
  <2>4. Cardinality(M \cap S) = 0
    BY <1>4, FS_EmptySet
  <2> QED BY <1>1, <1>2, <1>3, <1>5, <2>2, <2>3, <2>4
<1>7. CASE stored = {}
  <2>1. S = {}
    BY <1>7 DEF S, Under
  <2>2. Cardinality(S) = 0 /\ (M \ R) \cup S = M \ R
    BY <2>1, FS_EmptySet
  <2>3. Cardinality(M \ R) = Cardinality(M) - Cardinality(M \cap R)
    BY <1>1, FS_Difference
  <2>4. M \cap R = R
    BY <1>4
  <2>5. Cardinality(Under((m \ removed) \cup stored, k)) = Cardinality(M) - Cardinality(R)
    BY <1>5, <2>2, <2>3, <2>4
  <2>6. s = 0 /\ r = Cardinality(R)
    BY <1>1, <2>2
  <2> QED BY <1>1, <1>2, <1>3, <2>5, <2>6
<1> QED BY <1>6, <1>7

(* p is well formed, and its subscriber agrees with its map. *)
EventsGood(p) ==
    /\ p \in PoolType /\ HashesMatchMap(p)
    /\ EnableEvents => Counted(p.pub, p.map)

(* _remove_cached_block_hashes announces what it takes out. *)
LEMMA RemoveHashesEvents ==
    ASSUME NEW p, EventsGood(p), NEW bs \in SUBSET Block
    PROVE  EventsGood(RemoveHashes(p, bs, TRUE))
<1> DEFINE q == RemoveHashes(p, bs, TRUE)
           E == Entries(p, bs)
<1>1. q \in PoolType /\ HashesMatchMap(q)
  BY RemoveHashesProperties DEF EventsGood
<1>2. /\ p.map \in SUBSET (Key \X Block) /\ p.pub \in [Key -> Int]
      /\ q.map = p.map \ E /\ q.pub = Emit(p.pub, {}, E) /\ E \in SUBSET p.map
  BY PoolFields DEF EventsGood, RemoveHashes, PoolType, Entries
<1> HIDE DEF q, E
<1>3. ASSUME EnableEvents PROVE Counted(q.pub, q.map)
  <2>1. Counted(Emit(p.pub, {}, E), (p.map \ E) \cup {})
    BY <1>2, <1>3, EmitCounts DEF EventsGood
  <2>2. (p.map \ E) \cup {} = q.map
    BY <1>2
  <2> QED BY <1>2, <2>1, <2>2
<1> QED BY <1>1, <1>3 DEF EventsGood, q

(* _insert_block_hash announces what it adds, and adds nothing twice. *)
LEMMA InsertHashEvents ==
    ASSUME NEW p, EventsGood(p), NEW b \in RealBlock, NEW k \in Key
    PROVE  EventsGood(InsertHash(p, b, k, TRUE))
<1> DEFINE q == InsertHash(p, b, k, TRUE)
<1>1. q \in PoolType /\ HashesMatchMap(q)
  BY InsertHashProperties DEF EventsGood, OnlyHashes
<1>2. CASE p.key[b] = k \/ <<k, b>> \in p.map
  BY <1>2 DEF InsertHash
<1>3. CASE ~(p.key[b] = k \/ <<k, b>> \in p.map)
  <2> DEFINE A == {<<k, b>>}
  <2>1. /\ p.map \in SUBSET (Key \X Block) /\ p.pub \in [Key -> Int]
        /\ A \in SUBSET (Key \X Block) /\ A \cap p.map = {}
    <3>1. p.map \in SUBSET (Key \X Block) /\ p.pub \in [Key -> Int]
      BY PoolFields DEF EventsGood
    <3>2. b \in Block
      BY DEF RealBlock
    <3> QED BY <1>3, <3>1, <3>2
  <2>2. q.map = p.map \cup A /\ q.pub = Emit(p.pub, A, {})
    BY <1>3 DEF EventsGood, InsertHash, PoolType
  <2> HIDE DEF q, A
  <2>3. ASSUME EnableEvents PROVE Counted(q.pub, q.map)
    <3>1. Counted(Emit(p.pub, A, {}), (p.map \ {}) \cup A)
      BY <2>1, <2>3, EmitCounts DEF EventsGood
    <3>2. (p.map \ {}) \cup A = q.map
      BY <2>2
    <3> QED BY <2>2, <3>1, <3>2
  <2> QED BY <1>1, <2>3 DEF EventsGood, q
<1> QED BY <1>2, <1>3

(* cache_full_blocks replaces the hashes of its blocks. *)
LEMMA CacheFullBlocksEvents ==
    ASSUME NEW p, EventsGood(p), NEW bs \in SUBSET RealBlock, NEW f \in [bs -> Key]
    PROVE  EventsGood(CacheFullBlocks(p, f))
<1> DEFINE r == RemoveHashes(p, bs, TRUE)
           A == {<<f[b], b>> : b \in bs}
           q == CacheFullBlocks(p, f)
<1>0. bs \in SUBSET Block
  BY DEF RealBlock
<1>1. EventsGood(r) /\ \A b \in bs : r.key[b] = NoKey /\ r.alias[b] = {}
  BY <1>0, RemoveHashesEvents, RemoveHashesProperties DEF EventsGood
<1>2. q \in PoolType /\ HashesMatchMap(q)
  BY CacheFullBlocksProperties DEF EventsGood, OnlyHashes
<1> HIDE DEF r
<1>3. q.map = r.map \cup A /\ q.pub = Emit(r.pub, A, {})
  BY <1>1 DEF CacheFullBlocks, r, EventsGood, PoolType
<1>4. r.map \in SUBSET (Key \X Block) /\ r.pub \in [Key -> Int]
  BY <1>1, PoolFields DEF EventsGood
<1>5. A \in SUBSET (Key \X Block)
  BY <1>0
<1>6. A \cap r.map = {}
  <2> SUFFICES ASSUME NEW b \in bs PROVE <<f[b], b>> \notin r.map
    OBVIOUS
  <2>1. KeysOf(r, b) = {}
    BY <1>1 DEF KeysOf
  <2>2. b \in Block /\ f[b] \in Key
    BY <1>0
  <2> QED BY <1>1, <2>1, <2>2 DEF EventsGood, HashesMatchMap
<1> HIDE DEF A, q
<1>7. ASSUME EnableEvents PROVE Counted(q.pub, q.map)
  <2>1. Counted(Emit(r.pub, A, {}), (r.map \ {}) \cup A)
    BY <1>1, <1>4, <1>5, <1>6, <1>7, EmitCounts DEF EventsGood
  <2>2. (r.map \ {}) \cup A = q.map
    BY <1>3
  <2> QED BY <1>3, <2>1, <2>2
<1> QED BY <1>2, <1>7 DEF EventsGood, q

LEMMA CachePartialBlockEvents ==
    ASSUME NEW p, EventsGood(p), NEW b \in Block, NEW k \in Key, NEW replace \in BOOLEAN
    PROVE  EventsGood(CachePartialBlock(p, b, k, replace, KeyTokens))
<1>1. CASE b = NullBlock
  BY <1>1 DEF CachePartialBlock
<1>2. CASE b # NullBlock
  <2> DEFINE r == RemoveHashes(p, {b}, TRUE)
  <2>1. b \in RealBlock /\ {b} \in SUBSET Block
    BY <1>2 DEF RealBlock
  <2>2. EventsGood(r)
    BY <2>1, RemoveHashesEvents
  <2> HIDE DEF r
  <2>3. EventsGood(InsertHash(p, b, k, TRUE)) /\ EventsGood(InsertHash(r, b, k, TRUE))
    BY <2>1, <2>2, InsertHashEvents
  <2>4. \/ CachePartialBlock(p, b, k, replace, KeyTokens) = InsertHash(p, b, k, TRUE)
        \/ CachePartialBlock(p, b, k, replace, KeyTokens) = InsertHash(r, b, k, TRUE)
    BY <1>2 DEF CachePartialBlock, r
  <2> QED BY <2>3, <2>4
<1> QED BY <1>1, <1>2

(* move_block_hashes may be silent: under every key, the destination takes the
   place of the source. *)
LEMMA MoveBlockHashesEvents ==
    ASSUME NEW p, EventsGood(p), NEW src \in RealBlock, NEW dst \in RealBlock, src # dst,
           p.key[dst] = NoKey, p.alias[dst] = {}
    PROVE  EventsGood(MoveBlockHashes(p, src, dst))
<1> DEFINE q == MoveBlockHashes(p, src, dst)
           E == Entries(p, {src})
           moved == {<<e[1], dst>> : e \in E}
<1>0. src \in Block /\ dst \in Block
  BY DEF RealBlock
<1>1. q \in PoolType /\ HashesMatchMap(q)
  BY MoveBlockHashesProperties DEF EventsGood, OnlyHashes
<1>2. q.map = (p.map \ E) \cup moved /\ q.pub = p.pub /\ p.map \in SUBSET (Key \X Block)
  BY PoolFields DEF EventsGood, PoolType, MoveBlockHashes, RemoveHashes
<1>3. E = {e \in p.map : e[2] = src}
  <2> SUFFICES ASSUME NEW e \in p.map, e[2] = src PROVE e[1] \in KeysOf(p, e[2])
    BY DEF Entries
  <2>1. e = <<e[1], e[2]>> /\ e[1] \in Key /\ e[2] \in Block
    BY <1>2
  <2> QED BY <2>1 DEF EventsGood, HashesMatchMap
<1> HIDE DEF q, E
<1>4. ASSUME NEW k \in Key PROVE Cardinality(Under(q.map, k)) = Cardinality(Under(p.map, k))
  <2> DEFINE M == Under(p.map, k)
  <2>1. IsFiniteSet(M) /\ Cardinality(M) \in Nat
    BY <1>2, EntriesOfKey
  <2>2. dst \notin M
    <3>1. KeysOf(p, dst) = {}
      BY DEF KeysOf
    <3> QED BY <1>0, <3>1 DEF EventsGood, HashesMatchMap, Under
  <2>3. \A e \in E : e = <<e[1], src>>
    BY <1>2, <1>3
  <2>4. \A b \in Block : <<k, b>> \in moved <=> b = dst /\ <<k, src>> \in E
    BY <1>2, <1>3, <2>3
  <2>5. \A b \in Block : <<k, b>> \in E <=> b = src /\ b \in M
    BY <1>3 DEF Under
  <2>6. \A b \in Block : b \in Under(q.map, k) <=> (b \in M /\ b # src) \/ (b = dst /\ src \in M)
    BY <1>0, <1>2, <2>4, <2>5 DEF Under
  <2>7. Under(q.map, k) \subseteq Block /\ M \subseteq Block
    BY DEF Under
  <2> HIDE DEF M
  <2>8. CASE src \notin M
    <3>1. Under(q.map, k) = M
      BY <2>6, <2>7, <2>8
    <3> QED BY <3>1 DEF M
  <2>9. CASE src \in M
    <3> DEFINE L == M \ {src}
    <3>1. Under(q.map, k) = L \cup {dst}
      BY <1>0, <2>6, <2>7, <2>9
    <3>2. IsFiniteSet(L) /\ Cardinality(L) = Cardinality(M) - 1
      BY <2>1, <2>9, FS_RemoveElement
    <3>3. dst \notin L
      BY <2>2
    <3> HIDE DEF L
    <3>4. Cardinality(L \cup {dst}) = Cardinality(L) + 1
      BY <3>2, <3>3, FS_AddElement
    <3>5. Cardinality(Under(q.map, k)) = Cardinality(M)
      BY <2>1, <3>1, <3>2, <3>4
    <3> QED BY <3>5 DEF M
  <2> QED BY <2>8, <2>9
<1> QED BY <1>1, <1>2, <1>4 DEF EventsGood, Counted, q

(* An operation that leaves the map and the subscriber alone. *)
LEMMA EventsFrame ==
    ASSUME NEW p, EventsGood(p), NEW q, PoolGood(q), q.map = p.map, q.pub = p.pub
    PROVE  EventsGood(q)
BY DEF EventsGood, PoolGood

LEMMA TouchFields ==
    ASSUME NEW p \in PoolType, NEW bs
    PROVE  Touch(p, bs).map = p.map /\ Touch(p, bs).pub = p.pub /\ Touch(p, bs).watch = p.watch
BY DEF Touch, PoolType

LEMMA FreeBlocksFields ==
    ASSUME NEW p \in PoolType, NEW s
    PROVE  /\ FreeBlocks(p, s).map = p.map /\ FreeBlocks(p, s).pub = p.pub
           /\ FreeBlocks(p, s).watch = p.watch
BY DEF FreeBlocks, PoolType

LEMMA UnpinBlocksFields ==
    ASSUME NEW p \in PoolType, NEW s
    PROVE  /\ UnpinBlocks(p, s).map = p.map /\ UnpinBlocks(p, s).pub = p.pub
           /\ UnpinBlocks(p, s).watch = p.watch \cup ToSet(s)
BY DEF UnpinBlocks, PoolType

(* get_new_blocks: the watchers of the new blocks go, and so do their hashes. *)
LEMMA GetNewBlocksFields ==
    ASSUME NEW p \in PoolType, HashesMatchMap(p), NEW n
    PROVE  LET r == IF EnableCaching THEN RemoveHashes(p, ToSet(NewBlocks(p, n)), TRUE) ELSE p
               q == GetNewBlocks(p, n)
           IN  /\ q.map = r.map /\ q.pub = r.pub
               /\ q.watch = p.watch \ ToSet(NewBlocks(p, n))
               /\ q.free = SubSeq(p.free, n + 1, Len(p.free))
<1> DEFINE new == ToSet(NewBlocks(p, n))
           r == IF EnableCaching THEN RemoveHashes(p, new, TRUE) ELSE p
           q == GetNewBlocks(p, n)
<1>1. DOMAIN r = {"ref", "key", "alias", "map", "free", "watch", "pub"} /\ r.watch = p.watch
  <2>1. DOMAIN p = {"ref", "key", "alias", "map", "free", "watch", "pub"}
    BY DEF PoolType
  <2> HIDE DEF new
  <2> QED BY <2>1 DEF RemoveHashes
<1>2. q = [r EXCEPT !.free = SubSeq(p.free, n + 1, Len(p.free)), !.watch = @ \ new,
                    !.ref = [b \in Block |-> IF b \in new THEN @[b] + 1 ELSE @[b]]]
  BY DEF GetNewBlocks
<1> HIDE DEF r, q, new
<1>3. /\ q.map = r.map /\ q.pub = r.pub /\ q.watch = p.watch \ new
      /\ q.free = SubSeq(p.free, n + 1, Len(p.free))
  BY <1>1, <1>2
<1> QED BY <1>3 DEF r, q, new

LEMMA GetNewBlocksEvents ==
    ASSUME NEW p, PoolGood(p), EventsGood(p), NEW n \in 0 .. NumFree(p)
    PROVE  EventsGood(GetNewBlocks(p, n))
<1> DEFINE new == ToSet(NewBlocks(p, n))
           r == IF EnableCaching THEN RemoveHashes(p, new, TRUE) ELSE p
           q == GetNewBlocks(p, n)
<1>1. PoolGood(q) /\ NewBlocks(p, n) \in Seq(RealBlock)
  BY GetNewBlocksProperties
<1>2. new \in SUBSET Block
  <2>1. \A i \in DOMAIN NewBlocks(p, n) : NewBlocks(p, n)[i] \in Block
    BY <1>1 DEF RealBlock
  <2> QED BY <2>1 DEF ToSet
<1>3. q.map = r.map /\ q.pub = r.pub
  BY GetNewBlocksFields DEF EventsGood
<1>4. EventsGood(r)
  BY <1>2, RemoveHashesEvents
<1> HIDE DEF q, r
<1> QED BY <1>1, <1>3, <1>4, EventsFrame DEF q

(* AllBlocksCleared *)
LEMMA ResetEvents ==
    ASSUME NEW p, EventsGood(p)
    PROVE  EventsGood(ResetPrefixCache(p))
<1> DEFINE q == ResetPrefixCache(p)
<1>1. q \in PoolType /\ HashesMatchMap(q)
  BY ResetPrefixCacheProperties DEF EventsGood
<1>2. q.map = {} /\ (EnableEvents => q.pub = [k \in DOMAIN p.pub |-> 0]) /\ DOMAIN p.pub = Key
  BY DEF ResetPrefixCache, EventsGood, PoolType
<1> HIDE DEF q
<1>3. \A k \in Key : Under(q.map, k) = {}
  BY <1>2 DEF Under
<1> QED BY <1>1, <1>2, <1>3, FS_EmptySet DEF EventsGood, Counted, q

(* The subscriber's part of the invariant. *)
EventsInv == IInv /\ EventsGood(pool)

LEMMA CowFacts ==
    ASSUME IInv, NumFree(pool) >= 1
    PROVE  /\ 1 \in 0 .. NumFree(pool) /\ pool.free[1] \in RealBlock
           /\ ToSet(NewBlocks(pool, 1)) = {pool.free[1]}
<1> DEFINE n == NewBlocks(pool, 1)
<1>1. pool.free \in Seq(RealBlock)
  BY PoolFields DEF IInv, PoolGood
<1>2. Len(pool.free) \in Nat /\ Len(pool.free) >= 1
  BY <1>1 DEF NumFree
<1>3. DOMAIN n = {1} /\ n[1] = pool.free[1]
  BY <1>1, <1>2 DEF NewBlocks
<1> HIDE DEF n
<1>4. ToSet(n) = {pool.free[1]}
  BY <1>3 DEF ToSet
<1> QED BY <1>1, <1>2, <1>4 DEF NumFree, n

LEMMA NextEvents ==
    ASSUME EventsInv, [Next]_vars PROVE EventsInv'
<1>1. IInv'
  BY NextIInv DEF EventsInv
<1>2. PoolGood(pool) /\ PoolGood(pool') /\ EventsGood(pool) /\ pool \in PoolType
  BY <1>1 DEF EventsInv, IInv, PoolGood
<1> SUFFICES EventsGood(pool')
  BY <1>1 DEF EventsInv
<1>3. ASSUME NEW c \in Client, ClientStep(c) PROVE EventsGood(pool')
  <2>0. c \in Holder /\ IInv
    BY DEF Holder, EventsInv
  <2>1. ASSUME NEW n \in 1 .. NumFree(pool), Allocate(c, n) PROVE EventsGood(pool')
    <3>1. n \in 0 .. NumFree(pool)
      BY <1>2, PoolFields DEF NumFree
    <3> QED BY <1>2, <2>1, <3>1, GetNewBlocksEvents DEF Allocate
  <2>2. ASSUME NEW s \in HitSeqs, Hit(c, s) PROVE EventsGood(pool')
    <3>1. pool' = Touch(pool, ToSet(s))
      BY <2>2 DEF Hit
    <3>2. pool'.map = pool.map /\ pool'.pub = pool.pub
      BY <1>2, <3>1, TouchFields
    <3> QED BY <1>2, <3>2, EventsFrame
  <2>3. CASE Free(c)
    <3>1. pool' = FreeBlocks(pool, Reverse(held[c]))
      BY <2>3 DEF Free
    <3>2. pool'.map = pool.map /\ pool'.pub = pool.pub
      BY <1>2, <3>1, FreeBlocksFields
    <3> QED BY <1>2, <3>2, EventsFrame
  <2>4. ASSUME NEW bs \in SUBSET Holds(c), NEW f \in [bs -> Key], CacheFull(c, f)
        PROVE  EventsGood(pool')
    <3>1. bs \in SUBSET RealBlock
      BY <2>0, TableFacts DEF Holds, RealBlock
    <3> QED BY <1>2, <2>4, <3>1, CacheFullBlocksEvents DEF CacheFull
  <2>5. ASSUME NEW i \in DOMAIN held[c], RemoveSkipped(c, i) PROVE EventsGood(pool')
    <3>1. pool' = FreeBlocks(pool, <<held[c][i]>>)
      BY <2>5 DEF RemoveSkipped
    <3>2. pool'.map = pool.map /\ pool'.pub = pool.pub
      BY <1>2, <3>1, FreeBlocksFields
    <3> QED BY <1>2, <3>2, EventsFrame
  <2>6. ASSUME NEW i \in DOMAIN held[c], Unpin(c, i) PROVE EventsGood(pool')
    <3>1. pool' = UnpinBlocks(pool, <<held[c][i]>>)
      BY <2>6 DEF Unpin
    <3>2. pool'.map = pool.map /\ pool'.pub = pool.pub
      BY <1>2, <3>1, UnpinBlocksFields
    <3> QED BY <1>2, <3>2, EventsFrame
  <2>7. ASSUME NEW i \in DOMAIN held[c], NEW k \in Key, NEW replace \in BOOLEAN,
               CachePartial(c, i, k, replace)
        PROVE  EventsGood(pool')
    <3>1. held[c][i] \in Block
      BY <2>0, TableFacts DEF ToSet
    <3> QED BY <1>2, <2>7, <3>1, CachePartialBlockEvents DEF CachePartial
  <2>8. ASSUME NEW i \in DOMAIN held[c], NEW d \in Copy, CopyOnWrite(c, d, i)
        PROVE  EventsGood(pool')
    <3> DEFINE q == GetNewBlocks(pool, 1)
    <3>1. NumFree(pool) >= 1 /\ pool' = Touch(q, {pool.free[1]})
      BY <2>8 DEF CopyOnWrite
    <3>2. EventsGood(q)
      BY <1>2, <2>0, <3>1, CowFacts, GetNewBlocksEvents
    <3> HIDE DEF q
    <3>3. pool'.map = q.map /\ pool'.pub = q.pub
      BY <3>1, <3>2, TouchFields DEF EventsGood
    <3> QED BY <1>2, <3>2, <3>3, EventsFrame
  <2>9. ASSUME NEW i \in DOMAIN held[c], NEW d \in Copy, CopyCached(c, d, i)
        PROVE  EventsGood(pool')
    <3> DEFINE src == held[c][i]
               cow == pool.free[1]
               q == GetNewBlocks(pool, 1)
               m == MoveBlockHashes(q, src, cow)
    <3>1. /\ EnableCaching /\ src # NullBlock /\ NumFree(pool) >= 1 /\ held[d] = <<>>
          /\ pool' = Touch(m, {src})
      BY <2>9 DEF CopyCached
    <3>2. EventsGood(q)
      BY <1>2, <2>0, <3>1, CowFacts, GetNewBlocksEvents
    <3>3. src \in RealBlock /\ cow \in RealBlock /\ src # cow /\ q.key[cow] = NoKey /\ q.alias[cow] = {}
      <4>1. d \in Holder
        BY DEF Holder
      <4> QED BY <2>0, <3>1, <4>1, CopyFacts
    <3> HIDE DEF q, src, cow
    <3>4. EventsGood(m)
      BY <3>2, <3>3, MoveBlockHashesEvents
    <3> HIDE DEF m
    <3>5. pool'.map = m.map /\ pool'.pub = m.pub
      BY <3>1, <3>4, TouchFields DEF EventsGood
    <3> QED BY <1>2, <3>4, <3>5, EventsFrame
  <2> QED BY <1>3, <2>1, <2>2, <2>3, <2>4, <2>5, <2>6, <2>7, <2>8, <2>9 DEF ClientStep
<1>4. ASSUME NEW d \in Copy, FreeRetained(d) PROVE EventsGood(pool')
  <2>1. pool' = FreeBlocks(pool, held[d])
    BY <1>4 DEF FreeRetained
  <2>2. pool'.map = pool.map /\ pool'.pub = pool.pub
    BY <1>2, <2>1, FreeBlocksFields
  <2> QED BY <1>2, <2>2, EventsFrame
<1>5. ASSUME NEW bs \in SUBSET RealBlock, Evict(bs) PROVE EventsGood(pool')
  <2>1. bs \in SUBSET Block
    BY DEF RealBlock
  <2> QED BY <1>2, <1>5, <2>1, RemoveHashesEvents DEF Evict, EvictBlocks
<1>6. CASE Reset
  BY <1>2, <1>6, ResetEvents DEF Reset
<1>7. CASE UNCHANGED vars
  BY <1>2, <1>7 DEF vars
<1> QED BY <1>3, <1>4, <1>5, <1>6, <1>7 DEF Next

(* A subscriber to the cache events knows how many blocks the map has for a
   key, whatever the order of calls: also over a silent move_block_hashes and
   over eviction, reuse and reset. *)
THEOREM EventsCorrect == Spec => []SubscriberAgrees
<1>1. Init => EventsInv
  <2> SUFFICES ASSUME Init PROVE EventsGood(pool)
    BY InitIInv DEF EventsInv
  <2>1. pool \in PoolType /\ HashesMatchMap(pool)
    BY InitIInv DEF IInv, PoolGood
  <2>2. pool.map = {} /\ pool.pub = [k \in Key |-> 0]
    BY DEF Init, NewPool
  <2>3. \A k \in Key : Under(pool.map, k) = {}
    BY <2>2 DEF Under
  <2> QED BY <2>1, <2>2, <2>3, FS_EmptySet DEF EventsGood, Counted
<1>2. EventsInv => SubscriberAgrees
  BY DEF EventsInv, EventsGood, Counted, SubscriberAgrees, CachedBlocks, Under
<1> QED BY <1>1, <1>2, NextEvents, PTL DEF Spec
----------------------------------------------------------------------------
(* A block leaves the free queue when its first reference is counted. *)
LEMMA LeavesQueue ==
    ASSUME PoolGood(pool), PoolGood(pool'), NEW b \in RealBlock
    PROVE  /\ b \in ToSet(pool.free) \ ToSet(pool'.free) <=> pool.ref[b] = 0 /\ pool'.ref[b] # 0
           /\ b \in Block /\ pool.ref[b] \in Nat /\ pool'.ref[b] \in Nat
BY PoolFields DEF PoolGood, FreeMatchesRefs, RealBlock

LEMMA ResetClears ==
    ASSUME pool \in PoolType, Reset PROVE pool'.watch = {}
BY DEF Reset, ResetPrefixCache, PoolType

(* What WatchersFireOnReuse says of the block b. *)
Fires(b) ==
    b \notin pool'.watch <=>
        \/ /\ b \in ToSet(pool.free) \ ToSet(pool'.free)
           /\ ~\E c \in Client, s \in HitSeqs : Hit(c, s)
        \/ Reset

(* Steps that leave the watcher of b, and b in the queue if it is there. *)
LEMMA WatcherStays ==
    ASSUME PoolGood(pool), PoolGood(pool'), NEW b \in RealBlock, b \in pool'.watch,
           \/ pool.ref[b] = 0 => pool'.ref[b] = 0
           \/ \E c \in Client, s \in HitSeqs : Hit(c, s)
    PROVE  Fires(b)
<1>1. ~Reset
  BY ResetClears DEF PoolGood
<1> QED BY <1>1, LeavesQueue DEF Fires

(* A hit changes one table, from empty to a sequence of cached blocks. *)
LEMMA HitFacts ==
    ASSUME IInv, NEW e \in Client, NEW s \in HitSeqs, Hit(e, s)
    PROVE  /\ EnableCaching /\ held[e] = <<>> /\ held' = [held EXCEPT ![e] = s] /\ held'[e] = s
           /\ s # <<>> /\ pool'.map = pool.map /\ e \in Holder
           /\ \A i \in DOMAIN s : s[i] = NullBlock \/ \E k \in Key : s[i] \in CachedBlocks(pool, k)
<1>1. PICK n \in 1 .. MaxHit : s \in [1 .. n -> Block]
  BY DEF HitSeqs
<1>2. 1 \in DOMAIN s /\ s # <<>>
  BY <1>1, BoundAssumption
<1>3. pool'.map = pool.map
  BY TouchFields DEF Hit, IInv, PoolGood
<1>4. e \in Holder /\ held \in [Holder -> Seq(Block)]
  BY DEF Holder, IInv
<1> QED BY <1>2, <1>3, <1>4 DEF Hit

(* Of the blocks handed out, and of no others, the watchers go. *)
LEMMA WatchersOfNew ==
    ASSUME PoolGood(pool), PoolGood(pool'), NEW new \in SUBSET RealBlock,
           \A b \in new : pool.ref[b] = 0 /\ pool'.ref[b] # 0,
           \A b \in RealBlock \ new : pool.ref[b] = 0 => pool'.ref[b] = 0,
           pool'.watch = pool.watch \ new,
           ~\E c \in Client, s \in HitSeqs : Hit(c, s),
           NEW b \in RealBlock, b \in pool.watch
    PROVE  Fires(b)
<1>1. CASE b \in new
  BY <1>1, LeavesQueue DEF Fires
<1>2. CASE b \notin new
  BY <1>2, WatcherStays
<1> QED BY <1>1, <1>2

LEMMA AllocateFires ==
    ASSUME IInv, IInv', NEW c \in Client, NEW n \in 1 .. NumFree(pool), Allocate(c, n),
           NEW b \in RealBlock, b \in pool.watch
    PROVE  Fires(b)
<1> DEFINE s == NewBlocks(pool, n)
           new == ToSet(s)
<1>1. PoolGood(pool) /\ PoolGood(pool') /\ pool \in PoolType /\ HashesMatchMap(pool)
  BY DEF IInv, PoolGood
<1>2. n \in 0 .. NumFree(pool) /\ n \in Nat /\ n > 0 /\ n <= Len(pool.free)
  BY <1>1, PoolFields DEF NumFree
<1>3. pool' = GetNewBlocks(pool, n) /\ held' = [held EXCEPT ![c] = @ \o s]
  BY DEF Allocate
<1>4. /\ s \in Seq(RealBlock) /\ \A x \in new : pool.ref[x] = 0
      /\ \A x \in Block : pool'.ref[x] = IF x \in new THEN pool.ref[x] + 1 ELSE pool.ref[x]
  BY <1>1, <1>2, <1>3, GetNewBlocksProperties
<1>5. pool'.watch = pool.watch \ new
  BY <1>1, <1>3, GetNewBlocksFields
<1>6. Len(s) = n /\ 1 \in DOMAIN s /\ s[1] \in new
  <2>1. pool.free \in Seq(RealBlock) /\ n \in 0 .. Len(pool.free)
    BY <1>1, <1>2, PoolFields
  <2>2. Len(s) = n
    BY <2>1, SplitSet DEF NewBlocks
  <2> HIDE DEF s
  <2> QED BY <1>2, <1>4, <2>2 DEF ToSet
<1>7. ~\E e \in Client, u \in HitSeqs : Hit(e, u)
  <2> SUFFICES ASSUME NEW e \in Client, NEW u \in HitSeqs, Hit(e, u) PROVE FALSE
    OBVIOUS
  <2>1. /\ EnableCaching /\ held[e] = <<>> /\ held'[e] = u /\ u # <<>> /\ pool'.map = pool.map
        /\ e \in Holder
        /\ \A i \in DOMAIN u : u[i] = NullBlock \/ \E k \in Key : u[i] \in CachedBlocks(pool, k)
    BY HitFacts
  <2>2. c \in Holder /\ held \in [Holder -> Seq(Block)]
    BY DEF Holder, IInv
  <2>3. e = c
    BY <1>3, <2>1, <2>2
  <2>4. u = s
    <3> HIDE DEF s
    <3>1. held'[c] = held[c] \o s
      BY <1>3, <2>2
    <3>2. <<>> \o s = s
      BY <1>4
    <3> QED BY <2>1, <2>3, <3>1, <3>2
  <2>5. s[1] \in RealBlock /\ s[1] # NullBlock /\ s[1] \in Block
    BY <1>4, <1>6 DEF RealBlock
  <2>6. PICK k \in Key : s[1] \in CachedBlocks(pool, k)
    BY <1>6, <2>1, <2>4, <2>5
  <2>7. <<k, s[1]>> \in pool'.map
    BY <2>1, <2>6 DEF CachedBlocks
  <2>8. new \in SUBSET Block
    <3> HIDE DEF s
    <3>1. \A i \in DOMAIN s : s[i] \in Block
      BY <1>4 DEF RealBlock
    <3> QED BY <3>1 DEF ToSet
  <2>9. pool'.map = RemoveHashes(pool, new, TRUE).map
    BY <1>1, <1>3, <2>1, GetNewBlocksFields
  <2>10. pool'.map = {x \in pool.map : x[2] \notin new}
    <3> HIDE DEF new
    <3> QED BY <1>1, <2>8, <2>9, RemoveHashesProperties
  <2> QED BY <1>6, <2>7, <2>10
<1>8. new \in SUBSET RealBlock
  <2> HIDE DEF s
  <2>1. \A i \in DOMAIN s : s[i] \in RealBlock
    BY <1>4
  <2> QED BY <2>1 DEF ToSet
<1>9. \A x \in new : pool.ref[x] = 0 /\ pool'.ref[x] # 0
  <2> SUFFICES ASSUME NEW x \in new PROVE pool.ref[x] = 0 /\ pool'.ref[x] # 0
    OBVIOUS
  <2>1. x \in Block /\ pool.ref[x] = 0
    BY <1>4, <1>8 DEF RealBlock
  <2>2. pool'.ref[x] = 0 + 1
    BY <1>4, <2>1
  <2> QED BY <2>1, <2>2
<1>10. \A x \in RealBlock \ new : pool.ref[x] = 0 => pool'.ref[x] = 0
  BY <1>4 DEF RealBlock
<1> HIDE DEF new
<1> QED BY <1>1, <1>5, <1>7, <1>8, <1>9, <1>10, WatchersOfNew

(* The copies fill a table that is empty and is not a request's. *)
LEMMA CopyIsNoHit ==
    ASSUME IInv, NEW d \in Copy, held[d] = <<>>, held'[d] # <<>>
    PROVE  ~\E e \in Client, u \in HitSeqs : Hit(e, u)
<1> SUFFICES ASSUME NEW e \in Client, NEW u \in HitSeqs, Hit(e, u) PROVE FALSE
  OBVIOUS
<1>1. held' = [held EXCEPT ![e] = u] /\ e # d /\ d \in Holder /\ held \in [Holder -> Seq(Block)]
  BY ClientAssumption DEF Hit, Holder, IInv
<1> QED BY <1>1

LEMMA CopyFires ==
    ASSUME IInv, IInv', NEW c \in Client, NEW d \in Copy, NEW i \in DOMAIN held[c],
           CopyOnWrite(c, d, i) \/ CopyCached(c, d, i),
           NEW b \in RealBlock, b \in pool.watch
    PROVE  Fires(b)
<1> DEFINE src == held[c][i]
           cow == pool.free[1]
           q == GetNewBlocks(pool, 1)
           m == MoveBlockHashes(q, src, cow)
<1>1. PoolGood(pool) /\ PoolGood(pool') /\ pool \in PoolType /\ HashesMatchMap(pool)
  BY DEF IInv, PoolGood
<1>2. c \in Holder /\ d \in Holder /\ c # d /\ held \in [Holder -> Seq(Block)]
  BY ClientAssumption DEF Holder, IInv
<1>3. /\ EnableCaching /\ held[d] = <<>> /\ src # NullBlock /\ NumFree(pool) >= 1
      /\ held'[d] = <<src, cow>>
      /\ pool' = Touch(q, {cow}) \/ pool' = Touch(m, {src})
  BY <1>2 DEF CopyOnWrite, CopyCached
<1>4. held'[d] # <<>>
  BY <1>3
<1>5. ~\E e \in Client, u \in HitSeqs : Hit(e, u)
  BY <1>3, <1>4, CopyIsNoHit
<1>6. /\ src \in RealBlock /\ cow \in RealBlock /\ src # cow
      /\ pool.ref[cow] = 0 /\ PoolGood(q)
      /\ \A x \in Block : q.ref[x] = IF x = cow THEN pool.ref[x] + 1 ELSE pool.ref[x]
      /\ q.key[cow] = NoKey /\ q.alias[cow] = {}
  BY <1>2, <1>3, CopyFacts
<1>7. ToSet(NewBlocks(pool, 1)) = {cow}
  BY <1>3, CowFacts
<1>8. q.watch = pool.watch \ {cow}
  <2>1. q.watch = pool.watch \ ToSet(NewBlocks(pool, 1))
    BY <1>1, GetNewBlocksFields
  <2> HIDE DEF q, cow
  <2> QED BY <1>7, <2>1
<1>9. pool.ref[src] > 0
  BY <1>2, <1>3, TableFacts DEF ToSet
<1> HIDE DEF src, cow, q
<1>10. PoolGood(m) /\ m.ref = q.ref /\ m.watch = q.watch
  <2>1. OnlyHashes(q, m)
    BY <1>6, MoveBlockHashesProperties DEF PoolGood
  <2> HIDE DEF m
  <2> QED BY <1>6, <2>1 DEF OnlyHashes, PoolGood, FreeMatchesRefs
<1> HIDE DEF m
<1>11. {cow} \in SUBSET Block /\ {src} \in SUBSET Block
  BY <1>6 DEF RealBlock
<1>12. PICK x \in {src, cow} :
          /\ pool'.watch = pool.watch \ {cow}
          /\ \A y \in Block : pool'.ref[y] = IF y = x THEN q.ref[y] + 1 ELSE q.ref[y]
  <2>1. CASE pool' = Touch(q, {cow})
    <3>1. pool'.watch = q.watch
      BY <1>6, <2>1, TouchFields DEF PoolGood
    <3>2. \A y \in Block : pool'.ref[y] = IF y \in {cow} \ {NullBlock} THEN q.ref[y] + 1 ELSE q.ref[y]
      BY <1>6, <1>11, <2>1, TouchProperties
    <3>3. cow # NullBlock
      BY <1>6 DEF RealBlock
    <3> QED BY <1>8, <3>1, <3>2, <3>3
  <2>2. CASE pool' = Touch(m, {src})
    <3>1. pool'.watch = m.watch
      BY <1>10, <2>2, TouchFields DEF PoolGood
    <3>2. \A y \in Block : pool'.ref[y] = IF y \in {src} \ {NullBlock} THEN m.ref[y] + 1 ELSE m.ref[y]
      BY <1>10, <1>11, <2>2, TouchProperties
    <3>3. src # NullBlock
      BY <1>6 DEF RealBlock
    <3> QED BY <1>8, <1>10, <3>1, <3>2, <3>3
  <2> QED BY <1>3, <2>1, <2>2
<1>13. \A y \in RealBlock : y \in Block /\ pool.ref[y] \in Nat
  BY <1>1, PoolFields DEF RealBlock
<1>14. pool'.ref[cow] # 0
  <2>1. q.ref[cow] = 1 /\ cow \in Block
    BY <1>6, <1>13
  <2> QED BY <1>12, <2>1
<1>15. \A y \in RealBlock \ {cow} : pool.ref[y] = 0 => pool'.ref[y] = 0
  <2> SUFFICES ASSUME NEW y \in RealBlock, y # cow, pool.ref[y] = 0 PROVE pool'.ref[y] = 0
    OBVIOUS
  <2>1. y # src
    BY <1>9
  <2>2. y \in Block
    BY DEF RealBlock
  <2> QED BY <1>6, <1>12, <2>1, <2>2
<1>16. {cow} \in SUBSET RealBlock /\ pool'.watch = pool.watch \ {cow}
  BY <1>6, <1>12
<1>17. \A y \in {cow} : pool.ref[y] = 0 /\ pool'.ref[y] # 0
  BY <1>6, <1>14
<1> QED BY <1>1, <1>5, <1>15, <1>16, <1>17, WatchersOfNew

(* free_blocks and unpin_blocks leave an unreferenced block unreferenced. *)
LEMMA DecrementStays ==
    ASSUME PoolGood(pool), PoolGood(pool'), NEW s, pool'.ref = Decrement(pool, s),
           NEW b \in RealBlock, pool.ref[b] = 0
    PROVE  pool'.ref[b] = 0
<1>1. b \in Block /\ pool'.ref[b] \in Nat
  BY LeavesQueue
<1>2. pool'.ref[b] = 0 - 1 \/ pool'.ref[b] = 0
  BY <1>1 DEF Decrement
<1> QED BY <1>1, <1>2

(* One step per action. *)
LEMMA NextFires ==
    ASSUME IInv, IInv', [Next]_vars, NEW b \in RealBlock, b \in pool.watch
    PROVE  Fires(b)
<1>1. PoolGood(pool) /\ PoolGood(pool') /\ pool \in PoolType /\ HashesMatchMap(pool)
  BY DEF IInv, PoolGood
<1>2. ASSUME NEW c \in Client, ClientStep(c) PROVE Fires(b)
  <2>1. ASSUME NEW n \in 1 .. NumFree(pool), Allocate(c, n) PROVE Fires(b)
    BY <2>1, AllocateFires
  <2>2. ASSUME NEW s \in HitSeqs, Hit(c, s) PROVE Fires(b)
    <3>1. pool'.watch = pool.watch
      BY <1>1, <2>2, TouchFields DEF Hit
    <3> QED BY <1>1, <2>2, <3>1, WatcherStays
  <2>3. CASE Free(c)
    <3>1. pool' = FreeBlocks(pool, Reverse(held[c]))
      BY <2>3 DEF Free
    <3>2. pool'.watch = pool.watch /\ pool'.ref = Decrement(pool, Reverse(held[c]))
      BY <1>1, <3>1, FreeBlocksFields DEF FreeBlocks, PoolType
    <3> QED BY <1>1, <3>2, DecrementStays, WatcherStays
  <2>4. ASSUME NEW bs \in SUBSET Holds(c), NEW f \in [bs -> Key], CacheFull(c, f)
        PROVE  Fires(b)
    <3>1. bs \in SUBSET RealBlock
      BY TableFacts DEF Holds, RealBlock, Holder
    <3>2. OnlyHashes(pool, pool')
      BY <1>1, <2>4, <3>1, CacheFullBlocksProperties DEF CacheFull
    <3> QED BY <1>1, <3>2, WatcherStays DEF OnlyHashes
  <2>5. ASSUME NEW i \in DOMAIN held[c], RemoveSkipped(c, i) PROVE Fires(b)
    <3>1. pool' = FreeBlocks(pool, <<held[c][i]>>)
      BY <2>5 DEF RemoveSkipped
    <3>2. pool'.watch = pool.watch /\ pool'.ref = Decrement(pool, <<held[c][i]>>)
      BY <1>1, <3>1, FreeBlocksFields DEF FreeBlocks, PoolType
    <3> QED BY <1>1, <3>2, DecrementStays, WatcherStays
  <2>6. ASSUME NEW i \in DOMAIN held[c], Unpin(c, i) PROVE Fires(b)
    <3>1. pool' = UnpinBlocks(pool, <<held[c][i]>>)
      BY <2>6 DEF Unpin
    <3>2. b \in pool'.watch /\ pool'.ref = Decrement(pool, <<held[c][i]>>)
      BY <1>1, <3>1, UnpinBlocksFields DEF UnpinBlocks, PoolType
    <3> QED BY <1>1, <3>2, DecrementStays, WatcherStays
  <2>7. ASSUME NEW i \in DOMAIN held[c], NEW k \in Key, NEW replace \in BOOLEAN,
               CachePartial(c, i, k, replace)
        PROVE  Fires(b)
    <3>1. held[c][i] \in Block
      BY TableFacts DEF ToSet, Holder
    <3>2. OnlyHashes(pool, pool')
      BY <1>1, <2>7, <3>1, CachePartialBlockProperties DEF CachePartial
    <3> QED BY <1>1, <3>2, WatcherStays DEF OnlyHashes
  <2>8. ASSUME NEW i \in DOMAIN held[c], NEW d \in Copy, CopyOnWrite(c, d, i) \/ CopyCached(c, d, i)
        PROVE  Fires(b)
    BY <2>8, CopyFires
  <2> QED BY <1>2, <2>1, <2>2, <2>3, <2>4, <2>5, <2>6, <2>7, <2>8 DEF ClientStep
<1>3. ASSUME NEW d \in Copy, FreeRetained(d) PROVE Fires(b)
  <2>1. pool' = FreeBlocks(pool, held[d])
    BY <1>3 DEF FreeRetained
  <2>2. pool'.watch = pool.watch /\ pool'.ref = Decrement(pool, held[d])
    BY <1>1, <2>1, FreeBlocksFields DEF FreeBlocks, PoolType
  <2> QED BY <1>1, <2>2, DecrementStays, WatcherStays
<1>4. ASSUME NEW bs \in SUBSET RealBlock, Evict(bs) PROVE Fires(b)
  <2>1. bs \in SUBSET Block
    BY DEF RealBlock
  <2>2. OnlyHashes(pool, pool')
    BY <1>1, <1>4, <2>1, RemoveHashesProperties, ZenonT(40) DEF OnlyHashes, Evict, EvictBlocks
  <2> QED BY <1>1, <2>2, WatcherStays DEF OnlyHashes
<1>5. CASE Reset
  BY <1>1, <1>5, ResetClears DEF Fires
<1>6. CASE UNCHANGED vars
  BY <1>1, <1>6, WatcherStays DEF vars
<1> QED BY <1>2, <1>3, <1>4, <1>5, <1>6 DEF Next

(* The watcher of a block fires when the block is handed out again, or all at
   a reset, and at no other moment: no caller of the pool makes a block that
   unpin_blocks left readable change silently. *)
THEOREM WatchersCorrect == Spec => WatchersFireOnReuse
<1>1. IInv /\ IInv' /\ [Next]_vars =>
         [\A b \in RealBlock :
             b \in pool.watch =>
                (b \notin pool'.watch <=>
                    \/ /\ b \in ToSet(pool.free) \ ToSet(pool'.free)
                       /\ ~\E c \in Client, s \in HitSeqs : Hit(c, s)
                    \/ Reset)]_vars
  BY NextFires DEF Fires
<1> QED BY <1>1, InitIInv, NextIInv, PTL DEF Spec, WatchersFireOnReuse
============================================================================
