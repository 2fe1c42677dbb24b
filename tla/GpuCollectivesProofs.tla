------------------------- MODULE GpuCollectivesProofs -------------------------
(***************************************************************************)
(* Proofs about the two families of collective kernels, for any number of  *)
(* GPUs, blocks and cells and any sequence of kernels: first the kernels   *)
(* with barriers, then the Lamport kernels, and last their composition.    *)
(***************************************************************************)
EXTENDS MCGpuCollectives, FiniteSetTheorems, TLAPS

(* Flags can be told apart: three numbers are enough for a barrier that waits
   for the very number, also when it wraps; one that waits for at least the
   number (USE_ROCM) must not wrap. *)
FlagsDistinct ==
    \A u \in Builds :
        /\ u.mod >= 3
        /\ u.rocm => \A p \in Programs : 2 * Len(p) < u.mod

(* The number of the first j kernels that have a block b, and the number of the
   last barrier that the block has entered. *)
Uses(b, j) == Cardinality({i \in 1 .. j : b < prog[i].blocks})
Barrier(r, b) ==
    IF pc[r][b] \in {"start", "reduce"} THEN 2 * Uses(b, k[r]) - 1 ELSE 2 * Uses(b, k[r])

(* The flag x stands for the barrier n. *)
Stands(x, n) == x \in 0 .. FlagMod - 1 /\ \E d \in Nat : n = x + FlagMod * d

TypeInv ==
    /\ build \in Builds /\ prog \in Programs
    /\ k \in [Rank -> 0 .. Len(prog)]
    /\ pc \in [Rank -> [Block -> {"start", "reduce", "end", "gather", "done"}]]
    /\ reg \in [Rank -> [Block -> 0 .. FlagMod - 1]] /\ flag \in [Rank -> [Block -> 0 .. FlagMod - 1]]
    /\ sent \in [Rank -> [Block -> SUBSET Rank]] /\ seen \in [Rank -> [Block -> SUBSET Rank]]
    /\ counter \in [Rank -> [{"start", "end"} -> [Block -> [Rank -> Nat]]]]
    /\ tmp \in [Rank -> [Part -> Nat]]
    /\ input = k

(* Only blocks of the grid run, and only two-stage kernels gather. *)
GridInv(r, b) ==
    /\ pc[r][b] # "done" => k[r] > 0 /\ b < Now(r).blocks
    /\ pc[r][b] = "gather" => Now(r).stages = 2
    /\ seen[r][b] \subseteq sent[r][b]

(* What the flags of a block stand for. *)
FlagInv(r, b) ==
    /\ Stands(reg[r][b], Barrier(r, b))
    /\ pc[r][b] = "start" => Stands(flag[r][b], Barrier(r, b) - 1)
    /\ pc[r][b] = "end" => Stands(flag[r][b], Barrier(r, b) - 1) \/ flag[r][b] = reg[r][b]
    /\ pc[r][b] \notin {"start", "end"} => Stands(flag[r][b], Barrier(r, b))

(* What block b of r has written into the counters of q. *)
CounterInv(r, b, q) ==
    LET n == Uses(b, k[r])
    IN  /\ pc[r][b] # "start" \/ q \in sent[r][b] =>
              Stands(counter[q]["start"][b][r], IF n = 0 THEN 0 ELSE 2 * n - 1)
        /\ pc[r][b] \in {"start", "reduce"} => Stands(counter[q]["end"][b][r], 2 * n - 2)
        /\ pc[r][b] \in {"gather", "done"} \/ (pc[r][b] = "end" /\ q \in sent[r][b]) =>
              Stands(counter[q]["end"][b][r], 2 * n)

(* No block is more than one barrier ahead of the same block elsewhere, and it
   is not ahead when it has seen the other one's flag. *)
LeadInv(r, b, q) ==
    /\ Barrier(q, b) >= Barrier(r, b) - 1
    /\ pc[r][b] \notin {"start", "end"} \/ q \in seen[r][b] => Barrier(q, b) >= Barrier(r, b)

(* A part of the temporary buffer is complete from the end barrier of a
   two-stage kernel until the block that has the part in the next kernel leaves
   its start barrier. *)
TmpInv(r, p) ==
    k[r] > 0 =>
        LET b == p % Now(r).blocks
        IN  /\ Now(r).stages = 2 /\ pc[r][b] \in {"end", "gather", "done"} => tmp[r][p] = k[r]
            /\ pc[r][b] = "start" /\ k[r] > 1 /\ prog[k[r] - 1].stages = 2 => tmp[r][p] = k[r] - 1

BarrierInv ==
    /\ TypeInv
    /\ \A r \in Rank, b \in Block : GridInv(r, b) /\ FlagInv(r, b)
    /\ \A r, q \in Rank, b \in Block : CounterInv(r, b, q) /\ LeadInv(r, b, q)
    /\ \A r \in Rank, p \in Part : TmpInv(r, p)
----------------------------------------------------------------------------
(* Counting the kernels that have a block. *)

LEMMA ProgramFacts ==
    ASSUME TypeInv
    PROVE  /\ N \in Nat /\ N >= 2 /\ Blocks \in Nat /\ Blocks >= 1
           /\ prog \in Seq(Kernel) /\ Len(prog) \in Nat
           /\ \A i \in 1 .. Len(prog) : /\ prog[i].blocks \in 1 .. Blocks
                                        /\ prog[i].stages \in {1, 2}
           /\ FlagMod \in Nat /\ FlagMod >= 1
           /\ Rank \subseteq Nat /\ Block \subseteq Nat /\ 0 \in Block /\ 0 \in Rank
<1>1. prog \in Seq(Kernel) /\ build \in [rocm : BOOLEAN, mod : Nat \ {0}]
  BY AllreduceAssumption DEF TypeInv
<1>2. \A i \in 1 .. Len(prog) : prog[i] \in Kernel
  BY <1>1
<1> QED BY <1>1, <1>2, AllreduceAssumption DEF Kernel, FlagMod, Rank, Block

LEMMA UsesFacts ==
    ASSUME TypeInv, NEW b \in Block, NEW j \in 0 .. Len(prog)
    PROVE  /\ IsFiniteSet({i \in 1 .. j : b < prog[i].blocks})
           /\ Uses(b, j) \in Nat /\ Uses(b, j) <= j
           /\ j = 0 => Uses(b, j) = 0
<1> DEFINE S == {i \in 1 .. j : b < prog[i].blocks}
<1>1. j \in Nat
  BY ProgramFacts
<1>2. IsFiniteSet(1 .. j) /\ Cardinality(1 .. j) = j
  BY <1>1, FS_Interval
<1>3. IsFiniteSet(S) /\ Cardinality(S) <= Cardinality(1 .. j)
  BY <1>2, FS_Subset
<1>4. Cardinality(S) \in Nat
  BY <1>3, FS_CardinalityType
<1>5. Uses(b, j) = Cardinality(S)
  BY DEF Uses
<1> HIDE DEF S
<1>6. Uses(b, j) \in Nat /\ Uses(b, j) <= j
  BY <1>1, <1>2, <1>3, <1>4, <1>5
<1> QED BY <1>1, <1>3, <1>6 DEF S

LEMMA UsesStep ==
    ASSUME TypeInv, NEW b \in Block, NEW j \in 1 .. Len(prog)
    PROVE  Uses(b, j) = Uses(b, j - 1) + (IF b < prog[j].blocks THEN 1 ELSE 0)
<1> DEFINE S == {i \in 1 .. j - 1 : b < prog[i].blocks}
           T == {i \in 1 .. j : b < prog[i].blocks}
<1>1. j \in Nat /\ j - 1 \in 0 .. Len(prog)
  BY ProgramFacts
<1>2. IsFiniteSet(S) /\ Uses(b, j - 1) = Cardinality(S) /\ Uses(b, j) = Cardinality(T)
      /\ Cardinality(S) \in Nat
  BY <1>1, UsesFacts DEF Uses
<1>3. \A i \in Int : i \in 1 .. j <=> i \in 1 .. j - 1 \/ i = j
  BY <1>1
<1>4. CASE b < prog[j].blocks
  <2>1. T = S \cup {j} /\ j \notin S
    BY <1>1, <1>3, <1>4
  <2> HIDE DEF S, T
  <2> QED BY <1>2, <1>4, <2>1, FS_AddElement
<1>5. CASE ~(b < prog[j].blocks)
  <2>1. T = S
    BY <1>1, <1>3, <1>5
  <2> HIDE DEF S, T
  <2> QED BY <1>2, <1>5, <2>1
<1> QED BY <1>4, <1>5

LEMMA UsesMonotone ==
    ASSUME TypeInv, NEW b \in Block, NEW i \in 0 .. Len(prog), NEW j \in 0 .. Len(prog), i <= j
    PROVE  Uses(b, i) <= Uses(b, j)
<1> DEFINE S == {x \in 1 .. i : b < prog[x].blocks}
           T == {x \in 1 .. j : b < prog[x].blocks}
<1>1. i \in Nat /\ j \in Nat
  BY ProgramFacts
<1>2. S \in SUBSET T
  BY <1>1
<1>3. IsFiniteSet(T)
  BY UsesFacts
<1>4. Cardinality(S) <= Cardinality(T)
  BY <1>2, <1>3, FS_Subset
<1> QED BY <1>4 DEF Uses

(* Every kernel has a block 0. *)
LEMMA UsesZero ==
    ASSUME TypeInv, NEW j \in 0 .. Len(prog)
    PROVE  Uses(0, j) = j
<1>1. j \in Nat
  BY ProgramFacts
<1>2. {i \in 1 .. j : 0 < prog[i].blocks} = 1 .. j
  <2>1. ASSUME NEW i \in 1 .. j PROVE 0 < prog[i].blocks
    <3>1. i \in 1 .. Len(prog)
      BY <1>1, ProgramFacts
    <3> QED BY <3>1, ProgramFacts
  <2> QED BY <2>1
<1>3. Cardinality(1 .. j) = j
  BY <1>1, FS_Interval
<1> QED BY <1>2, <1>3 DEF Uses
----------------------------------------------------------------------------
(* Flags that wrap. *)

LEMMA StandsNext ==
    ASSUME FlagMod \in Nat, FlagMod >= 1, NEW n \in Int, NEW x, Stands(x, n)
    PROVE  Stands(IncFlag(x), n + 1)
<1> DEFINE f == FlagMod
<1>1. f \in Nat /\ f >= 1 /\ x \in 0 .. f - 1 /\ IncFlag(x) = (x + 1) % f
  BY DEF Stands, IncFlag
<1>2. PICK d \in Nat : n = x + f * d
  BY DEF Stands
<1>s. \A y : Stands(y, n + 1) <=> y \in 0 .. f - 1 /\ \E e \in Nat : n + 1 = y + f * e
  BY DEF Stands
<1> HIDE DEF f
<1>3. CASE x + 1 < f
  <2>1. (x + 1) % f = x + 1
    BY <1>1, <1>3
  <2>2. n + 1 = (x + 1) + f * d
    BY <1>1, <1>2
  <2>3. IncFlag(x) = x + 1 /\ x + 1 \in 0 .. f - 1
    BY <1>1, <1>3, <2>1
  <2> QED BY <1>s, <2>2, <2>3
<1>4. CASE x + 1 = f
  <2>1. f % f = 0
    BY <1>1
  <2>2. n + 1 = 0 + f * (d + 1)
    BY <1>1, <1>2, <1>4
  <2>3. IncFlag(x) = 0 /\ 0 \in 0 .. f - 1 /\ d + 1 \in Nat
    BY <1>1, <1>4, <2>1
  <2> QED BY <1>s, <2>2, <2>3
<1> QED BY <1>1, <1>3, <1>4

LEMMA StandsApart ==
    ASSUME FlagMod \in Nat, NEW m \in Int, NEW n \in Int, NEW x, Stands(x, m), Stands(x, n), m < n
    PROVE  n - m >= FlagMod
<1> DEFINE f == FlagMod
<1>1. f \in Nat /\ x \in 0 .. f - 1 /\ x \in Int
  BY DEF Stands
<1>2. PICK d \in Nat : m = x + f * d
  BY DEF Stands
<1>3. PICK e \in Nat : n = x + f * e
  BY DEF Stands
<1> HIDE DEF f
<1>4. e > d
  <2> SUFFICES ASSUME e <= d PROVE FALSE
    OBVIOUS
  <2>1. f * e <= f * d
    BY <1>1
  <2>2. f * e \in Int /\ f * d \in Int
    BY <1>1
  <2> QED BY <1>1, <1>2, <1>3, <2>1, <2>2
<1>5. n - m = f * (e - d)
  BY <1>1, <1>2, <1>3
<1>6. f * (e - d) >= f
  BY <1>1, <1>4
<1> QED BY <1>1, <1>5, <1>6 DEF f

LEMMA StandsExactly ==
    ASSUME FlagMod \in Nat, NEW n \in Nat, NEW x, Stands(x, n), n < FlagMod
    PROVE  x = n
<1> DEFINE f == FlagMod
<1>1. f \in Nat /\ x \in 0 .. f - 1 /\ n < f
  BY DEF Stands
<1>2. PICK d \in Nat : n = x + f * d
  BY DEF Stands
<1> HIDE DEF f
<1>3. d = 0
  <2> SUFFICES ASSUME d >= 1 PROVE FALSE
    BY <1>2
  <2>1. f * d >= f /\ f * d \in Int
    BY <1>1
  <2> QED BY <1>1, <1>2, <2>1
<1>4. f * d = 0
  BY <1>1, <1>3
<1> QED BY <1>1, <1>2, <1>4

(* A thread is not misled by the number of an earlier barrier. *)
LEMMA ArrivedIsRight ==
    ASSUME TypeInv, FlagsDistinct, NEW c, NEW f, NEW m \in Nat, NEW n \in Nat,
           Stands(c, m), Stands(f, n), m < n, n <= m + 2, n <= 2 * Len(prog), Arrived(c, f)
    PROVE  FALSE
<1>1. FlagMod \in Nat /\ FlagMod >= 3 /\ (Rocm => 2 * Len(prog) < FlagMod) /\ Len(prog) \in Nat
  BY ProgramFacts DEF FlagsDistinct, TypeInv, FlagMod, Rocm
<1>2. CASE Rocm
  <2>1. n < FlagMod /\ m < FlagMod
    BY <1>1, <1>2
  <2>2. c = m /\ f = n
    BY <1>1, <2>1, StandsExactly
  <2> QED BY <1>2, <2>2 DEF Arrived
<1>3. CASE ~Rocm
  <2>1. c = f
    BY <1>3 DEF Arrived
  <2>2. n - m >= FlagMod
    BY <1>1, <2>1, StandsApart
  <2> QED BY <1>1, <2>2
<1> QED BY <1>2, <1>3
----------------------------------------------------------------------------
(* The steps. *)

LEMMA BarrierType ==
    ASSUME TypeInv, NEW r \in Rank, NEW b \in Block
    PROVE  /\ Uses(b, k[r]) \in Nat /\ Barrier(r, b) \in Int /\ k[r] \in 0 .. Len(prog)
           /\ Uses(b, k[r]) <= k[r] /\ k[r] \in Nat
<1>1. k[r] \in 0 .. Len(prog) /\ k[r] \in Nat
  BY ProgramFacts DEF TypeInv
<1>2. Uses(b, k[r]) \in Nat /\ Uses(b, k[r]) <= k[r]
  BY <1>1, UsesFacts
<1> QED BY <1>1, <1>2 DEF Barrier

(* A block that runs is in the grid, so this kernel counts for it. *)
LEMMA RunningUses ==
    ASSUME TypeInv, NEW r \in Rank, NEW b \in Block, GridInv(r, b), pc[r][b] # "done"
    PROVE  Uses(b, k[r]) = Uses(b, k[r] - 1) + 1 /\ Uses(b, k[r]) >= 1 /\ k[r] - 1 \in 0 .. Len(prog)
<1>1. k[r] \in 1 .. Len(prog) /\ b < prog[k[r]].blocks
  BY ProgramFacts DEF TypeInv, GridInv, Now
<1>2. k[r] - 1 \in 0 .. Len(prog)
  BY <1>1, ProgramFacts
<1>3. Uses(b, k[r] - 1) \in Nat
  BY <1>2, UsesFacts
<1> QED BY <1>1, <1>2, <1>3, UsesStep

(* What no step of block b on GPU r changes. *)
OnlyBlock(r, b) ==
    /\ UNCHANGED <<program, k, input>>
    /\ \A s \in Rank, c \in Block : s # r \/ c # b =>
          /\ pc'[s][c] = pc[s][c] /\ reg'[s][c] = reg[s][c] /\ flag'[s][c] = flag[s][c]
          /\ sent'[s][c] = sent[s][c] /\ seen'[s][c] = seen[s][c]
          /\ \A q \in Rank : /\ counter'[q]["start"][c][s] = counter[q]["start"][c][s]
                             /\ counter'[q]["end"][c][s] = counter[q]["end"][c][s]

LEMMA BlockFrame ==
    ASSUME BarrierInv, NEW r \in Rank, NEW b \in Block, OnlyBlock(r, b), TypeInv',
           Barrier(r, b)' >= Barrier(r, b), GridInv(r, b)', FlagInv(r, b)',
           \A q \in Rank : CounterInv(r, b, q)',
           \A q \in Rank : q # r => LeadInv(r, b, q)',
           \A s \in Rank, p \in Part : TmpInv(s, p)'
    PROVE  BarrierInv'
<1>0. prog' = prog /\ build' = build /\ k' = k /\ TypeInv
  BY DEF OnlyBlock, program, BarrierInv
<1>u. \A c, j : Uses(c, j)' = Uses(c, j)
  BY <1>0 DEF Uses
<1>s. \A x, n : Stands(x, n)' <=> Stands(x, n)
  BY <1>0 DEF Stands, FlagMod
<1>1. ASSUME NEW s \in Rank, NEW c \in Block, s # r \/ c # b
      PROVE  /\ Barrier(s, c)' = Barrier(s, c) /\ GridInv(s, c)' /\ FlagInv(s, c)'
             /\ \A q \in Rank : CounterInv(s, c, q)'
  <2>1. /\ pc'[s][c] = pc[s][c] /\ reg'[s][c] = reg[s][c] /\ flag'[s][c] = flag[s][c]
        /\ sent'[s][c] = sent[s][c] /\ seen'[s][c] = seen[s][c]
        /\ \A q \in Rank : /\ counter'[q]["start"][c][s] = counter[q]["start"][c][s]
                           /\ counter'[q]["end"][c][s] = counter[q]["end"][c][s]
    BY <1>1 DEF OnlyBlock
  <2>2. Uses(c, k[s])' = Uses(c, k[s])
    BY <1>0 DEF Uses
  <2>3. Barrier(s, c)' = Barrier(s, c)
    BY <2>1, <2>2 DEF Barrier
  <2>4. GridInv(s, c)'
    BY <1>0, <2>1 DEF BarrierInv, GridInv, Now
  <2>5. FlagInv(s, c)'
    <3>1. FlagInv(s, c)
      BY DEF BarrierInv
    <3> QED BY <1>s, <2>1, <2>3, <3>1 DEF FlagInv
  <2>6. ASSUME NEW q \in Rank PROVE CounterInv(s, c, q)'
    <3>1. CounterInv(s, c, q)
      BY DEF BarrierInv
    <3> QED BY <1>s, <2>1, <2>2, <3>1 DEF CounterInv
  <2> QED BY <2>3, <2>4, <2>5, <2>6
<1>2. \A s \in Rank, c \in Block : Barrier(s, c)' >= Barrier(s, c) /\ Barrier(s, c) \in Int /\ Barrier(s, c)' \in Int
  <2> SUFFICES ASSUME NEW s \in Rank, NEW c \in Block
               PROVE  Barrier(s, c)' >= Barrier(s, c) /\ Barrier(s, c) \in Int /\ Barrier(s, c)' \in Int
    OBVIOUS
  <2>1. Barrier(s, c) \in Int
    BY <1>0, BarrierType
  <2>2. Uses(c, k[s])' = Uses(c, k[s]) /\ Uses(c, k[s]) \in Nat
    BY <1>0, BarrierType DEF Uses
  <2>3. Barrier(s, c)' \in Int
    BY <2>2 DEF Barrier
  <2>4. CASE s = r /\ c = b
    BY <2>1, <2>3, <2>4
  <2>5. CASE s # r \/ c # b
    BY <1>1, <2>1, <2>3, <2>5
  <2> QED BY <2>4, <2>5
<1>3. ASSUME NEW s \in Rank, NEW c \in Block, NEW q \in Rank PROVE LeadInv(s, c, q)'
  <2>1. CASE s = q
    BY <1>2, <2>1 DEF LeadInv
  <2>2. CASE s = r /\ c = b /\ s # q
    BY <2>2
  <2>3. CASE s # r \/ c # b
    <3>1. Barrier(s, c)' = Barrier(s, c) /\ Barrier(q, c)' >= Barrier(q, c)
          /\ Barrier(s, c) \in Int /\ Barrier(q, c) \in Int /\ Barrier(q, c)' \in Int
      BY <1>1, <1>2, <2>3
    <3>2. pc'[s][c] = pc[s][c] /\ seen'[s][c] = seen[s][c]
      BY <2>3 DEF OnlyBlock
    <3>3. LeadInv(s, c, q)
      BY DEF BarrierInv
    <3> QED BY <3>1, <3>2, <3>3 DEF LeadInv
  <2> QED BY <2>1, <2>2, <2>3
<1>4. \A s \in Rank, c \in Block : GridInv(s, c)' /\ FlagInv(s, c)' /\ \A q \in Rank : CounterInv(s, c, q)'
  BY <1>1
<1> QED BY <1>3, <1>4 DEF BarrierInv

(* While no block changes its place and no buffer is written. *)
LEMMA TmpFrame ==
    ASSUME BarrierInv, UNCHANGED <<program, k, pc, tmp>>
    PROVE  \A s \in Rank, p \in Part : TmpInv(s, p)'
<1> SUFFICES ASSUME NEW s \in Rank, NEW p \in Part PROVE TmpInv(s, p)'
  OBVIOUS
<1>1. TmpInv(s, p)
  BY DEF BarrierInv
<1> QED BY <1>1 DEF TmpInv, Now, program

(* Other block's parts. *)
LEMMA TmpOther ==
    ASSUME BarrierInv, NEW r \in Rank, NEW b \in Block, OnlyBlock(r, b), tmp' \in [Rank -> [Part -> Nat]],
           \A s \in Rank, p \in Part : s # r \/ p \notin PartsOf(r, b) => tmp'[s][p] = tmp[s][p],
           \A p \in PartsOf(r, b) : TmpInv(r, p)'
    PROVE  \A s \in Rank, p \in Part : TmpInv(s, p)'
<1> SUFFICES ASSUME NEW s \in Rank, NEW p \in Part PROVE TmpInv(s, p)'
  OBVIOUS
<1>0. prog' = prog /\ k' = k /\ TypeInv
  BY DEF OnlyBlock, program, BarrierInv
<1>1. CASE s = r /\ p \in PartsOf(r, b)
  BY <1>1, SMTT(30)
<1>2. CASE s # r \/ p \notin PartsOf(r, b)
  <2> SUFFICES ASSUME k[s] > 0 PROVE TmpInv(s, p)'
    BY <1>0 DEF TmpInv
  <2> DEFINE c == p % Now(s).blocks
  <2>1. c \in Block
    <3>1. k[s] \in 1 .. Len(prog)
      BY <1>0, BarrierType DEF TypeInv
    <3>2. Now(s).blocks \in 1 .. Blocks /\ Blocks \in Nat
      BY <1>0, <3>1, ProgramFacts DEF Now
    <3>3. p \in Nat
      BY <1>0, ProgramFacts DEF Part
    <3> DEFINE n == Now(s).blocks
    <3> HIDE DEF n
    <3>4. n \in Nat /\ n >= 1 /\ n <= Blocks
      BY <3>2 DEF n
    <3>5. p % n \in 0 .. n - 1
      BY <3>3, <3>4
    <3>6. p % n \in Block
      BY <3>2, <3>4, <3>5 DEF Block
    <3> QED BY <3>6 DEF n
  <2>2. s # r \/ c # b
    BY <1>2 DEF PartsOf
  <2>3. pc'[s][c] = pc[s][c] /\ tmp'[s][p] = tmp[s][p]
    BY <1>2, <2>1, <2>2 DEF OnlyBlock
  <2>4. TmpInv(s, p)
    BY DEF BarrierInv
  <2> QED BY <1>0, <2>3, <2>4 DEF TmpInv, Now
<1> QED BY <1>1, <1>2
----------------------------------------------------------------------------
(* Writing one entry. *)
LEMMA BlockUpdate ==
    ASSUME NEW S, NEW f \in [Rank -> [Block -> S]], NEW r \in Rank, NEW b \in Block, NEW v \in S,
           NEW g, g = [f EXCEPT ![r][b] = v]
    PROVE  /\ g \in [Rank -> [Block -> S]] /\ g[r][b] = v
           /\ \A s \in Rank, c \in Block : s # r \/ c # b => g[s][c] = f[s][c]
OBVIOUS

Writes(i, a, b, r, v) ==
    /\ counter' \in [Rank -> [{"start", "end"} -> [Block -> [Rank -> Nat]]]]
    /\ counter'[i][a][b][r] = v
    /\ \A q \in Rank, e \in {"start", "end"}, c \in Block, s \in Rank :
         q # i \/ e # a \/ c # b \/ s # r => counter'[q][e][c][s] = counter[q][e][c][s]

LEMMA CounterUpdate ==
    ASSUME TypeInv, NEW i \in Rank, NEW a \in {"start", "end"}, NEW b \in Block, NEW r \in Rank,
           NEW v \in Nat, counter' = [counter EXCEPT ![i][a][b][r] = v]
    PROVE  Writes(i, a, b, r, v)
<1> DEFINE one == [counter[i][a][b] EXCEPT ![r] = v]
           two == [counter[i][a] EXCEPT ![b] = one]
           three == [counter[i] EXCEPT ![a] = two]
<1>0. counter \in [Rank -> [{"start", "end"} -> [Block -> [Rank -> Nat]]]]
  BY DEF TypeInv
<1>1. counter' = [counter EXCEPT ![i] = three]
  BY <1>0
<1>2. one \in [Rank -> Nat] /\ one[r] = v /\ \A s \in Rank : s # r => one[s] = counter[i][a][b][s]
  BY <1>0
<1> HIDE DEF one
<1>3. /\ two \in [Block -> [Rank -> Nat]] /\ two[b] = one
      /\ \A c \in Block : c # b => two[c] = counter[i][a][c]
  BY <1>0, <1>2
<1> HIDE DEF two
<1>4. /\ three \in [{"start", "end"} -> [Block -> [Rank -> Nat]]] /\ three[a] = two
      /\ \A e \in {"start", "end"} : e # a => three[e] = counter[i][e]
  BY <1>0, <1>3
<1> HIDE DEF three
<1>5. /\ counter' \in [Rank -> [{"start", "end"} -> [Block -> [Rank -> Nat]]]] /\ counter'[i] = three
      /\ \A q \in Rank : q # i => counter'[q] = counter[q]
  BY <1>0, <1>1, <1>4
<1> QED BY <1>2, <1>3, <1>4, <1>5 DEF Writes

LEMMA StoreFlagStep ==
    ASSUME BarrierInv, NEW r \in Rank, NEW b \in Block, NEW i \in Rank, StoreFlag(r, b, i)
    PROVE  BarrierInv'
<1>0. prog' = prog /\ build' = build /\ k' = k /\ input' = input /\ pc' = pc /\ reg' = reg /\ flag' = flag
      /\ seen' = seen /\ tmp' = tmp /\ TypeInv /\ pc[r][b] \in {"start", "end"}
  BY DEF StoreFlag, program, BarrierInv
<1>a. PICK a \in {"start", "end"} : a = pc[r][b]
  BY <1>0
<1>r. PICK v \in Nat : v = reg[r][b]
  BY <1>0, ProgramFacts DEF TypeInv
<1>c. counter' = [counter EXCEPT ![i][a][b][r] = v]
  BY <1>a, <1>r DEF StoreFlag, CountersOf
<1>1. /\ counter' \in [Rank -> [{"start", "end"} -> [Block -> [Rank -> Nat]]]]
      /\ counter'[i][a][b][r] = reg[r][b]
      /\ \A q \in Rank, e \in {"start", "end"}, c \in Block, s \in Rank :
           q # i \/ e # a \/ c # b \/ s # r => counter'[q][e][c][s] = counter[q][e][c][s]
  <2>1. Writes(i, a, b, r, v)
    BY <1>0, <1>c, CounterUpdate
  <2> QED BY <1>r, <2>1 DEF Writes
<1>2. /\ sent' \in [Rank -> [Block -> SUBSET Rank]] /\ sent'[r][b] = sent[r][b] \cup {i}
      /\ \A s \in Rank, c \in Block : s # r \/ c # b => sent'[s][c] = sent[s][c]
  <2>1. sent \in [Rank -> [Block -> SUBSET Rank]] /\ sent' = [sent EXCEPT ![r][b] = sent[r][b] \cup {i}]
    BY <1>0 DEF StoreFlag, TypeInv
  <2>2. sent[r][b] \cup {i} \in SUBSET Rank
    BY <2>1
  <2> QED BY <2>1, <2>2, BlockUpdate
<1>3. TypeInv'
  BY <1>0, <1>1, <1>2 DEF TypeInv, FlagMod
<1>4. OnlyBlock(r, b)
  <2>1. ASSUME NEW s \in Rank, NEW c \in Block, s # r \/ c # b, NEW q \in Rank
        PROVE  /\ counter'[q]["start"][c][s] = counter[q]["start"][c][s]
               /\ counter'[q]["end"][c][s] = counter[q]["end"][c][s]
    BY <1>1, <2>1
  <2> QED BY <1>0, <1>2, <2>1 DEF OnlyBlock, program
<1>u. Uses(b, k[r])' = Uses(b, k[r])
  BY <1>0 DEF Uses
<1>s. \A x, n : Stands(x, n)' <=> Stands(x, n)
  BY <1>0 DEF Stands, FlagMod
<1>b. \A q \in Rank : Barrier(q, b)' = Barrier(q, b) /\ Barrier(q, b) \in Int
  <2> SUFFICES ASSUME NEW q \in Rank PROVE Barrier(q, b)' = Barrier(q, b) /\ Barrier(q, b) \in Int
    OBVIOUS
  <2>1. Uses(b, k[q])' = Uses(b, k[q])
    BY <1>0 DEF Uses
  <2> QED BY <1>0, <2>1, BarrierType DEF Barrier
<1>i. GridInv(r, b) /\ FlagInv(r, b) /\ \A q \in Rank : CounterInv(r, b, q) /\ LeadInv(r, b, q)
  BY DEF BarrierInv
<1>5. GridInv(r, b)'
  BY <1>0, <1>2, <1>i DEF GridInv, Now
<1>6. FlagInv(r, b)'
  BY <1>0, <1>s, <1>b, <1>i DEF FlagInv
<1>7. ASSUME NEW q \in Rank PROVE CounterInv(r, b, q)'
  <2> DEFINE n == Uses(b, k[r])
  <2>1. n \in Nat /\ n >= 1
    BY <1>0, <1>i, BarrierType, RunningUses
  <2>2. Stands(reg[r][b], IF pc[r][b] = "start" THEN 2 * n - 1 ELSE 2 * n)
    BY <1>0, <1>i DEF FlagInv, Barrier
  <2>c. CounterInv(r, b, q)
    BY <1>i
  <2>3. ASSUME pc[r][b] # "start" \/ q \in sent'[r][b]
        PROVE  Stands(counter'[q]["start"][b][r], IF n = 0 THEN 0 ELSE 2 * n - 1)
    <3>1. CASE q = i /\ a = "start"
      BY <1>a, <1>1, <2>1, <2>2, <3>1
    <3>2. CASE q # i \/ a # "start"
      BY <1>0, <1>a, <1>1, <1>2, <2>3, <2>c, <3>2 DEF CounterInv
    <3> QED BY <3>1, <3>2
  <2>4. ASSUME pc[r][b] = "start" PROVE Stands(counter'[q]["end"][b][r], 2 * n - 2)
    BY <1>a, <1>1, <2>4, <2>c DEF CounterInv
  <2>5. ASSUME pc[r][b] = "end", q \in sent'[r][b] PROVE Stands(counter'[q]["end"][b][r], 2 * n)
    <3>1. CASE q = i
      BY <1>a, <1>1, <2>2, <2>5, <3>1
    <3>2. CASE q # i
      BY <1>1, <1>2, <2>5, <2>c, <3>2 DEF CounterInv
    <3> QED BY <3>1, <3>2
  <2> HIDE DEF n
  <2> QED BY <1>0, <1>u, <1>s, <2>3, <2>4, <2>5 DEF CounterInv, n
<1>8. ASSUME NEW q \in Rank PROVE LeadInv(r, b, q)'
  BY <1>0, <1>b, <1>i DEF LeadInv
<1>9. \A s \in Rank, p \in Part : TmpInv(s, p)'
  BY <1>0, TmpFrame DEF program
<1> QED BY <1>b, <1>3, <1>4, <1>5, <1>6, <1>7, <1>8, <1>9, BlockFrame

(* Whoever sees its peer's flag is not ahead of it. *)
LEMMA SeenIsArrived ==
    ASSUME BarrierInv, FlagsDistinct, NEW r \in Rank, NEW b \in Block, NEW i \in Rank,
           pc[r][b] \in {"start", "end"}, Arrived(counter[r][pc[r][b]][b][i], reg[r][b])
    PROVE  Barrier(i, b) >= Barrier(r, b)
<1> DEFINE n == Uses(b, k[r])
           m == Uses(b, k[i])
<1>0. TypeInv /\ GridInv(r, b) /\ FlagInv(r, b) /\ LeadInv(r, b, i) /\ CounterInv(i, b, r)
  BY DEF BarrierInv
<1>1. n \in Nat /\ n >= 1 /\ m \in Nat /\ n <= Len(prog) /\ Len(prog) \in Nat
  <2>1. n \in Nat /\ m \in Nat /\ n <= k[r] /\ k[r] \in 0 .. Len(prog) /\ k[r] \in Nat
    BY <1>0, BarrierType
  <2>2. n >= 1 /\ Len(prog) \in Nat
    BY <1>0, RunningUses, ProgramFacts
  <2> HIDE DEF n, m
  <2> QED BY <2>1, <2>2
<1>2. /\ Barrier(r, b) = IF pc[r][b] = "start" THEN 2 * n - 1 ELSE 2 * n
      /\ Barrier(i, b) = IF pc[i][b] \in {"start", "reduce"} THEN 2 * m - 1 ELSE 2 * m
  BY DEF Barrier
<1>3. /\ pc[i][b] # "start" => Stands(counter[r]["start"][b][i], IF m = 0 THEN 0 ELSE 2 * m - 1)
      /\ pc[i][b] \in {"start", "reduce"} => Stands(counter[r]["end"][b][i], 2 * m - 2)
  BY <1>0 DEF CounterInv
<1>4. Stands(reg[r][b], Barrier(r, b)) /\ Barrier(i, b) >= Barrier(r, b) - 1
  BY <1>0 DEF FlagInv, LeadInv
<1> HIDE DEF n, m
<1> SUFFICES ASSUME Barrier(i, b) < Barrier(r, b) PROVE FALSE
  BY <1>1, <1>2
<1>5. Barrier(i, b) = Barrier(r, b) - 1
  BY <1>1, <1>2, <1>4
<1>6. CASE pc[r][b] = "start"
  <2>1. pc[i][b] \notin {"start", "reduce"} /\ m = n - 1
    BY <1>1, <1>2, <1>5, <1>6
  <2>2. PICK x \in Nat : x = IF m = 0 THEN 0 ELSE 2 * m - 1
    BY <1>1
  <2>3. PICK y \in Nat : y = 2 * n - 1
    BY <1>1
  <2>4. Stands(counter[r]["start"][b][i], x) /\ Stands(reg[r][b], y)
    BY <1>2, <1>3, <1>4, <1>6, <2>1, <2>2, <2>3
  <2>5. x < y /\ y <= x + 2 /\ y <= 2 * Len(prog)
    BY <1>1, <2>1, <2>2, <2>3
  <2> QED BY <1>0, <1>6, <2>4, <2>5, ArrivedIsRight
<1>7. CASE pc[r][b] = "end"
  <2>1. pc[i][b] \in {"start", "reduce"} /\ m = n
    BY <1>1, <1>2, <1>5, <1>7
  <2>2. PICK x \in Nat : x = 2 * n - 2
    BY <1>1
  <2>3. PICK y \in Nat : y = 2 * n
    BY <1>1
  <2>4. Stands(counter[r]["end"][b][i], x) /\ Stands(reg[r][b], y)
    BY <1>2, <1>3, <1>4, <1>7, <2>1, <2>2, <2>3
  <2>5. x < y /\ y <= x + 2 /\ y <= 2 * Len(prog)
    BY <1>1, <2>2, <2>3
  <2> QED BY <1>0, <1>7, <2>4, <2>5, ArrivedIsRight
<1> QED BY <1>6, <1>7

LEMMA SeeFlagStep ==
    ASSUME BarrierInv, FlagsDistinct, NEW r \in Rank, NEW b \in Block, NEW i \in Rank, SeeFlag(r, b, i)
    PROVE  BarrierInv'
<1>0. prog' = prog /\ build' = build /\ k' = k /\ input' = input /\ pc' = pc /\ reg' = reg /\ flag' = flag
      /\ sent' = sent /\ counter' = counter /\ tmp' = tmp /\ TypeInv /\ pc[r][b] \in {"start", "end"}
      /\ i \in sent[r][b]
  BY DEF SeeFlag, program, signal, BarrierInv
<1>2. /\ seen' \in [Rank -> [Block -> SUBSET Rank]] /\ seen'[r][b] = seen[r][b] \cup {i}
      /\ \A s \in Rank, c \in Block : s # r \/ c # b => seen'[s][c] = seen[s][c]
  <2>1. seen \in [Rank -> [Block -> SUBSET Rank]] /\ seen' = [seen EXCEPT ![r][b] = seen[r][b] \cup {i}]
    BY <1>0 DEF SeeFlag, TypeInv
  <2>2. seen[r][b] \cup {i} \in SUBSET Rank
    BY <2>1
  <2> QED BY <2>1, <2>2, BlockUpdate
<1>3. TypeInv'
  BY <1>0, <1>2 DEF TypeInv, FlagMod
<1>4. OnlyBlock(r, b)
  BY <1>0, <1>2 DEF OnlyBlock, program
<1>u. Uses(b, k[r])' = Uses(b, k[r])
  BY <1>0 DEF Uses
<1>s. \A x, n : Stands(x, n)' <=> Stands(x, n)
  BY <1>0 DEF Stands, FlagMod
<1>b. \A q \in Rank : Barrier(q, b)' = Barrier(q, b) /\ Barrier(q, b) \in Int
  <2> SUFFICES ASSUME NEW q \in Rank PROVE Barrier(q, b)' = Barrier(q, b) /\ Barrier(q, b) \in Int
    OBVIOUS
  <2>1. Uses(b, k[q])' = Uses(b, k[q])
    BY <1>0 DEF Uses
  <2> QED BY <1>0, <2>1, BarrierType DEF Barrier
<1>i. GridInv(r, b) /\ FlagInv(r, b) /\ \A q \in Rank : CounterInv(r, b, q) /\ LeadInv(r, b, q)
  BY DEF BarrierInv
<1>5. GridInv(r, b)'
  BY <1>0, <1>2, <1>i DEF GridInv, Now
<1>6. FlagInv(r, b)'
  BY <1>0, <1>s, <1>b, <1>i DEF FlagInv
<1>7. ASSUME NEW q \in Rank PROVE CounterInv(r, b, q)'
  <2>1. CounterInv(r, b, q)
    BY <1>i
  <2> QED BY <1>0, <1>u, <1>s, <2>1 DEF CounterInv
<1>8. ASSUME NEW q \in Rank PROVE LeadInv(r, b, q)'
  <2>1. Arrived(counter[r][pc[r][b]][b][i], reg[r][b])
    BY DEF SeeFlag, CountersOf
  <2>2. Barrier(i, b) >= Barrier(r, b)
    BY <1>0, <2>1, SeenIsArrived
  <2> QED BY <1>0, <1>2, <1>b, <1>i, <2>2 DEF LeadInv
<1>9. \A s \in Rank, p \in Part : TmpInv(s, p)'
  BY <1>0, TmpFrame DEF program
<1> QED BY <1>b, <1>3, <1>4, <1>5, <1>6, <1>7, <1>8, <1>9, BlockFrame

(* The place of a block changes, and with it perhaps its part of the temporary
   buffer; the counters, and what other blocks do, stay. *)
LEMMA LeaveStartStep ==
    ASSUME BarrierInv, NEW r \in Rank, NEW b \in Block, LeaveStart(r, b)
    PROVE  BarrierInv'
<1>0. prog' = prog /\ build' = build /\ k' = k /\ input' = input /\ reg' = reg /\ counter' = counter
      /\ sent' = sent /\ seen' = seen /\ TypeInv /\ pc[r][b] = "start" /\ seen[r][b] = Rank
  BY DEF LeaveStart, program, BarrierInv
<1>i. GridInv(r, b) /\ FlagInv(r, b) /\ \A q \in Rank : CounterInv(r, b, q) /\ LeadInv(r, b, q)
  BY DEF BarrierInv
<1>1. /\ pc' \in [Rank -> [Block -> {"start", "reduce", "end", "gather", "done"}]] /\ pc'[r][b] = "reduce"
      /\ \A s \in Rank, c \in Block : s # r \/ c # b => pc'[s][c] = pc[s][c]
  <2>1. pc \in [Rank -> [Block -> {"start", "reduce", "end", "gather", "done"}]]
    BY <1>0 DEF TypeInv
  <2>2. pc' = [pc EXCEPT ![r][b] = "reduce"]
    BY DEF LeaveStart
  <2> QED BY <2>1, <2>2, BlockUpdate
<1>2. /\ flag' \in [Rank -> [Block -> 0 .. FlagMod - 1]] /\ flag'[r][b] = reg[r][b]
      /\ \A s \in Rank, c \in Block : s # r \/ c # b => flag'[s][c] = flag[s][c]
  BY <1>0 DEF TypeInv, LeaveStart, UpdateFlag
<1>t. /\ tmp' \in [Rank -> [Part -> Nat]]
      /\ \A s \in Rank, p \in Part : s # r \/ p \notin PartsOf(r, b) => tmp'[s][p] = tmp[s][p]
  <2>1. tmp \in [Rank -> [Part -> Nat]]
    BY <1>0 DEF TypeInv
  <2>2. CASE Now(r).stages = 1
    BY <2>1, <2>2 DEF LeaveStart
  <2>3. CASE Now(r).stages # 1
    <3>1. tmp' = [tmp EXCEPT ![r] = [p \in Part |-> IF p \in PartsOf(r, b) THEN 0 ELSE tmp[r][p]]]
      BY <2>3 DEF LeaveStart, Torn
    <3> DEFINE row == [p \in Part |-> IF p \in PartsOf(r, b) THEN 0 ELSE tmp[r][p]]
    <3>2. row \in [Part -> Nat] /\ \A p \in Part : p \notin PartsOf(r, b) => row[p] = tmp[r][p]
      BY <2>1
    <3> HIDE DEF row
    <3>3. tmp' = [tmp EXCEPT ![r] = row]
      BY <3>1 DEF row
    <3> QED BY <2>1, <3>2, <3>3
  <2> QED BY <2>2, <2>3
<1>3. TypeInv'
  BY <1>0, <1>1, <1>2, <1>t DEF TypeInv, FlagMod
<1>4. OnlyBlock(r, b)
  BY <1>0, <1>1, <1>2 DEF OnlyBlock, program
<1>u. \A q \in Rank : Uses(b, k[q])' = Uses(b, k[q]) /\ Uses(b, k[q]) \in Nat
  BY <1>0, BarrierType DEF Uses
<1>s. \A x, n : Stands(x, n)' <=> Stands(x, n)
  BY <1>0 DEF Stands, FlagMod
<1>b. \A q \in Rank : Barrier(q, b)' = Barrier(q, b) /\ Barrier(q, b) \in Int
  <2> SUFFICES ASSUME NEW q \in Rank PROVE Barrier(q, b)' = Barrier(q, b) /\ Barrier(q, b) \in Int
    OBVIOUS
  <2>1. Uses(b, k[q])' = Uses(b, k[q]) /\ Barrier(q, b) \in Int
    BY <1>0, <1>u, BarrierType
  <2>2. pc'[q][b] \in {"start", "reduce"} <=> pc[q][b] \in {"start", "reduce"}
    BY <1>0, <1>1
  <2> QED BY <2>1, <2>2 DEF Barrier
<1>5. GridInv(r, b)'
  BY <1>0, <1>1, <1>i DEF GridInv, Now
<1>6. FlagInv(r, b)'
  BY <1>0, <1>1, <1>2, <1>s, <1>b, <1>i DEF FlagInv
<1>7. ASSUME NEW q \in Rank PROVE CounterInv(r, b, q)'
  <2>1. CounterInv(r, b, q) /\ q \in sent[r][b]
    BY <1>0, <1>i DEF GridInv
  <2> QED BY <1>0, <1>1, <1>u, <1>s, <2>1 DEF CounterInv
<1>8. ASSUME NEW q \in Rank PROVE LeadInv(r, b, q)'
  BY <1>0, <1>1, <1>b, <1>i DEF LeadInv
<1>9. \A s \in Rank, p \in Part : TmpInv(s, p)'
  <2>1. ASSUME NEW p \in PartsOf(r, b) PROVE TmpInv(r, p)'
    <3>1. p % Now(r).blocks = b
      BY DEF PartsOf
    <3> QED BY <1>0, <1>1, <3>1 DEF TmpInv, Now
  <2> QED BY <1>4, <1>t, <2>1, TmpOther
<1> QED BY <1>b, <1>3, <1>4, <1>5, <1>6, <1>7, <1>8, <1>9, BlockFrame

LEMMA EnterEndStep ==
    ASSUME BarrierInv, NEW r \in Rank, NEW b \in Block, EnterEnd(r, b)
    PROVE  BarrierInv'
<1>0. prog' = prog /\ build' = build /\ k' = k /\ input' = input /\ flag' = flag /\ counter' = counter
      /\ TypeInv /\ pc[r][b] = "reduce"
  BY DEF EnterEnd, program, signal, BarrierInv
<1>i. GridInv(r, b) /\ FlagInv(r, b) /\ \A q \in Rank : CounterInv(r, b, q) /\ LeadInv(r, b, q)
  BY DEF BarrierInv
<1>f. FlagMod \in Nat /\ FlagMod >= 1
  BY <1>0, ProgramFacts
<1>1. /\ pc' \in [Rank -> [Block -> {"start", "reduce", "end", "gather", "done"}]] /\ pc'[r][b] = "end"
      /\ \A s \in Rank, c \in Block : s # r \/ c # b => pc'[s][c] = pc[s][c]
  <2>1. pc \in [Rank -> [Block -> {"start", "reduce", "end", "gather", "done"}]]
    BY <1>0 DEF TypeInv
  <2>2. pc' = [pc EXCEPT ![r][b] = "end"]
    BY DEF EnterEnd
  <2> QED BY <2>1, <2>2, BlockUpdate
<1>r. Barrier(r, b) \in Int /\ Stands(IncFlag(flag[r][b]), Barrier(r, b) + 1)
  <2>1. Barrier(r, b) \in Int /\ Stands(flag[r][b], Barrier(r, b))
    BY <1>0, <1>i, BarrierType DEF FlagInv
  <2>2. PICK n \in Int : n = Barrier(r, b)
    BY <2>1
  <2> QED BY <1>f, <2>1, <2>2, StandsNext
<1>2. /\ reg' \in [Rank -> [Block -> 0 .. FlagMod - 1]] /\ reg'[r][b] = IncFlag(flag[r][b])
      /\ \A s \in Rank, c \in Block : s # r \/ c # b => reg'[s][c] = reg[s][c]
  <2>1. PICK v \in 0 .. FlagMod - 1 : v = IncFlag(flag[r][b])
    BY <1>r DEF Stands
  <2>2. reg' = [reg EXCEPT ![r][b] = v] /\ reg \in [Rank -> [Block -> 0 .. FlagMod - 1]]
    BY <1>0, <2>1 DEF EnterEnd, TypeInv
  <2> QED BY <2>1, <2>2
<1>e. /\ sent' \in [Rank -> [Block -> SUBSET Rank]] /\ sent'[r][b] = {}
      /\ \A s \in Rank, c \in Block : s # r \/ c # b => sent'[s][c] = sent[s][c]
  <2>1. sent' = [sent EXCEPT ![r][b] = {}] /\ sent \in [Rank -> [Block -> SUBSET Rank]]
    BY <1>0 DEF EnterEnd, TypeInv
  <2> QED BY <2>1
<1>n. /\ seen' \in [Rank -> [Block -> SUBSET Rank]] /\ seen'[r][b] = {}
      /\ \A s \in Rank, c \in Block : s # r \/ c # b => seen'[s][c] = seen[s][c]
  <2>1. seen' = [seen EXCEPT ![r][b] = {}] /\ seen \in [Rank -> [Block -> SUBSET Rank]]
    BY <1>0 DEF EnterEnd, TypeInv
  <2> QED BY <2>1
<1>t. /\ tmp' \in [Rank -> [Part -> Nat]]
      /\ \A s \in Rank, p \in Part : s # r \/ p \notin PartsOf(r, b) => tmp'[s][p] = tmp[s][p]
      /\ Now(r).stages # 1 => \A p \in PartsOf(r, b) : tmp'[r][p] = k[r]
  <2>1. tmp \in [Rank -> [Part -> Nat]] /\ k[r] \in Nat /\ PartsOf(r, b) \subseteq Part
    BY <1>0, BarrierType DEF TypeInv, PartsOf
  <2>2. CASE Now(r).stages = 1
    BY <2>1, <2>2 DEF EnterEnd
  <2>3. CASE Now(r).stages # 1
    <3>1. tmp' = [tmp EXCEPT ![r] = [p \in Part |-> IF p \in PartsOf(r, b) THEN k[r] ELSE tmp[r][p]]]
      BY <2>3 DEF EnterEnd
    <3> DEFINE row == [p \in Part |-> IF p \in PartsOf(r, b) THEN k[r] ELSE tmp[r][p]]
    <3>2. /\ row \in [Part -> Nat] /\ \A p \in Part : p \notin PartsOf(r, b) => row[p] = tmp[r][p]
          /\ \A p \in PartsOf(r, b) : row[p] = k[r]
      BY <2>1
    <3> HIDE DEF row
    <3>3. tmp' = [tmp EXCEPT ![r] = row]
      BY <3>1 DEF row
    <3> QED BY <2>1, <3>2, <3>3
  <2> QED BY <2>2, <2>3
<1>3. TypeInv'
  BY <1>0, <1>1, <1>2, <1>e, <1>n, <1>t DEF TypeInv, FlagMod
<1>4. OnlyBlock(r, b)
  BY <1>0, <1>1, <1>2, <1>e, <1>n DEF OnlyBlock, program
<1>u. \A q \in Rank : Uses(b, k[q])' = Uses(b, k[q]) /\ Uses(b, k[q]) \in Nat
  BY <1>0, BarrierType DEF Uses
<1>s. \A x, n : Stands(x, n)' <=> Stands(x, n)
  BY <1>0 DEF Stands, FlagMod
<1>b. /\ Barrier(r, b)' = Barrier(r, b) + 1 /\ Barrier(r, b) \in Int
      /\ Barrier(r, b)' = 2 * Uses(b, k[r])
  BY <1>0, <1>1, <1>u DEF Barrier
<1>c. \A q \in Rank : q # r => Barrier(q, b)' = Barrier(q, b) /\ Barrier(q, b) \in Int
  <2> SUFFICES ASSUME NEW q \in Rank, q # r PROVE Barrier(q, b)' = Barrier(q, b) /\ Barrier(q, b) \in Int
    OBVIOUS
  <2>1. Uses(b, k[q])' = Uses(b, k[q]) /\ Barrier(q, b) \in Int
    BY <1>0, <1>u, BarrierType
  <2> QED BY <1>1, <2>1 DEF Barrier
<1>5. GridInv(r, b)'
  BY <1>0, <1>1, <1>e, <1>n, <1>i DEF GridInv, Now
<1>6. FlagInv(r, b)'
  <2>1. Stands(flag[r][b], Barrier(r, b)) /\ Barrier(r, b)' - 1 = Barrier(r, b)
    BY <1>0, <1>i, <1>b DEF FlagInv
  <2> QED BY <1>0, <1>1, <1>2, <1>r, <1>s, <1>b, <2>1 DEF FlagInv
<1>7. ASSUME NEW q \in Rank PROVE CounterInv(r, b, q)'
  <2>1. CounterInv(r, b, q)
    BY <1>i
  <2> QED BY <1>0, <1>1, <1>e, <1>u, <1>s, <2>1 DEF CounterInv
<1>8. ASSUME NEW q \in Rank, q # r PROVE LeadInv(r, b, q)'
  <2>1. LeadInv(r, b, q)
    BY <1>i
  <2> QED BY <1>0, <1>1, <1>n, <1>b, <1>c, <1>8, <2>1 DEF LeadInv
<1>9. \A s \in Rank, p \in Part : TmpInv(s, p)'
  <2>1. ASSUME NEW p \in PartsOf(r, b) PROVE TmpInv(r, p)'
    <3>1. p % Now(r).blocks = b
      BY DEF PartsOf
    <3> QED BY <1>0, <1>1, <1>t, <3>1 DEF TmpInv, Now
  <2> QED BY <1>4, <1>t, <2>1, TmpOther
<1>x. Barrier(r, b)' >= Barrier(r, b)
  BY <1>b
<1> QED BY <1>x, <1>3, <1>4, <1>5, <1>6, <1>7, <1>8, <1>9, BlockFrame

(* After the end barrier: the block stays, gathers or is done. *)
LEMMA EndingStep ==
    ASSUME BarrierInv, NEW r \in Rank, NEW b \in Block, NEW x \in {"end", "gather", "done"},
           UNCHANGED <<program, k, reg, sent, seen, counter, input, tmp>>,
           pc[r][b] \in {"end", "gather"}, pc' = [pc EXCEPT ![r][b] = x],
           flag' = flag \/ UpdateFlag(r, b),
           x = "end" => pc[r][b] = "end",
           x = "gather" => Now(r).stages = 2,
           x # "end" /\ pc[r][b] = "end" => seen[r][b] = Rank /\ flag'[r][b] = reg[r][b]
    PROVE  BarrierInv'
<1>0. prog' = prog /\ build' = build /\ k' = k /\ input' = input /\ reg' = reg /\ counter' = counter
      /\ sent' = sent /\ seen' = seen /\ tmp' = tmp /\ TypeInv
  BY DEF program, BarrierInv
<1>i. GridInv(r, b) /\ FlagInv(r, b) /\ \A q \in Rank : CounterInv(r, b, q) /\ LeadInv(r, b, q)
  BY DEF BarrierInv
<1>1. /\ pc' \in [Rank -> [Block -> {"start", "reduce", "end", "gather", "done"}]] /\ pc'[r][b] = x
      /\ \A s \in Rank, c \in Block : s # r \/ c # b => pc'[s][c] = pc[s][c]
  <2>1. pc \in [Rank -> [Block -> {"start", "reduce", "end", "gather", "done"}]]
    BY <1>0 DEF TypeInv
  <2> QED BY <2>1
<1>2. /\ flag' \in [Rank -> [Block -> 0 .. FlagMod - 1]] /\ flag'[r][b] \in {flag[r][b], reg[r][b]}
      /\ \A s \in Rank, c \in Block : s # r \/ c # b => flag'[s][c] = flag[s][c]
  <2>1. flag \in [Rank -> [Block -> 0 .. FlagMod - 1]] /\ reg \in [Rank -> [Block -> 0 .. FlagMod - 1]]
    BY <1>0 DEF TypeInv
  <2>2. CASE flag' = flag
    BY <2>1, <2>2
  <2>3. CASE UpdateFlag(r, b)
    BY <2>1, <2>3 DEF UpdateFlag
  <2> QED BY <2>2, <2>3
<1>3. TypeInv'
  BY <1>0, <1>1, <1>2 DEF TypeInv, FlagMod
<1>4. OnlyBlock(r, b)
  BY <1>0, <1>1, <1>2 DEF OnlyBlock, program
<1>u. \A q \in Rank : Uses(b, k[q])' = Uses(b, k[q]) /\ Uses(b, k[q]) \in Nat
  BY <1>0, BarrierType DEF Uses
<1>s. \A y, n : Stands(y, n)' <=> Stands(y, n)
  BY <1>0 DEF Stands, FlagMod
<1>b. \A q \in Rank : Barrier(q, b)' = Barrier(q, b) /\ Barrier(q, b) \in Int
  <2> SUFFICES ASSUME NEW q \in Rank PROVE Barrier(q, b)' = Barrier(q, b) /\ Barrier(q, b) \in Int
    OBVIOUS
  <2>1. Uses(b, k[q])' = Uses(b, k[q]) /\ Barrier(q, b) \in Int
    BY <1>0, <1>u, BarrierType
  <2>2. pc'[q][b] \in {"start", "reduce"} <=> pc[q][b] \in {"start", "reduce"}
    BY <1>1
  <2> QED BY <2>1, <2>2 DEF Barrier
<1>5. GridInv(r, b)'
  BY <1>0, <1>1, <1>i DEF GridInv, Now
<1>6. FlagInv(r, b)'
  <2>1. CASE x = "end"
    BY <1>0, <1>1, <1>2, <1>s, <1>b, <1>i, <2>1 DEF FlagInv
  <2>2. CASE x # "end" /\ pc[r][b] = "end"
    BY <1>0, <1>1, <1>2, <1>s, <1>b, <1>i, <2>2 DEF FlagInv
  <2>3. CASE x # "end" /\ pc[r][b] = "gather"
    BY <1>0, <1>1, <1>2, <1>s, <1>b, <1>i, <2>3 DEF FlagInv
  <2> QED BY <2>1, <2>2, <2>3
<1>7. ASSUME NEW q \in Rank PROVE CounterInv(r, b, q)'
  <2>1. CounterInv(r, b, q) /\ (x # "end" /\ pc[r][b] = "end" => q \in sent[r][b])
    BY <1>0, <1>i DEF GridInv
  <2> QED BY <1>0, <1>1, <1>u, <1>s, <2>1 DEF CounterInv
<1>8. ASSUME NEW q \in Rank PROVE LeadInv(r, b, q)'
  <2>1. LeadInv(r, b, q)
    BY <1>i
  <2> QED BY <1>0, <1>1, <1>b, <2>1 DEF LeadInv
<1>9. \A s \in Rank, p \in Part : TmpInv(s, p)'
  <2>1. ASSUME NEW p \in PartsOf(r, b) PROVE TmpInv(r, p)'
    <3>1. p % Now(r).blocks = b /\ TmpInv(r, p)
      BY DEF PartsOf, BarrierInv
    <3> QED BY <1>0, <1>1, <3>1 DEF TmpInv, Now
  <2>2. tmp' \in [Rank -> [Part -> Nat]]
    BY <1>0 DEF TypeInv
  <2> QED BY <1>0, <1>4, <2>1, <2>2, TmpOther
<1> QED BY <1>b, <1>3, <1>4, <1>5, <1>6, <1>7, <1>8, <1>9, BlockFrame

LEMMA EndingSteps ==
    ASSUME BarrierInv, NEW r \in Rank, NEW b \in Block,
           UpdateFinalFlag(r, b) \/ LeaveFinal(r, b) \/ LeaveEnd(r, b) \/ EndGather(r, b)
    PROVE  BarrierInv'
<1>0. /\ pc \in [Rank -> [Block -> {"start", "reduce", "end", "gather", "done"}]]
      /\ reg \in [Rank -> [Block -> 0 .. FlagMod - 1]] /\ flag \in [Rank -> [Block -> 0 .. FlagMod - 1]]
  BY DEF BarrierInv, TypeInv
<1>u. UpdateFlag(r, b) => flag'[r][b] = reg[r][b]
  BY <1>0 DEF UpdateFlag
<1>1. CASE UpdateFinalFlag(r, b)
  <2>1. pc' = [pc EXCEPT ![r][b] = "end"] /\ pc[r][b] = "end" /\ UpdateFlag(r, b)
        /\ UNCHANGED <<program, k, reg, sent, seen, counter, input, tmp>>
    BY <1>0, <1>1 DEF UpdateFinalFlag
  <2> QED BY <2>1, EndingStep
<1>2. CASE LeaveFinal(r, b)
  <2>1. pc' = [pc EXCEPT ![r][b] = "done"] /\ pc[r][b] = "end" /\ flag' = flag
        /\ seen[r][b] = Rank /\ flag[r][b] = reg[r][b]
        /\ UNCHANGED <<program, k, reg, sent, seen, counter, input, tmp>>
    BY <1>2 DEF LeaveFinal, signal
  <2> QED BY <2>1, EndingStep
<1>3. CASE LeaveEnd(r, b)
  <2>1. pc' = [pc EXCEPT ![r][b] = "gather"] /\ pc[r][b] = "end" /\ UpdateFlag(r, b)
        /\ seen[r][b] = Rank /\ Now(r).stages = 2
        /\ UNCHANGED <<program, k, reg, sent, seen, counter, input, tmp>>
    BY <1>3 DEF LeaveEnd
  <2> QED BY <1>u, <2>1, EndingStep
<1>4. CASE EndGather(r, b)
  <2>1. pc' = [pc EXCEPT ![r][b] = "done"] /\ pc[r][b] = "gather" /\ flag' = flag
        /\ UNCHANGED <<program, k, reg, sent, seen, counter, input, tmp>>
    BY <1>4 DEF EndGather, signal
  <2> QED BY <2>1, EndingStep
<1> QED BY <1>1, <1>2, <1>3, <1>4

(* The next kernel starts: block 0 and perhaps others enter a start barrier. *)
LEMMA LaunchStep ==
    ASSUME BarrierInv, NEW r \in Rank, Launch(r)
    PROVE  BarrierInv'
<1> DEFINE grid == {b \in Block : b < prog[k[r] + 1].blocks}
<1>0. prog' = prog /\ build' = build /\ flag' = flag /\ counter' = counter /\ tmp' = tmp /\ TypeInv
  BY DEF Launch, program, signal, BarrierInv
<1>k. /\ k[r] \in 0 .. Len(prog) /\ k[r] < Len(prog) /\ k[r] \in Nat /\ k[r] + 1 \in 1 .. Len(prog)
      /\ k' \in [Rank -> 0 .. Len(prog)] /\ k'[r] = k[r] + 1 /\ \A q \in Rank : q # r => k'[q] = k[q]
      /\ input' = k'
  <2>1. Len(prog) \in Nat /\ k \in [Rank -> 0 .. Len(prog)] /\ input = k
    BY <1>0, ProgramFacts DEF TypeInv
  <2>2. k[r] < Len(prog) /\ k' = [k EXCEPT ![r] = k[r] + 1] /\ input' = [input EXCEPT ![r] = k[r] + 1]
    BY DEF Launch
  <2>3. k[r] \in 0 .. Len(prog) /\ k[r] + 1 \in 0 .. Len(prog) /\ k[r] + 1 \in 1 .. Len(prog) /\ k[r] \in Nat
    BY <2>1, <2>2
  <2> QED BY <2>1, <2>2, <2>3
<1>d. \A b \in Block : pc[r][b] = "done"
  BY DEF Launch, Finished
<1>g. \A b \in Block : b \in grid <=> b < prog[k[r] + 1].blocks
  OBVIOUS
<1>p. /\ pc' = [pc EXCEPT ![r] = [b \in Block |-> IF b \in grid THEN "start" ELSE "done"]]
      /\ reg' = [reg EXCEPT ![r] = [b \in Block |-> IF b \in grid THEN IncFlag(flag[r][b]) ELSE reg[r][b]]]
      /\ sent' = [sent EXCEPT ![r] = [b \in Block |-> {}]] /\ seen' = [seen EXCEPT ![r] = [b \in Block |-> {}]]
  BY DEF Launch
<1> HIDE DEF grid
<1>f. FlagMod \in Nat /\ FlagMod >= 1
  BY <1>0, ProgramFacts
<1>i. \A b \in Block : IncFlag(flag[r][b]) \in 0 .. FlagMod - 1
  <2> SUFFICES ASSUME NEW b \in Block PROVE IncFlag(flag[r][b]) \in 0 .. FlagMod - 1
    OBVIOUS
  <2> DEFINE f == FlagMod
             x == flag[r][b] + 1
  <2>1. x \in Int /\ f \in Nat /\ f >= 1
    BY <1>0, <1>f DEF TypeInv
  <2> HIDE DEF f, x
  <2>2. x % f \in 0 .. f - 1
    BY <2>1
  <2> QED BY <2>2 DEF f, x, IncFlag
<1>1. /\ pc' \in [Rank -> [Block -> {"start", "reduce", "end", "gather", "done"}]]
      /\ \A b \in Block : pc'[r][b] = IF b \in grid THEN "start" ELSE "done"
      /\ \A q \in Rank : q # r => pc'[q] = pc[q]
  BY <1>0, <1>p DEF TypeInv
<1>2. /\ reg' \in [Rank -> [Block -> 0 .. FlagMod - 1]]
      /\ \A b \in Block : reg'[r][b] = IF b \in grid THEN IncFlag(flag[r][b]) ELSE reg[r][b]
      /\ \A q \in Rank : q # r => reg'[q] = reg[q]
  <2> DEFINE row == [b \in Block |-> IF b \in grid THEN IncFlag(flag[r][b]) ELSE reg[r][b]]
  <2>1. row \in [Block -> 0 .. FlagMod - 1]
    BY <1>0, <1>i DEF TypeInv
  <2>2. \A b \in Block : row[b] = IF b \in grid THEN IncFlag(flag[r][b]) ELSE reg[r][b]
    OBVIOUS
  <2>3. reg' = [reg EXCEPT ![r] = row] /\ reg \in [Rank -> [Block -> 0 .. FlagMod - 1]]
    BY <1>0, <1>p DEF TypeInv
  <2> HIDE DEF row
  <2> QED BY <2>1, <2>2, <2>3
<1>3. /\ sent' \in [Rank -> [Block -> SUBSET Rank]] /\ \A b \in Block : sent'[r][b] = {}
      /\ \A q \in Rank : q # r => sent'[q] = sent[q]
  BY <1>0, <1>p DEF TypeInv
<1>4. /\ seen' \in [Rank -> [Block -> SUBSET Rank]] /\ \A b \in Block : seen'[r][b] = {}
      /\ \A q \in Rank : q # r => seen'[q] = seen[q]
  BY <1>0, <1>p DEF TypeInv
<1>5. TypeInv'
  BY <1>0, <1>k, <1>1, <1>2, <1>3, <1>4 DEF TypeInv, FlagMod
<1>s. \A x, n : Stands(x, n)' <=> Stands(x, n)
  BY <1>0 DEF Stands, FlagMod
(* The counts, before and after. *)
<1>o. ASSUME NEW q \in Rank, q # r, NEW b \in Block
      PROVE  /\ Uses(b, k[q])' = Uses(b, k[q]) /\ Barrier(q, b)' = Barrier(q, b) /\ Barrier(q, b) \in Int
             /\ pc'[q][b] = pc[q][b] /\ reg'[q][b] = reg[q][b] /\ sent'[q][b] = sent[q][b] /\ seen'[q][b] = seen[q][b]
             /\ Now(q)' = Now(q)
  <2>1. Uses(b, k[q])' = Uses(b, k[q])
    BY <1>0, <1>k, <1>o DEF Uses
  <2>2. /\ pc'[q][b] = pc[q][b] /\ reg'[q][b] = reg[q][b] /\ sent'[q][b] = sent[q][b] /\ seen'[q][b] = seen[q][b]
        /\ Now(q)' = Now(q)
    BY <1>0, <1>k, <1>1, <1>2, <1>3, <1>4, <1>o DEF Now
  <2>3. Barrier(q, b)' = Barrier(q, b) /\ Barrier(q, b) \in Int
    BY <1>0, <2>1, <2>2, BarrierType DEF Barrier
  <2> QED BY <2>1, <2>2, <2>3
<1>b. ASSUME NEW b \in Block
      PROVE  /\ Uses(b, k[r]) \in Nat /\ Barrier(r, b) = 2 * Uses(b, k[r])
             /\ b \in grid => Uses(b, k[r])' = Uses(b, k[r]) + 1 /\ Barrier(r, b)' = Barrier(r, b) + 1
             /\ b \notin grid => Uses(b, k[r])' = Uses(b, k[r]) /\ Barrier(r, b)' = Barrier(r, b)
  <2>1. Uses(b, k[r]) \in Nat
    BY <1>0, BarrierType
  <2>2. Uses(b, k[r])' = Uses(b, k[r] + 1)
    BY <1>0, <1>k DEF Uses
  <2>3. Uses(b, k[r] + 1) = Uses(b, k[r]) + (IF b \in grid THEN 1 ELSE 0)
    <3>1. PICK j \in 1 .. Len(prog) : j = k[r] + 1
      BY <1>k
    <3>2. j - 1 = k[r]
      BY <1>k, <3>1
    <3>3. Uses(b, j) = Uses(b, j - 1) + (IF b < prog[j].blocks THEN 1 ELSE 0)
      BY <1>0, UsesStep
    <3> QED BY <1>g, <3>1, <3>2, <3>3
  <2>4. Barrier(r, b) = 2 * Uses(b, k[r])
    BY <1>d DEF Barrier
  <2>5. Barrier(r, b)' = IF b \in grid THEN 2 * Uses(b, k[r])' - 1 ELSE 2 * Uses(b, k[r])'
    BY <1>1 DEF Barrier
  <2> QED BY <2>1, <2>2, <2>3, <2>4, <2>5
<1>6. ASSUME NEW q \in Rank, NEW b \in Block PROVE GridInv(q, b)'
  <2>1. CASE q # r
    <3>1. GridInv(q, b)
      BY DEF BarrierInv
    <3> QED BY <1>0, <1>k, <1>o, <2>1, <3>1 DEF GridInv
  <2>2. CASE q = r
    BY <1>0, <1>k, <1>g, <1>1, <1>3, <1>4, <2>2 DEF GridInv, Now
  <2> QED BY <2>1, <2>2
<1>7. ASSUME NEW q \in Rank, NEW b \in Block PROVE FlagInv(q, b)'
  <2>0. FlagInv(q, b)
    BY DEF BarrierInv
  <2>1. CASE q # r
    BY <1>0, <1>s, <1>o, <2>0, <2>1 DEF FlagInv
  <2>2. CASE q = r /\ b \notin grid
    BY <1>0, <1>s, <1>b, <1>d, <1>1, <1>2, <2>0, <2>2 DEF FlagInv
  <2>3. CASE q = r /\ b \in grid
    <3>1. Stands(flag[r][b], Barrier(r, b)) /\ Barrier(r, b) \in Int
      BY <1>0, <1>d, <2>0, <2>3, BarrierType DEF FlagInv
    <3>2. PICK n \in Int : n = Barrier(r, b)
      BY <3>1
    <3>3. Stands(IncFlag(flag[r][b]), Barrier(r, b) + 1)
      BY <1>f, <3>1, <3>2, StandsNext
    <3>4. Barrier(r, b)' = Barrier(r, b) + 1 /\ Barrier(r, b)' - 1 = Barrier(r, b)
      BY <1>b, <2>3, <3>1
    <3>5. reg'[r][b] = IncFlag(flag[r][b]) /\ pc'[r][b] = "start"
      BY <1>1, <1>2, <2>3
    <3> QED BY <1>0, <1>s, <2>3, <3>1, <3>3, <3>4, <3>5 DEF FlagInv
  <2> QED BY <2>1, <2>2, <2>3
<1>8. ASSUME NEW s \in Rank, NEW b \in Block, NEW q \in Rank PROVE CounterInv(s, b, q)'
  <2>0. CounterInv(s, b, q)
    BY DEF BarrierInv
  <2>1. CASE s # r
    BY <1>0, <1>s, <1>o, <2>0, <2>1 DEF CounterInv
  <2>2. CASE s = r /\ b \notin grid
    BY <1>0, <1>s, <1>b, <1>d, <1>1, <2>0, <2>2 DEF CounterInv
  <2>3. CASE s = r /\ b \in grid
    <3>1. Stands(counter[q]["end"][b][r], 2 * Uses(b, k[r]))
      BY <1>d, <2>0, <2>3 DEF CounterInv
    <3>2. 2 * Uses(b, k[r])' - 2 = 2 * Uses(b, k[r])
      BY <1>b, <2>3
    <3> QED BY <1>0, <1>s, <1>1, <1>3, <2>3, <3>1, <3>2 DEF CounterInv
  <2> QED BY <2>1, <2>2, <2>3
<1>9. ASSUME NEW s \in Rank, NEW b \in Block, NEW q \in Rank PROVE LeadInv(s, b, q)'
  <2>0. LeadInv(s, b, q) /\ Barrier(s, b) \in Int /\ Barrier(q, b) \in Int
    BY <1>0, BarrierType DEF BarrierInv
  <2>1. \A t \in Rank : Barrier(t, b)' >= Barrier(t, b) /\ Barrier(t, b)' \in Int
    <3> SUFFICES ASSUME NEW t \in Rank PROVE Barrier(t, b)' >= Barrier(t, b) /\ Barrier(t, b)' \in Int
      OBVIOUS
    <3>1. Barrier(t, b) \in Int
      BY <1>0, BarrierType
    <3>2. CASE t = r
      BY <1>b, <3>1, <3>2
    <3>3. CASE t # r
      BY <1>o, <3>1, <3>3
    <3> QED BY <3>2, <3>3
  <2>2. CASE s = q
    BY <2>1, <2>2 DEF LeadInv
  <2>3. CASE s # r
    <3>1. Barrier(s, b)' = Barrier(s, b) /\ pc'[s][b] = pc[s][b] /\ seen'[s][b] = seen[s][b]
      BY <1>o, <2>3
    <3> QED BY <2>0, <2>1, <3>1 DEF LeadInv
  <2>4. CASE s = r /\ s # q
    <3>1. Barrier(q, b)' = Barrier(q, b) /\ Barrier(q, b) >= Barrier(r, b)
      BY <1>o, <1>d, <2>0, <2>4 DEF LeadInv
    <3>2. CASE b \in grid
      BY <1>b, <1>1, <1>4, <2>0, <2>4, <3>1, <3>2 DEF LeadInv
    <3>3. CASE b \notin grid
      BY <1>b, <1>1, <2>0, <2>4, <3>1, <3>3 DEF LeadInv
    <3> QED BY <3>2, <3>3
  <2> QED BY <2>2, <2>3, <2>4
<1>t. ASSUME NEW s \in Rank, NEW p \in Part PROVE TmpInv(s, p)'
  <2>0. TmpInv(s, p) /\ p \in Nat
    BY <1>0, ProgramFacts DEF BarrierInv, Part
  <2>1. CASE s # r
    <3>1. ASSUME k[s] > 0 PROVE p % Now(s).blocks \in Block
      <4> DEFINE n == Now(s).blocks
      <4>1. k[s] \in 1 .. Len(prog)
        BY <1>0, <3>1, BarrierType DEF TypeInv
      <4>2. n \in Nat /\ n >= 1 /\ n <= Blocks /\ Blocks \in Nat
        BY <1>0, <4>1, ProgramFacts DEF Now
      <4> HIDE DEF n
      <4>3. p % n \in 0 .. n - 1
        BY <2>0, <4>2
      <4>4. p % n \in Block
        BY <4>2, <4>3 DEF Block
      <4> QED BY <4>4 DEF n
    <3>2. k'[s] = k[s] /\ pc'[s] = pc[s] /\ Now(s)' = Now(s)
      BY <1>0, <1>k, <1>1, <2>1 DEF Now
    <3> QED BY <1>0, <2>0, <3>2 DEF TmpInv
  <2>2. CASE s = r
    <3> DEFINE n == prog[k[r] + 1].blocks
    <3>1. n \in Nat /\ n >= 1 /\ n <= Blocks /\ Blocks \in Nat
      BY <1>0, <1>k, ProgramFacts
    <3>2. p % n \in 0 .. n - 1
      <4> HIDE DEF n
      <4> QED BY <2>0, <3>1
    <3>3. p % n \in grid
      <4>1. p % n \in Block /\ p % n < n
        <5> HIDE DEF n
        <5> QED BY <3>1, <3>2 DEF Block
      <4> QED BY <1>g, <4>1
    <3>4. pc'[r][p % n] = "start" /\ Now(r)' = prog[k[r] + 1]
      <4>1. p % n \in Block
        BY <3>3 DEF grid
      <4> QED BY <1>0, <1>k, <1>1, <3>3, <4>1 DEF Now
    <3>5. ASSUME k[r] > 0, prog[k[r]].stages = 2 PROVE tmp[r][p] = k[r]
      <4> DEFINE m == Now(r).blocks
      <4>1. m \in Nat /\ m >= 1 /\ m <= Blocks
        BY <1>0, <1>k, <3>5, ProgramFacts DEF Now
      <4>2. p % m \in Block
        <5> HIDE DEF m
        <5>1. p % m \in 0 .. m - 1
          BY <2>0, <4>1
        <5> QED BY <3>1, <4>1, <5>1 DEF Block
      <4> QED BY <1>d, <2>0, <2>2, <3>5, <4>2 DEF TmpInv, Now
    <3>6. k'[r] - 1 = k[r] /\ k'[r] = k[r] + 1
      BY <1>k
    <3>7. TmpInv(r, p)' <=>
            (k'[r] > 0 =>
               LET b == p % n
               IN  /\ Now(r)'.stages = 2 /\ pc'[r][b] \in {"end", "gather", "done"} => tmp'[r][p] = k'[r]
                   /\ pc'[r][b] = "start" /\ k'[r] > 1 /\ prog[k[r]].stages = 2 => tmp'[r][p] = k[r])
      BY <1>0, <3>4, <3>6 DEF TmpInv
    <3>8. k'[r] > 1 => k[r] > 0
      BY <1>k
    <3> HIDE DEF n
    <3> QED BY <1>0, <2>2, <3>4, <3>5, <3>7, <3>8
  <2> QED BY <2>1, <2>2
<1> QED BY <1>5, <1>6, <1>7, <1>8, <1>9, <1>t DEF BarrierInv

LEMMA BarrierInit ==
    ASSUME Init PROVE BarrierInv
<1>1. build \in Builds /\ prog \in Programs /\ prog \in Seq(Kernel) /\ FlagMod \in Nat /\ FlagMod >= 1
  BY AllreduceAssumption DEF Init, FlagMod
<1>2. TypeInv
  <2>1. 0 \in 0 .. FlagMod - 1 /\ Len(prog) \in Nat /\ 0 \in 0 .. Len(prog)
    BY <1>1
  <2>2. /\ k \in [Rank -> 0 .. Len(prog)] /\ input = k
        /\ pc \in [Rank -> [Block -> {"start", "reduce", "end", "gather", "done"}]]
    BY <2>1 DEF Init, PerBlock, Torn
  <2>3. /\ reg \in [Rank -> [Block -> 0 .. FlagMod - 1]] /\ flag \in [Rank -> [Block -> 0 .. FlagMod - 1]]
        /\ sent \in [Rank -> [Block -> SUBSET Rank]] /\ seen \in [Rank -> [Block -> SUBSET Rank]]
    BY <2>1 DEF Init, PerBlock
  <2>4. counter \in [Rank -> [{"start", "end"} -> [Block -> [Rank -> Nat]]]]
    BY DEF Init
  <2>5. tmp \in [Rank -> [Part -> Nat]]
    BY DEF Init, Torn
  <2> QED BY <1>1, <2>2, <2>3, <2>4, <2>5 DEF TypeInv
<1>3. Stands(0, 0)
  <2> DEFINE f == FlagMod
  <2>1. f \in Nat /\ f >= 1
    BY <1>1
  <2>2. Stands(0, 0) <=> 0 \in 0 .. f - 1 /\ \E d \in Nat : 0 = 0 + f * d
    BY DEF Stands
  <2> HIDE DEF f
  <2>3. 0 = 0 + f * 0
    BY <2>1
  <2> QED BY <2>1, <2>2, <2>3
<1>4. ASSUME NEW r \in Rank, NEW b \in Block
      PROVE  /\ k[r] = 0 /\ pc[r][b] = "done" /\ reg[r][b] = 0 /\ flag[r][b] = 0 /\ seen[r][b] = {} /\ sent[r][b] = {}
             /\ \A q \in Rank : counter[r]["start"][b][q] = 0 /\ counter[r]["end"][b][q] = 0
             /\ Uses(b, k[r]) = 0 /\ Barrier(r, b) = 0
  <2>1. /\ k[r] = 0 /\ pc[r][b] = "done" /\ reg[r][b] = 0 /\ flag[r][b] = 0 /\ seen[r][b] = {} /\ sent[r][b] = {}
        /\ \A q \in Rank : counter[r]["start"][b][q] = 0 /\ counter[r]["end"][b][q] = 0
    BY DEF Init, PerBlock
  <2>2. 0 \in 0 .. Len(prog)
    BY <1>2, ProgramFacts
  <2>3. Uses(b, k[r]) = 0
    BY <1>2, <2>1, <2>2, UsesFacts
  <2> QED BY <2>1, <2>3 DEF Barrier
<1>5. \A r \in Rank, b \in Block : GridInv(r, b) /\ FlagInv(r, b)
  BY <1>3, <1>4 DEF GridInv, FlagInv
<1>6. \A r, q \in Rank, b \in Block : CounterInv(r, b, q) /\ LeadInv(r, b, q)
  BY <1>3, <1>4 DEF CounterInv, LeadInv
<1>7. \A r \in Rank, p \in Part : TmpInv(r, p)
  BY DEF TmpInv, Init
<1> QED BY <1>2, <1>5, <1>6, <1>7 DEF BarrierInv

LEMMA BarrierStutter ==
    ASSUME BarrierInv, UNCHANGED vars PROVE BarrierInv'
<1>0. prog' = prog /\ build' = build /\ k' = k /\ input' = input /\ reg' = reg /\ counter' = counter /\ pc' = pc
      /\ sent' = sent /\ seen' = seen /\ tmp' = tmp /\ flag' = flag
  BY DEF program, signal, vars
<1>1. TypeInv'
  BY <1>0 DEF TypeInv, FlagMod, BarrierInv
<1>u. \A c, j : Uses(c, j)' = Uses(c, j)
  BY <1>0 DEF Uses
<1>s. \A x, n : Stands(x, n)' <=> Stands(x, n)
  BY <1>0 DEF Stands, FlagMod
<1>2. ASSUME NEW r \in Rank, NEW b \in Block
      PROVE  Uses(b, k[r])' = Uses(b, k[r]) /\ Barrier(r, b)' = Barrier(r, b)
  <2>1. Uses(b, k[r])' = Uses(b, k[r])
    BY <1>0 DEF Uses
  <2> QED BY <1>0, <2>1 DEF Barrier
<1>3. ASSUME NEW r \in Rank, NEW b \in Block PROVE GridInv(r, b)' /\ FlagInv(r, b)'
  <2>1. GridInv(r, b) /\ FlagInv(r, b)
    BY DEF BarrierInv
  <2> QED BY <1>0, <1>s, <1>2, <2>1 DEF GridInv, FlagInv, Now
<1>4. ASSUME NEW r \in Rank, NEW b \in Block, NEW q \in Rank PROVE CounterInv(r, b, q)' /\ LeadInv(r, b, q)'
  <2>1. CounterInv(r, b, q) /\ LeadInv(r, b, q)
    BY DEF BarrierInv
  <2> QED BY <1>0, <1>s, <1>2, <2>1 DEF CounterInv, LeadInv
<1>5. \A r \in Rank, p \in Part : TmpInv(r, p)'
  BY <1>0, TmpFrame DEF program
<1> QED BY <1>1, <1>3, <1>4, <1>5 DEF BarrierInv

LEMMA BarrierNext ==
    ASSUME BarrierInv, FlagsDistinct, [Next]_vars PROVE BarrierInv'
<1>1. CASE UNCHANGED vars
  BY <1>1, BarrierStutter
<1>2. CASE Next
  <2>1. PICK r \in Rank : Launch(r) \/ \E b \in Block : BlockStep(r, b)
    BY <1>2 DEF Next
  <2>2. CASE Launch(r)
    BY <2>2, LaunchStep
  <2>3. CASE \E b \in Block : BlockStep(r, b)
    <3>1. PICK b \in Block : BlockStep(r, b)
      BY <2>3
    <3>2. CASE \E i \in Rank : StoreFlag(r, b, i)
      BY <3>2, StoreFlagStep
    <3>3. CASE \E i \in Rank : SeeFlag(r, b, i)
      BY <3>3, SeeFlagStep
    <3>4. CASE LeaveStart(r, b)
      BY <3>4, LeaveStartStep
    <3>5. CASE EnterEnd(r, b)
      BY <3>5, EnterEndStep
    <3>6. CASE UpdateFinalFlag(r, b) \/ LeaveFinal(r, b) \/ LeaveEnd(r, b) \/ EndGather(r, b)
      BY <3>6, EndingSteps
    <3> QED BY <3>1, <3>2, <3>3, <3>4, <3>5, <3>6 DEF BlockStep
  <2> QED BY <2>1, <2>2, <2>3
<1> QED BY <1>1, <1>2
----------------------------------------------------------------------------
(* What the invariant is for. *)

(* A GPU whose block has passed a barrier of this kernel finds no peer behind. *)
LEMMA NoPeerBehind ==
    ASSUME BarrierInv, NEW r \in Rank, NEW b \in Block, NEW q \in Rank, pc[r][b] \in {"reduce", "gather"}
    PROVE  /\ k[q] >= k[r] /\ k[q] \in Nat /\ k[r] \in Nat /\ k[r] > 0
           /\ Uses(b, k[q]) >= Uses(b, k[r]) /\ Barrier(q, b) >= Barrier(r, b)
<1>0. TypeInv /\ GridInv(r, b) /\ LeadInv(r, b, q)
  BY DEF BarrierInv
<1>1. /\ k[q] \in Nat /\ k[r] \in Nat /\ k[q] \in 0 .. Len(prog) /\ k[r] \in 0 .. Len(prog)
      /\ Uses(b, k[q]) \in Nat /\ Uses(b, k[r]) \in Nat
  BY <1>0, BarrierType
<1>2. Uses(b, k[r]) = Uses(b, k[r] - 1) + 1 /\ k[r] - 1 \in 0 .. Len(prog) /\ k[r] > 0
  BY <1>0, RunningUses DEF GridInv
<1>3. Barrier(q, b) >= Barrier(r, b)
  BY <1>0 DEF LeadInv
<1>4. Uses(b, k[q]) >= Uses(b, k[r])
  BY <1>1, <1>3 DEF Barrier
<1>5. k[q] >= k[r]
  <2> SUFFICES ASSUME k[q] < k[r] PROVE FALSE
    BY <1>1
  <2>1. k[q] <= k[r] - 1
    BY <1>1
  <2>2. PICK i \in 0 .. Len(prog) : i = k[q]
    BY <1>1
  <2>3. PICK j \in 0 .. Len(prog) : j = k[r] - 1
    BY <1>2
  <2>4. Uses(b, k[q]) <= Uses(b, k[r] - 1) /\ Uses(b, k[r] - 1) \in Nat
    BY <1>0, <2>1, <2>2, <2>3, UsesMonotone, UsesFacts
  <2> QED BY <1>1, <1>2, <1>4, <2>4
<1> QED BY <1>1, <1>2, <1>3, <1>4, <1>5

LEMMA InputIsStable ==
    ASSUME BarrierInv PROVE InputStable
<1> SUFFICES ASSUME NEW r \in Rank, NEW b \in Block, pc[r][b] = "reduce", NEW q \in Rank
             PROVE  input[q] = k[r]
  BY DEF InputStable
<1>0. TypeInv /\ GridInv(q, b) /\ LeadInv(q, b, r) /\ input = k
  BY DEF BarrierInv, TypeInv
<1>1. /\ k[q] >= k[r] /\ k[q] \in Nat /\ k[r] \in Nat /\ Uses(b, k[q]) >= Uses(b, k[r])
  BY NoPeerBehind
<1>2. /\ Uses(b, k[q]) \in Nat /\ Uses(b, k[r]) \in Nat /\ k[r] \in 0 .. Len(prog)
      /\ Barrier(r, b) = 2 * Uses(b, k[r]) - 1
  BY <1>0, BarrierType DEF Barrier
<1> SUFFICES ASSUME k[q] > k[r] PROVE FALSE
  BY <1>0, <1>1
<1>3. CASE pc[q][b] = "done"
  <2>1. Barrier(q, b) = 2 * Uses(b, k[q]) /\ Barrier(r, b) >= Barrier(q, b)
    BY <1>0, <1>3 DEF Barrier, LeadInv
  <2> QED BY <1>1, <1>2, <2>1
<1>4. CASE pc[q][b] # "done"
  <2>1. Uses(b, k[q]) = Uses(b, k[q] - 1) + 1 /\ k[q] - 1 \in 0 .. Len(prog) /\ k[r] <= k[q] - 1
    BY <1>0, <1>1, <1>4, RunningUses
  <2>2. PICK i \in 0 .. Len(prog) : i = k[r]
    BY <1>2
  <2>3. PICK j \in 0 .. Len(prog) : j = k[q] - 1
    BY <2>1
  <2>4. Uses(b, k[r]) <= Uses(b, k[q] - 1) /\ Uses(b, k[q] - 1) \in Nat
    BY <1>0, <2>1, <2>2, <2>3, UsesMonotone, UsesFacts
  <2>5. Uses(b, k[q]) >= Uses(b, k[r]) + 1
    BY <1>2, <2>1, <2>4
  <2>6. Barrier(q, b) <= Barrier(r, b) + 1 /\ Barrier(q, b) >= 2 * Uses(b, k[q]) - 1
    <3>1. Barrier(q, b) \in {2 * Uses(b, k[q]) - 1, 2 * Uses(b, k[q])} /\ Barrier(r, b) >= Barrier(q, b) - 1
      BY <1>0 DEF Barrier, LeadInv
    <3> QED BY <1>2, <3>1
  <2>7. Barrier(q, b) \in Int
    BY <1>0, BarrierType
  <2> QED BY <1>2, <2>5, <2>6, <2>7
<1> QED BY <1>3, <1>4

LEMMA TmpIsStable ==
    ASSUME BarrierInv PROVE TmpStable
<1> SUFFICES ASSUME NEW r \in Rank, NEW b \in Block, pc[r][b] = "gather", NEW q \in Rank,
                    NEW p \in PartsOf(r, b)
             PROVE  tmp[q][p] = k[r]
  BY DEF TmpStable
<1>0. TypeInv /\ GridInv(r, b) /\ p \in Part /\ p % Now(r).blocks = b /\ TmpInv(q, p) /\ Now(r).stages = 2
  BY DEF BarrierInv, PartsOf, GridInv
<1>1. /\ k[q] >= k[r] /\ k[q] \in Nat /\ k[r] \in Nat /\ k[r] > 0
      /\ Barrier(q, b) >= Barrier(r, b)
  BY NoPeerBehind
<1>2. k[q] \in 1 .. Len(prog) /\ k[r] \in 1 .. Len(prog) /\ Len(prog) \in Nat
  <2>1. k[q] \in 0 .. Len(prog) /\ k[r] \in 0 .. Len(prog) /\ Len(prog) \in Nat
    BY <1>0, ProgramFacts DEF TypeInv
  <2> QED BY <1>1, <2>1
<1>3. CASE k[q] = k[r]
  <2>1. Uses(b, k[r]) \in Nat /\ Barrier(r, b) = 2 * Uses(b, k[r])
    BY <1>0, BarrierType DEF Barrier
  <2>2. pc[q][b] \notin {"start", "reduce"}
    <3> SUFFICES ASSUME pc[q][b] \in {"start", "reduce"} PROVE FALSE
      OBVIOUS
    <3>1. Barrier(q, b) = 2 * Uses(b, k[r]) - 1
      BY <1>3 DEF Barrier
    <3> QED BY <1>1, <2>1, <3>1
  <2>3. pc[q][b] \in {"end", "gather", "done"}
    BY <1>0, <2>2 DEF TypeInv
  <2>4. Now(q) = Now(r)
    BY <1>3 DEF Now
  <2> QED BY <1>0, <1>1, <1>3, <2>3, <2>4 DEF TmpInv
<1>4. CASE k[q] > k[r]
  <2> DEFINE c == p % Now(q).blocks
             u == Uses(c, k[r])
  <2>1. c \in Block /\ c < Now(q).blocks
    <3> DEFINE n == Now(q).blocks
    <3>1. n \in Nat /\ n >= 1 /\ n <= Blocks /\ Blocks \in Nat /\ p \in Nat
      BY <1>0, <1>2, ProgramFacts DEF Now, Part
    <3> HIDE DEF n
    <3>2. p % n \in 0 .. n - 1
      BY <3>1
    <3>3. p % n \in Block /\ p % n < n
      BY <3>1, <3>2 DEF Block
    <3> QED BY <3>3 DEF n
  (* Block 0, which every kernel has, shows that the peer is one kernel ahead. *)
  <2>2. k[q] = k[r] + 1
    <3>1. 0 \in Block /\ LeadInv(q, 0, r)
      BY <1>0, ProgramFacts DEF BarrierInv
    <3>2. Uses(0, k[q]) = k[q] /\ Uses(0, k[r]) = k[r]
      <4>1. k[q] \in 0 .. Len(prog) /\ k[r] \in 0 .. Len(prog)
        BY <1>2
      <4> QED BY <1>0, <4>1, UsesZero
    <3>3. /\ Barrier(q, 0) \in {2 * k[q] - 1, 2 * k[q]} /\ Barrier(r, 0) \in {2 * k[r] - 1, 2 * k[r]}
          /\ Barrier(r, 0) >= Barrier(q, 0) - 1
      BY <3>1, <3>2 DEF Barrier, LeadInv
    <3> QED BY <1>1, <1>4, <3>3
  <2>3. Uses(c, k[q]) = u + 1 /\ u \in Nat
    <3>1. PICK j \in 1 .. Len(prog) : j = k[q]
      BY <1>2
    <3>2. j - 1 = k[r]
      BY <1>1, <2>2, <3>1
    <3>3. Uses(c, j) = Uses(c, j - 1) + (IF c < prog[j].blocks THEN 1 ELSE 0)
      BY <1>0, <2>1, UsesStep
    <3>4. c < prog[j].blocks
      BY <2>1, <3>1 DEF Now
    <3>5. u \in Nat
      BY <1>0, <2>1, BarrierType
    <3> HIDE DEF c
    <3> QED BY <3>1, <3>2, <3>3, <3>4, <3>5
  <2>4. LeadInv(q, c, r)
    BY <2>1 DEF BarrierInv
  <2>5. pc[q][c] = "start"
    <3>1. /\ Barrier(r, c) \in {2 * u - 1, 2 * u} /\ Barrier(r, c) >= Barrier(q, c) - 1
          /\ pc[q][c] \in {"start", "reduce"} => Barrier(q, c) = 2 * Uses(c, k[q]) - 1
          /\ pc[q][c] \notin {"start", "reduce"} => Barrier(q, c) = 2 * Uses(c, k[q])
          /\ pc[q][c] = "reduce" => Barrier(r, c) >= Barrier(q, c)
      BY <2>4 DEF Barrier, LeadInv
    <3> HIDE DEF c, u
    <3> QED BY <2>3, <3>1
  <2>6. k[q] > 1 /\ k[q] - 1 = k[r] /\ k[q] > 0
    BY <1>1, <2>2
  <2>7. prog[k[q] - 1].stages = 2
    BY <1>0, <2>6 DEF Now
  <2> QED BY <1>0, <2>5, <2>6, <2>7 DEF TmpInv
<1> QED BY <1>1, <1>3, <1>4

(* What a kernel reads of its peers, inputs or parts of the temporary buffer, is
   of this kernel (cross_device_reduce_1stage, _2stage, barrier_at_start and
   barrier_at_end), for any number of GPUs and blocks and any sequence of
   kernels and grids, if flags can be told apart. *)
THEOREM BuffersAreStable ==
    ASSUME FlagsDistinct PROVE Spec => []BuffersStable
<1>1. Init => BarrierInv
  BY BarrierInit
<1>2. BarrierInv /\ [Next]_vars => BarrierInv'
  BY BarrierNext
<1>3. BarrierInv => BuffersStable
  <2> SUFFICES ASSUME BarrierInv PROVE TypeOK
    BY InputIsStable, TmpIsStable DEF BuffersStable
  <2>1. TypeInv /\ \A r \in Rank, b \in Block : seen[r][b] \subseteq sent[r][b]
    BY DEF BarrierInv, GridInv
  <2> QED BY <2>1 DEF TypeOK, TypeInv
<1> QED BY <1>1, <1>2, <1>3, PTL DEF Spec

-----------------------------------------------------------------------------
(* The Lamport kernels *)

(* The stage of operation j. *)
StageOf(j) == (j + 2) % 3

Grid(r) == {c \in Lamport!Cta : c < Lamport!gridDim(Lamport!Now(r))}
Places == {"publish", "arrive", "clear", "wait", "update", "exit"}

LamportTypeInv ==
    /\ lprog \in LamportPrograms
    /\ lop \in [Lamport!Rank -> 0 .. Len(lprog)]
    /\ lpc \in [Lamport!Rank -> [Lamport!Cta -> Places]]
    /\ lstage \in [Lamport!Rank -> [Lamport!Cta -> Lamport!Stage]] /\ ldirty \in [Lamport!Rank -> [Lamport!Cta -> Nat]]
    /\ lepoch \in [Lamport!Rank -> Lamport!Stage] /\ larrived \in [Lamport!Rank -> Nat] /\ lused \in [Lamport!Rank -> [Lamport!Stage -> Nat]]
    /\ DOMAIN lflight = Lamport!Rank /\ DOMAIN lbuf = Lamport!Rank
    /\ \A r \in Lamport!Rank : DOMAIN lbuf[r] = Lamport!Stage /\ \A s \in Lamport!Stage : DOMAIN lbuf[r][s] = Lamport!Cell

(* Only blocks of the grid run, and they work in the stage of their operation. *)
BlockInv(r, c) ==
    /\ lpc[r][c] # "exit" => lop[r] > 0 /\ c < Lamport!gridDim(Lamport!Now(r))
    /\ lpc[r][c] = "update" => c = 0
    /\ lpc[r][c] \notin {"publish", "exit"} =>
         /\ lstage[r][c] = StageOf(lop[r])
         /\ ldirty[r][c] = IF lop[r] = 1 THEN 0 ELSE Lamport!WrittenCells(lprog[lop[r] - 1])

(* The epoch is of this operation until its block 0 has seen all blocks arrive,
   and then of the next one; the cells written by the last operation that has
   updated the epoch are on record. *)
EpochInv(r) ==
    LET open == lpc[r][0] # "exit"
        last == IF open THEN lop[r] - 1 ELSE lop[r]
    IN  /\ lepoch[r] = StageOf(last + 1)
        /\ lused[r][StageOf(last)] = IF last = 0 THEN 0 ELSE Lamport!WrittenCells(lprog[last])
        /\ larrived[r] = IF open THEN Cardinality({c \in Grid(r) : lpc[r][c] \notin {"publish", "arrive"}}) ELSE 0
        /\ ~open => \A c \in Lamport!Cta : lpc[r][c] \notin {"publish", "arrive"}

(* A store on its way is of a block that has published. *)
FlightInv(q) ==
    \A w \in lflight[q] :
        /\ lop[q] > 0
        /\ \E c \in Grid(q) :
              /\ lpc[q][c] # "publish" /\ w.to \in Lamport!Dst(q, c)
              /\ w = [to |-> w.to, stage |-> StageOf(lop[q]), cell |-> Lamport!CellOf(q, c, q),
                      value |-> [op |-> lop[q], src |-> q, idx |-> Lamport!Idx(q, c), bits |-> "other"]]

(* The pack for cell i of r has left q and has landed. *)
Delivered(q, r, i) ==
    /\ \A c \in Lamport!Cta : lpc[q][c] = "publish" /\ r \in Lamport!Dst(q, c) => Lamport!CellOf(q, c, q) # i
    /\ \A w \in lflight[q] : w.to = r => w.cell # i

(* No GPU is more than one operation ahead of another one, and one that is
   ahead has got everything the other one had to send. *)
OrderInv(r, q) ==
    /\ lop[q] >= lop[r] - 1
    /\ lop[q] = lop[r] - 1 =>
         /\ \A c \in Lamport!Cta : lpc[q][c] = "publish" => r \notin Lamport!Dst(q, c)
         /\ \A w \in lflight[q] : w.to # r

(* A block that has waited has what its peers had to send to it. *)
WaitedInv(r, c, q) ==
    lop[r] > 0 /\ c < Lamport!gridDim(Lamport!Now(r)) /\ lpc[r][c] \in {"update", "exit"} /\ q \in Lamport!Src(r, c) =>
        /\ lop[q] >= lop[r]
        /\ lop[q] = lop[r] => Delivered(q, r, Lamport!CellOf(r, c, q))

(* A cell is empty, or holds a pack of this operation, of the next one, or of
   the one before as long as it is to be cleared; what it holds is delivered. *)
CellInv(r, s, i) ==
    LET v == lbuf[r][s][i]
    IN  \/ v = Lamport!lamport_sentinel
        \/ /\ v.bits = "other" /\ v.src \in Lamport!Rank /\ v.op \in Nat /\ v.op > 0 /\ v.op <= lop[v.src]
           /\ v.op >= lop[r] - 1 /\ s = StageOf(v.op)
           /\ v.idx \in Nat /\ v.idx < lprog[v.op].size /\ i = v.src * lprog[v.op].size + v.idx
           /\ v.op = lop[r] - 1 => lpc[r][i % Lamport!gridDim(Lamport!Now(r))] \in {"publish", "arrive", "clear"}
           /\ v.op = lop[v.src] => Delivered(v.src, r, i)

LamportInv ==
    /\ LamportTypeInv
    /\ \A r \in Lamport!Rank : EpochInv(r) /\ FlightInv(r)
    /\ \A r \in Lamport!Rank, c \in Lamport!Cta : BlockInv(r, c)
    /\ \A r, q \in Lamport!Rank : OrderInv(r, q)
    /\ \A r, q \in Lamport!Rank, c \in Lamport!Cta : WaitedInv(r, c, q)
    /\ \A r \in Lamport!Rank, s \in Lamport!Stage, i \in Lamport!Cell : CellInv(r, s, i)
----------------------------------------------------------------------------
(* Stages, cells and blocks. *)

LEMMA StageFacts ==
    ASSUME NEW j \in Nat
    PROVE  /\ StageOf(j) \in Lamport!Stage
           /\ Lamport!mnnvl_lamport_dirty_stage(StageOf(j + 1)) = StageOf(j)
           /\ Lamport!mnnvl_lamport_next_stage(StageOf(j)) = StageOf(j + 1)
BY DEF StageOf, Lamport!Stage, Lamport!mnnvl_lamport_dirty_stage, Lamport!mnnvl_lamport_next_stage

(* Three operations in a row have different stages. *)
LEMMA StageApart ==
    ASSUME NEW i \in Nat, NEW j \in Nat, StageOf(i) = StageOf(j), i <= j, j <= i + 2
    PROVE  i = j
BY DEF StageOf

LEMMA CellUnique ==
    ASSUME NEW n \in Nat, NEW a \in Nat, NEW b \in Nat, NEW x \in Nat, NEW y \in Nat,
           x < n, y < n, a * n + x = b * n + y
    PROVE  a = b /\ x = y
<1>1. ~(a < b)
  <2> SUFFICES ASSUME a < b PROVE FALSE
    OBVIOUS
  <2>1. (a + 1) * n <= b * n
    BY DEF Nat
  <2>2. (a + 1) * n = a * n + n /\ a * n \in Nat /\ b * n \in Nat
    OBVIOUS
  <2> QED BY <2>1, <2>2
<1>2. ~(b < a)
  <2> SUFFICES ASSUME b < a PROVE FALSE
    OBVIOUS
  <2>1. (b + 1) * n <= a * n
    BY DEF Nat
  <2>2. (b + 1) * n = b * n + n /\ a * n \in Nat /\ b * n \in Nat
    OBVIOUS
  <2> QED BY <2>1, <2>2
<1>3. a = b
  BY <1>1, <1>2
<1>4. a * n \in Nat
  OBVIOUS
<1> QED BY <1>3, <1>4

LEMMA CellBound ==
    ASSUME NEW n \in Nat, NEW m \in Nat, NEW a \in Nat, NEW x \in Nat, x < n, a < m
    PROVE  a * n + x \in Nat /\ a * n + x < m * n
<1>1. (a + 1) * n <= m * n /\ (a + 1) * n = a * n + n /\ a * n \in Nat /\ m * n \in Nat
  OBVIOUS
<1> QED BY <1>1

LEMMA BlockUnique ==
    ASSUME NEW n \in Nat, n > 0, NEW c \in Nat, NEW d \in Nat, c % n = d % n, c \div n = d \div n
    PROVE  c = d
<1>1. c = n * (c \div n) + (c % n) /\ d = n * (d \div n) + (d % n)
  OBVIOUS
<1> QED BY <1>1

LEMMA DivBound ==
    ASSUME NEW n \in Nat, n > 0, NEW m \in Nat, NEW c \in Nat, c < n * m
    PROVE  c \div n \in Nat /\ c \div n < m
<1>1. c = n * (c \div n) + (c % n) /\ c % n \in 0 .. n - 1 /\ c \div n \in Nat
  OBVIOUS
<1> DEFINE q == c \div n
           x == c % n
<1>2. c = n * q + x /\ x \in Nat /\ q \in Nat
  BY <1>1
<1> HIDE DEF q, x
<1>3. ~(q >= m)
  <2> SUFFICES ASSUME q >= m PROVE FALSE
    OBVIOUS
  <2>1. n * q >= n * m /\ n * q \in Nat /\ n * m \in Nat
    BY <1>2
  <2> QED BY <1>2, <2>1
<1> QED BY <1>2, <1>3 DEF q

LEMMA LamportProgramFacts ==
    ASSUME Lamport!LamportAssumption, LamportTypeInv
    PROVE  /\ N \in Nat /\ N >= 2 /\ MaxSize \in Nat /\ MaxSize >= 1 /\ Len(lprog) \in Nat
           /\ Lamport!Rank \subseteq Nat /\ Lamport!Cta \subseteq Nat /\ 0 \in Lamport!Cta /\ 0 \in Lamport!Rank
           /\ \A j \in 1 .. Len(lprog) :
                /\ lprog[j].kind \in {"allgather", "reducescatter"}
                /\ lprog[j].size \in Nat /\ lprog[j].size >= 1 /\ lprog[j].size <= MaxSize
<1>1. lprog \in Seq(Lamport!Operation(0 .. N - 1)) /\ N \in Nat /\ N >= 2 /\ MaxSize \in Nat /\ MaxSize >= 1
  BY DEF Lamport!LamportAssumption, LamportTypeInv
<1>2. Len(lprog) \in Nat /\ \A j \in 1 .. Len(lprog) : lprog[j] \in Lamport!Operation(0 .. N - 1)
  BY <1>1
<1>3. \A j \in 1 .. Len(lprog) :
         /\ lprog[j].kind \in {"allgather", "reducescatter"}
         /\ lprog[j].size \in Nat /\ lprog[j].size >= 1 /\ lprog[j].size <= MaxSize
  BY <1>1, <1>2 DEF Lamport!Operation
<1>4. N * MaxSize \in Nat /\ N * MaxSize >= 1
  BY <1>1
<1> QED BY <1>1, <1>2, <1>3, <1>4 DEF Lamport!Rank, Lamport!Cta

(* A kernel has at least one block, and no more than there are blocks. *)
LEMMA GridFacts ==
    ASSUME Lamport!LamportAssumption, LamportTypeInv, NEW j \in 1 .. Len(lprog)
    PROVE  /\ Lamport!gridDim(lprog[j]) \in Nat /\ Lamport!gridDim(lprog[j]) >= 1
           /\ \A c \in Nat : c < Lamport!gridDim(lprog[j]) => c \in Lamport!Cta
           /\ Lamport!WrittenCells(lprog[j]) \in Nat /\ Lamport!WrittenCells(lprog[j]) = N * lprog[j].size
<1> DEFINE z == lprog[j].size
<1>1. z \in Nat /\ z >= 1 /\ z <= MaxSize /\ N \in Nat /\ N >= 2 /\ MaxSize \in Nat
  BY LamportProgramFacts
<1>2. Lamport!gridDim(lprog[j]) \in {z, N * z} /\ Lamport!WrittenCells(lprog[j]) = N * z
  BY DEF Lamport!gridDim, Lamport!WrittenCells
<1> HIDE DEF z
<1>3. N * z \in Nat /\ N * z >= 1 /\ N * z <= N * MaxSize /\ z <= N * MaxSize /\ N * MaxSize \in Nat
  BY <1>1
<1>4. Lamport!gridDim(lprog[j]) \in Nat /\ Lamport!gridDim(lprog[j]) >= 1 /\ Lamport!gridDim(lprog[j]) <= N * MaxSize
  BY <1>1, <1>2, <1>3
<1>5. \A c \in Nat : c < Lamport!gridDim(lprog[j]) => c \in Lamport!Cta
  BY <1>3, <1>4 DEF Lamport!Cta
<1> QED BY <1>2, <1>3, <1>4, <1>5 DEF z

LEMMA OpFacts ==
    ASSUME Lamport!LamportAssumption, LamportTypeInv, NEW r \in Lamport!Rank, lop[r] > 0
    PROVE  /\ lop[r] \in 1 .. Len(lprog) /\ Lamport!Now(r) = lprog[lop[r]]
           /\ Lamport!Now(r).kind \in {"allgather", "reducescatter"}
           /\ Lamport!Now(r).size \in Nat /\ Lamport!Now(r).size >= 1 /\ Lamport!Now(r).size <= MaxSize
           /\ Lamport!gridDim(Lamport!Now(r)) \in Nat /\ Lamport!gridDim(Lamport!Now(r)) >= 1
           /\ \A c \in Nat : c < Lamport!gridDim(Lamport!Now(r)) => c \in Lamport!Cta
<1>1. lop[r] \in 1 .. Len(lprog)
  <2>1. lop[r] \in 0 .. Len(lprog) /\ Len(lprog) \in Nat
    BY LamportProgramFacts DEF LamportTypeInv
  <2> QED BY <2>1
<1> QED BY <1>1, LamportProgramFacts, GridFacts DEF Lamport!Now

(* Blocks with the same number on two GPUs that run the same operation: one
   waits for what the other one sends. *)
LEMMA BlocksMatch ==
    ASSUME Lamport!LamportAssumption, LamportTypeInv, NEW r \in Lamport!Rank, NEW q \in Lamport!Rank, r # q, lop[r] = lop[q], NEW c \in Lamport!Cta
    PROVE  /\ q \in Lamport!Src(r, c) <=> r \in Lamport!Dst(q, c)
           /\ Lamport!CellOf(r, c, q) = Lamport!CellOf(q, c, q) /\ Lamport!Idx(r, c) = Lamport!Idx(q, c) /\ Lamport!Now(r) = Lamport!Now(q)
BY DEF Lamport!Src, Lamport!Dst, Lamport!CellOf, Lamport!Idx, Lamport!Now

LEMMA IdxFacts ==
    ASSUME Lamport!LamportAssumption, LamportTypeInv, NEW r \in Lamport!Rank, lop[r] > 0, NEW c \in Lamport!Cta, c < Lamport!gridDim(Lamport!Now(r))
    PROVE  Lamport!Idx(r, c) \in Nat /\ Lamport!Idx(r, c) < Lamport!Now(r).size
<1> DEFINE z == Lamport!Now(r).size
<1>1. z \in Nat /\ N \in Nat /\ N >= 2 /\ c \in Nat
  BY OpFacts, LamportProgramFacts
<1>2. CASE Lamport!Now(r).kind = "allgather"
  BY <1>1, <1>2 DEF Lamport!Idx, Lamport!gridDim
<1>3. CASE Lamport!Now(r).kind # "allgather"
  <2>1. c < N * z /\ Lamport!Idx(r, c) = c \div N
    BY <1>3 DEF Lamport!Idx, Lamport!gridDim
  <2> HIDE DEF z
  <2>2. c \div N \in Nat /\ c \div N < z
    BY <1>1, <2>1, DivBound
  <2> QED BY <2>1, <2>2 DEF z
<1> QED BY <1>2, <1>3

(* Blocks that send to one GPU write different cells. *)
LEMMA CellsDiffer ==
    ASSUME Lamport!LamportAssumption, LamportTypeInv, NEW q \in Lamport!Rank, lop[q] > 0, NEW r \in Lamport!Rank, NEW c \in Lamport!Cta, NEW d \in Lamport!Cta,
           c < Lamport!gridDim(Lamport!Now(q)), d < Lamport!gridDim(Lamport!Now(q)), r \in Lamport!Dst(q, c), r \in Lamport!Dst(q, d),
           Lamport!CellOf(q, c, q) = Lamport!CellOf(q, d, q)
    PROVE  c = d
<1>1. /\ Lamport!Idx(q, c) \in Nat /\ Lamport!Idx(q, c) < Lamport!Now(q).size /\ Lamport!Idx(q, d) \in Nat /\ Lamport!Idx(q, d) < Lamport!Now(q).size
      /\ Lamport!Now(q).size \in Nat /\ q \in Nat
  BY IdxFacts, OpFacts, LamportProgramFacts
<1>2. Lamport!Idx(q, c) = Lamport!Idx(q, d)
  <2> DEFINE n == Lamport!Now(q).size
             x == Lamport!Idx(q, c)
             y == Lamport!Idx(q, d)
  <2>1. q * n + x = q * n + y /\ x \in Nat /\ y \in Nat /\ n \in Nat /\ q \in Nat
    BY <1>1 DEF Lamport!CellOf
  <2> HIDE DEF n, x, y
  <2>2. q * n \in Nat
    BY <2>1
  <2>3. x = y
    BY <2>1, <2>2
  <2> QED BY <2>3 DEF x, y
<1>3. CASE Lamport!Now(q).kind = "allgather"
  BY <1>2, <1>3 DEF Lamport!Idx
<1>4. CASE Lamport!Now(q).kind # "allgather"
  <2>1. c % N = d % N /\ c \div N = d \div N
    BY <1>2, <1>4 DEF Lamport!Idx, Lamport!Dst
  <2>2. c \in Nat /\ d \in Nat /\ N \in Nat /\ N > 0
    BY LamportProgramFacts
  <2> QED BY <2>1, <2>2, BlockUnique
<1> QED BY <1>3, <1>4
----------------------------------------------------------------------------
(* Steps within a kernel. *)

LEMMA KernelSame ==
    ASSUME lprog' = lprog, lop' = lop
    PROVE  /\ \A q : Lamport!Now(q)' = Lamport!Now(q) /\ Grid(q)' = Grid(q)
           /\ \A q, c : Lamport!Idx(q, c)' = Lamport!Idx(q, c) /\ Lamport!Dst(q, c)' = Lamport!Dst(q, c) /\ Lamport!Src(q, c)' = Lamport!Src(q, c)
           /\ \A q, c, x : Lamport!CellOf(q, c, x)' = Lamport!CellOf(q, c, x)
BY DEF Lamport!Now, Grid, Lamport!Idx, Lamport!Dst, Lamport!Src, Lamport!CellOf

(* A step of GPU r within its kernel: what it sends is of a block that had not
   published. *)
Quiet(r) ==
    /\ lprog' = lprog /\ lop' = lop
    /\ \A q \in Lamport!Rank, c \in Lamport!Cta :
         /\ lpc'[q][c] = "publish" => lpc[q][c] = "publish"
         /\ q # r => lpc'[q][c] = lpc[q][c]
    /\ \A q \in Lamport!Rank : \A w \in lflight'[q] :
         w \in lflight[q] \/ \E c \in Lamport!Cta : lpc[q][c] = "publish" /\ w.to \in Lamport!Dst(q, c) /\ w.cell = Lamport!CellOf(q, c, q)

LEMMA DeliveredStays ==
    ASSUME NEW r \in Lamport!Rank, Quiet(r), NEW q \in Lamport!Rank, NEW s \in Lamport!Rank, NEW i, Delivered(q, s, i)
    PROVE  Delivered(q, s, i)'
<1>1. lprog' = lprog /\ lop' = lop
  BY DEF Quiet
<1>2. \A c : Lamport!Dst(q, c)' = Lamport!Dst(q, c) /\ Lamport!CellOf(q, c, q)' = Lamport!CellOf(q, c, q)
  BY <1>1, KernelSame
<1> QED BY <1>2 DEF Delivered, Quiet

LEMMA FlightStays ==
    ASSUME LamportInv, NEW r \in Lamport!Rank, Quiet(r), NEW q \in Lamport!Rank, lflight'[q] \subseteq lflight[q]
    PROVE  FlightInv(q)'
<1>z. lprog' = lprog /\ lop' = lop
  BY DEF Quiet
<1>k. /\ \A x : Lamport!Now(x)' = Lamport!Now(x) /\ Grid(x)' = Grid(x)
      /\ \A x, c : Lamport!Idx(x, c)' = Lamport!Idx(x, c) /\ Lamport!Dst(x, c)' = Lamport!Dst(x, c)
      /\ \A x, c, y : Lamport!CellOf(x, c, y)' = Lamport!CellOf(x, c, y)
  BY <1>z, KernelSame
<1> SUFFICES ASSUME NEW w \in lflight'[q]
             PROVE  /\ lop'[q] > 0
                    /\ \E c \in Grid(q)' :
                          /\ lpc'[q][c] # "publish" /\ w.to \in Lamport!Dst(q, c)'
                          /\ w = [to |-> w.to, stage |-> StageOf(lop'[q]), cell |-> Lamport!CellOf(q, c, q)',
                                  value |-> [op |-> lop'[q], src |-> q, idx |-> Lamport!Idx(q, c)', bits |-> "other"]]
  BY DEF FlightInv
<1>1. w \in lflight[q]
  OBVIOUS
<1>2. /\ lop[q] > 0
      /\ \E c \in Grid(q) :
            /\ lpc[q][c] # "publish" /\ w.to \in Lamport!Dst(q, c)
            /\ w = [to |-> w.to, stage |-> StageOf(lop[q]), cell |-> Lamport!CellOf(q, c, q),
                    value |-> [op |-> lop[q], src |-> q, idx |-> Lamport!Idx(q, c), bits |-> "other"]]
  BY <1>1 DEF LamportInv, FlightInv
<1>3. PICK c \in Grid(q) :
            /\ lpc[q][c] # "publish" /\ w.to \in Lamport!Dst(q, c)
            /\ w = [to |-> w.to, stage |-> StageOf(lop[q]), cell |-> Lamport!CellOf(q, c, q),
                    value |-> [op |-> lop[q], src |-> q, idx |-> Lamport!Idx(q, c), bits |-> "other"]]
  BY <1>2
<1>4. lpc'[q][c] # "publish" /\ c \in Grid(q)'
  BY <1>k, <1>3 DEF Quiet, Grid
<1> QED BY <1>z, <1>k, <1>2, <1>3, <1>4

LEMMA QuietStep ==
    ASSUME LamportInv, NEW r \in Lamport!Rank, Quiet(r), LamportTypeInv', EpochInv(r)',
           \A q \in Lamport!Rank : q # r => EpochInv(q)', \A q \in Lamport!Rank : FlightInv(q)',
           \A q \in Lamport!Rank, c \in Lamport!Cta : BlockInv(q, c)',
           \A c \in Lamport!Cta, q \in Lamport!Rank : WaitedInv(r, c, q)',
           \A q \in Lamport!Rank, s \in Lamport!Stage, i \in Lamport!Cell : CellInv(q, s, i)'
    PROVE  LamportInv'
<1>0. lprog' = lprog /\ lop' = lop
  BY DEF Quiet
<1>k. /\ \A q : Lamport!Now(q)' = Lamport!Now(q) /\ Grid(q)' = Grid(q)
      /\ \A q, c : Lamport!Idx(q, c)' = Lamport!Idx(q, c) /\ Lamport!Dst(q, c)' = Lamport!Dst(q, c) /\ Lamport!Src(q, c)' = Lamport!Src(q, c)
      /\ \A q, c, x : Lamport!CellOf(q, c, x)' = Lamport!CellOf(q, c, x)
  BY <1>0, KernelSame
<1>2. ASSUME NEW s \in Lamport!Rank, NEW q \in Lamport!Rank PROVE OrderInv(s, q)'
  <2>1. OrderInv(s, q)
    BY DEF LamportInv
  <2> QED BY <1>0, <1>k, <2>1 DEF OrderInv, Quiet
<1>3. ASSUME NEW s \in Lamport!Rank, NEW q \in Lamport!Rank, NEW c \in Lamport!Cta PROVE WaitedInv(s, c, q)'
  <2>1. CASE s = r
    BY <2>1
  <2>2. CASE s # r
    <3>1. WaitedInv(s, c, q) /\ lpc'[s][c] = lpc[s][c]
      BY <2>2 DEF LamportInv, Quiet
    <3>2. Delivered(q, s, Lamport!CellOf(s, c, q)) => Delivered(q, s, Lamport!CellOf(s, c, q))'
      <4>1. PICK i : i = Lamport!CellOf(s, c, q)
        OBVIOUS
      <4>2. Delivered(q, s, i) => Delivered(q, s, i)'
        BY DeliveredStays
      <4>3. Delivered(q, s, Lamport!CellOf(s, c, q))' <=> Delivered(q, s, i)'
        <5>1. Lamport!CellOf(s, c, q)' = i
          BY <1>k, <4>1
        <5> QED BY <5>1 DEF Delivered
      <4> QED BY <4>1, <4>2, <4>3
    <3> QED BY <1>0, <1>k, <3>1, <3>2 DEF WaitedInv
  <2> QED BY <2>1, <2>2
<1>4. \A q \in Lamport!Rank : EpochInv(q)'
  OBVIOUS
<1> QED BY <1>2, <1>3, <1>4 DEF LamportInv

(* What a step of GPU r leaves of the other GPUs' blocks. *)
LEMMA OtherBlocks ==
    ASSUME LamportInv, lprog' = lprog, NEW q \in Lamport!Rank, lop'[q] = lop[q], lpc'[q] = lpc[q], lstage'[q] = lstage[q],
           ldirty'[q] = ldirty[q], lepoch'[q] = lepoch[q], larrived'[q] = larrived[q], lused'[q] = lused[q]
    PROVE  EpochInv(q)' /\ \A c \in Lamport!Cta : BlockInv(q, c)'
<1>1. Lamport!Now(q)' = Lamport!Now(q) /\ Grid(q)' = Grid(q)
  BY DEF Lamport!Now, Grid
<1>2. EpochInv(q) /\ \A c \in Lamport!Cta : BlockInv(q, c)
  BY DEF LamportInv
<1>3. \A c \in Lamport!Cta : BlockInv(q, c)'
  BY <1>1, <1>2 DEF BlockInv
<1>4. EpochInv(q)'
  <2>1. {c \in Grid(q)' : lpc'[q][c] \notin {"publish", "arrive"}}
          = {c \in Grid(q) : lpc[q][c] \notin {"publish", "arrive"}}
    BY <1>1
  <2> QED BY <1>2, <2>1 DEF EpochInv
<1> QED BY <1>3, <1>4

(* A cell that is not written. *)
LEMMA CellKept ==
    ASSUME LamportInv, NEW r \in Lamport!Rank, Quiet(r), NEW q \in Lamport!Rank, NEW s \in Lamport!Stage, NEW i \in Lamport!Cell,
           lbuf'[q][s][i] = lbuf[q][s][i],
           lbuf[q][s][i] # Lamport!lamport_sentinel /\ lbuf[q][s][i].op = lop[q] - 1 =>
               lpc'[q][i % Lamport!gridDim(Lamport!Now(q))] \in {"publish", "arrive", "clear"}
    PROVE  CellInv(q, s, i)'
<1>0. lprog' = lprog /\ lop' = lop /\ LamportTypeInv /\ CellInv(q, s, i)
  BY DEF Quiet, LamportInv
<1>1. CASE lbuf[q][s][i] = Lamport!lamport_sentinel
  BY <1>1 DEF CellInv
<1>2. CASE lbuf[q][s][i] # Lamport!lamport_sentinel
  <2> DEFINE v == lbuf[q][s][i]
  <2>1. /\ v.bits = "other" /\ v.src \in Lamport!Rank /\ v.op \in Nat /\ v.op > 0 /\ v.op <= lop[v.src]
        /\ v.op >= lop[q] - 1 /\ s = StageOf(v.op)
        /\ v.idx \in Nat /\ v.idx < lprog[v.op].size /\ i = v.src * lprog[v.op].size + v.idx
        /\ v.op = lop[q] - 1 => lpc[q][i % Lamport!gridDim(Lamport!Now(q))] \in {"publish", "arrive", "clear"}
        /\ v.op = lop[v.src] => Delivered(v.src, q, i)
    BY <1>0, <1>2 DEF CellInv
  <2>2. PICK x \in Lamport!Rank : x = v.src
    BY <2>1
  <2>3. v.op = lop[v.src] => Delivered(x, q, i)'
    BY <2>1, <2>2, DeliveredStays
  <2>4. Lamport!Now(q)' = Lamport!Now(q)
    BY <1>0 DEF Lamport!Now
  <2>5. v.op = lop[q] - 1 => lpc'[q][i % Lamport!gridDim(Lamport!Now(q))] \in {"publish", "arrive", "clear"}
    BY <1>2
  <2> DEFINE ok == /\ v.bits = "other" /\ v.src \in Lamport!Rank /\ v.op \in Nat /\ v.op > 0 /\ v.op <= lop[v.src]
                   /\ v.op >= lop[q] - 1 /\ s = StageOf(v.op)
                   /\ v.idx \in Nat /\ v.idx < lprog[v.op].size /\ i = v.src * lprog[v.op].size + v.idx
  <2>6. ok
    BY <2>1
  <2>7. ok'
    BY <1>0, <2>6
  <2>8. v.op = lop[v.src] => Delivered(v.src, q, i)'
    <3>1. v' = v
      OBVIOUS
    <3>2. v'.src = x
      BY <2>2, <3>1
    <3>3. Delivered(x, q, i)' => Delivered(v.src, q, i)'
      BY <3>2 DEF Delivered
    <3> QED BY <2>3, <3>3
  <2>9. v' = v
    OBVIOUS
  <2> QED BY <1>0, <2>4, <2>5, <2>7, <2>8, <2>9 DEF CellInv
<1> QED BY <1>1, <1>2

LEMMA ClearsAt ==
    ASSUME Lamport!LamportAssumption, LamportTypeInv, NEW q \in Lamport!Rank, lop[q] > 0, NEW i \in Lamport!Cell
    PROVE  i % Lamport!gridDim(Lamport!Now(q)) \in Lamport!Cta /\ i % Lamport!gridDim(Lamport!Now(q)) < Lamport!gridDim(Lamport!Now(q))
<1>2. Lamport!gridDim(Lamport!Now(q)) \in Nat /\ Lamport!gridDim(Lamport!Now(q)) >= 1 /\ \A c \in Nat : c < Lamport!gridDim(Lamport!Now(q)) => c \in Lamport!Cta
  BY OpFacts
<1>3. i \in Nat
  BY LamportProgramFacts DEF Lamport!Cell
<1> DEFINE g == Lamport!gridDim(Lamport!Now(q))
<1> HIDE DEF g
<1>4. g \in Nat /\ g >= 1
  BY <1>2 DEF g
<1>5. i % g \in Nat /\ i % g < g
  BY <1>3, <1>4
<1> QED BY <1>2, <1>5 DEF g

LEMMA CellStays ==
    ASSUME Lamport!LamportAssumption, LamportInv, NEW r \in Lamport!Rank, Quiet(r), NEW q \in Lamport!Rank, NEW s \in Lamport!Stage, NEW i \in Lamport!Cell,
           lbuf'[q][s][i] = lbuf[q][s][i],
           \A c \in Lamport!Cta : lpc[q][c] \in {"publish", "arrive", "clear"} =>
               lpc'[q][c] \in {"publish", "arrive", "clear"}
    PROVE  CellInv(q, s, i)'
<1>0. LamportTypeInv /\ CellInv(q, s, i)
  BY DEF LamportInv
<1>1. ASSUME lbuf[q][s][i] # Lamport!lamport_sentinel, lbuf[q][s][i].op = lop[q] - 1
      PROVE  lpc'[q][i % Lamport!gridDim(Lamport!Now(q))] \in {"publish", "arrive", "clear"}
  <2>1. lpc[q][i % Lamport!gridDim(Lamport!Now(q))] \in {"publish", "arrive", "clear"} /\ lbuf[q][s][i].op > 0 /\ lbuf[q][s][i].op \in Nat
    BY <1>0, <1>1 DEF CellInv
  <2>2. lop[q] > 0 /\ lop[q] \in Nat
    BY <1>0, <1>1, <2>1, LamportProgramFacts DEF LamportTypeInv
  <2>3. i % Lamport!gridDim(Lamport!Now(q)) \in Lamport!Cta
    BY <1>0, <2>2, ClearsAt
  <2> QED BY <2>1, <2>3
<1> QED BY <1>1, CellKept

LEMMA WaitedStays ==
    ASSUME LamportInv, NEW r \in Lamport!Rank, Quiet(r), NEW s \in Lamport!Rank, NEW c \in Lamport!Cta, NEW q \in Lamport!Rank,
           lpc'[s][c] \in {"update", "exit"} => lpc[s][c] \in {"update", "exit"}
    PROVE  WaitedInv(s, c, q)'
<1>0. lprog' = lprog /\ lop' = lop /\ WaitedInv(s, c, q)
  BY DEF Quiet, LamportInv
<1>1. Lamport!Now(s)' = Lamport!Now(s) /\ Lamport!Src(s, c)' = Lamport!Src(s, c) /\ Lamport!CellOf(s, c, q)' = Lamport!CellOf(s, c, q)
  BY <1>0, KernelSame
<1>2. PICK i : i = Lamport!CellOf(s, c, q)
  OBVIOUS
<1>3. Delivered(q, s, i) => Delivered(q, s, i)'
  BY DeliveredStays
<1>4. Delivered(q, s, Lamport!CellOf(s, c, q))' <=> Delivered(q, s, i)'
  <2>1. Lamport!CellOf(s, c, q)' = i
    BY <1>1, <1>2
  <2> QED BY <2>1 DEF Delivered
<1> QED BY <1>0, <1>1, <1>2, <1>3, <1>4 DEF WaitedInv

LEMMA PlaceUpdate ==
    ASSUME LamportTypeInv, NEW r \in Lamport!Rank, NEW c \in Lamport!Cta, NEW x \in Places, lpc' = [lpc EXCEPT ![r][c] = x]
    PROVE  /\ lpc' \in [Lamport!Rank -> [Lamport!Cta -> Places]] /\ lpc'[r][c] = x
           /\ \A q \in Lamport!Rank, d \in Lamport!Cta : q # r \/ d # c => lpc'[q][d] = lpc[q][d]
           /\ \A q \in Lamport!Rank : q # r => lpc'[q] = lpc[q]
<1>1. lpc \in [Lamport!Rank -> [Lamport!Cta -> Places]]
  BY DEF LamportTypeInv
<1> QED BY <1>1

LEMMA GridFinite ==
    ASSUME Lamport!LamportAssumption, LamportTypeInv, NEW r \in Lamport!Rank, lop[r] > 0
    PROVE  /\ IsFiniteSet(Grid(r)) /\ Cardinality(Grid(r)) = Lamport!gridDim(Lamport!Now(r)) /\ 0 \in Grid(r)
           /\ \A S \in SUBSET Grid(r) : IsFiniteSet(S) /\ Cardinality(S) \in Nat
<1> DEFINE g == Lamport!gridDim(Lamport!Now(r))
<1>1. g \in Nat /\ g >= 1 /\ \A c \in Nat : c < g => c \in Lamport!Cta
  BY OpFacts
<1>2. Lamport!Cta \subseteq Nat
  BY LamportProgramFacts
<1>3. Grid(r) = {c \in Lamport!Cta : c < g}
  BY DEF Grid
<1> HIDE DEF g
<1>4. Grid(r) = 0 .. g - 1
  <2>1. ASSUME NEW c \in Grid(r) PROVE c \in 0 .. g - 1
    <3>1. c \in Lamport!Cta /\ c < g
      BY <1>3
    <3>2. c \in Nat /\ g \in Nat
      BY <1>1, <1>2, <3>1
    <3> QED BY <3>1, <3>2
  <2>2. ASSUME NEW c \in 0 .. g - 1 PROVE c \in Grid(r)
    <3>1. c \in Nat /\ c < g
      BY <1>1
    <3> QED BY <1>1, <1>3, <3>1
  <2> QED BY <2>1, <2>2
<1>5. IsFiniteSet(0 .. g - 1) /\ Cardinality(0 .. g - 1) = g
  <2>1. Cardinality(0 .. g - 1) = IF 0 > g - 1 THEN 0 ELSE (g - 1) - 0 + 1
    BY <1>1, FS_Interval
  <2> QED BY <1>1, <2>1, FS_Interval
<1>6. \A S \in SUBSET Grid(r) : IsFiniteSet(S) /\ Cardinality(S) \in Nat
  BY <1>4, <1>5, FS_Subset, FS_CardinalityType
<1> QED BY <1>1, <1>4, <1>5, <1>6 DEF g

LEMMA ArriveStep ==
    ASSUME Lamport!LamportAssumption, LamportInv, NEW r \in Lamport!Rank, NEW c \in Lamport!Cta, Lamport!lamport_cta_arrive(r, c)
    PROVE  LamportInv'
<1>0. /\ lprog' = lprog /\ lop' = lop /\ lstage' = lstage /\ ldirty' = ldirty /\ lepoch' = lepoch /\ lused' = lused
      /\ lflight' = lflight /\ lbuf' = lbuf /\ LamportTypeInv /\ lpc[r][c] = "arrive"
      /\ lpc' = [lpc EXCEPT ![r][c] = "clear"] /\ larrived' = [larrived EXCEPT ![r] = larrived[r] + 1]
  BY DEF Lamport!lamport_cta_arrive, Lamport!kernel, LamportInv
<1>1. /\ lpc' \in [Lamport!Rank -> [Lamport!Cta -> Places]] /\ lpc'[r][c] = "clear"
      /\ \A q \in Lamport!Rank, d \in Lamport!Cta : q # r \/ d # c => lpc'[q][d] = lpc[q][d]
      /\ \A q \in Lamport!Rank : q # r => lpc'[q] = lpc[q]
  <2>1. "clear" \in Places
    BY DEF Places
  <2> QED BY <1>0, <2>1, PlaceUpdate
<1>2. Quiet(r)
  BY <1>0, <1>1 DEF Quiet
<1>3. /\ larrived' \in [Lamport!Rank -> Nat] /\ larrived'[r] = larrived[r] + 1
      /\ \A q \in Lamport!Rank : q # r => larrived'[q] = larrived[q]
  BY <1>0 DEF LamportTypeInv
<1>4. LamportTypeInv'
  BY <1>0, <1>1, <1>3 DEF LamportTypeInv
<1>o. \A q \in Lamport!Rank : q # r => EpochInv(q)' /\ \A d \in Lamport!Cta : BlockInv(q, d)'
  BY <1>0, <1>1, <1>3, OtherBlocks
<1>5. BlockInv(r, c) /\ EpochInv(r) /\ lop[r] > 0 /\ c \in Grid(r) /\ 0 \in Lamport!Cta
  <2>1. BlockInv(r, c) /\ EpochInv(r) /\ 0 \in Lamport!Cta
    BY <1>0, LamportProgramFacts DEF LamportInv
  <2> QED BY <1>0, <2>1 DEF BlockInv, Grid
<1>6. EpochInv(r)'
  <2> DEFINE S == {d \in Grid(r) : lpc[r][d] \notin {"publish", "arrive"}}
             T == {d \in Grid(r)' : lpc'[r][d] \notin {"publish", "arrive"}}
  <2>1. lpc[r][0] # "exit" /\ lpc'[r][0] # "exit"
    BY <1>0, <1>1, <1>5 DEF EpochInv
  <2>2. T = S \cup {c} /\ c \notin S
    <3>1. Grid(r)' = Grid(r) /\ Grid(r) \subseteq Lamport!Cta
      BY <1>0 DEF Grid, Lamport!Now
    <3> QED BY <1>0, <1>1, <1>5, <3>1
  <2>3. IsFiniteSet(S)
    BY <1>0, <1>5, GridFinite
  <2>4. larrived[r] = Cardinality(S)
    BY <1>5, <2>1 DEF EpochInv
  <2> HIDE DEF S, T
  <2>5. Cardinality(T) = Cardinality(S) + 1
    BY <2>2, <2>3, FS_AddElement
  <2>6. larrived'[r] = Cardinality(T)
    BY <1>3, <2>4, <2>5
  <2> QED BY <1>0, <1>5, <2>1, <2>6 DEF EpochInv, T
<1>7. ASSUME NEW d \in Lamport!Cta PROVE BlockInv(r, d)'
  <2>1. BlockInv(r, d) /\ Lamport!Now(r)' = Lamport!Now(r)
    BY <1>0 DEF LamportInv, Lamport!Now
  <2> QED BY <1>0, <1>1, <2>1 DEF BlockInv
<1>8. \A d \in Lamport!Cta, q \in Lamport!Rank : WaitedInv(r, d, q)'
  BY <1>1, <1>2, WaitedStays
<1>9. \A q \in Lamport!Rank, s \in Lamport!Stage, i \in Lamport!Cell : CellInv(q, s, i)'
  <2>1. \A q \in Lamport!Rank, d \in Lamport!Cta : lpc[q][d] \in {"publish", "arrive", "clear"} =>
               lpc'[q][d] \in {"publish", "arrive", "clear"}
    BY <1>1
  <2> QED BY <1>0, <1>2, <2>1, CellStays
<1>b. \A q \in Lamport!Rank, d \in Lamport!Cta : BlockInv(q, d)'
  BY <1>o, <1>7
<1>f. \A q \in Lamport!Rank : FlightInv(q)'
  BY <1>0, <1>2, FlightStays
<1> QED BY <1>2, <1>4, <1>o, <1>6, <1>b, <1>8, <1>9, <1>f, QuietStep

(* What the record of block c says while it works. *)
LEMMA WorkingBlock ==
    ASSUME Lamport!LamportAssumption, LamportInv, NEW r \in Lamport!Rank, NEW c \in Lamport!Cta,
           lpc[r][c] \in {"arrive", "clear", "wait", "update"}
    PROVE  /\ LamportTypeInv /\ lop[r] > 0 /\ lop[r] \in Nat /\ c < Lamport!gridDim(Lamport!Now(r)) /\ c \in Grid(r)
           /\ lstage[r][c] = StageOf(lop[r]) /\ lstage[r][c] \in Lamport!Stage
           /\ ldirty[r][c] = (IF lop[r] = 1 THEN 0 ELSE Lamport!WrittenCells(lprog[lop[r] - 1]))
           /\ Lamport!mnnvl_lamport_dirty_stage(lstage[r][c]) = StageOf(lop[r] - 1) /\ StageOf(lop[r] - 1) \in Lamport!Stage
<1>1. LamportTypeInv /\ BlockInv(r, c)
  BY DEF LamportInv
<1>2. /\ lop[r] > 0 /\ lop[r] \in Nat /\ c < Lamport!gridDim(Lamport!Now(r)) /\ lstage[r][c] = StageOf(lop[r])
      /\ ldirty[r][c] = (IF lop[r] = 1 THEN 0 ELSE Lamport!WrittenCells(lprog[lop[r] - 1]))
  <2>1. lop[r] \in Nat
    BY <1>1, LamportProgramFacts DEF LamportTypeInv
  <2> QED BY <1>1, <2>1 DEF BlockInv
<1>3. PICK j \in Nat : j = lop[r] - 1
  BY <1>2
<1>4. lop[r] = j + 1
  BY <1>2, <1>3
<1>5. Lamport!mnnvl_lamport_dirty_stage(StageOf(j + 1)) = StageOf(j) /\ StageOf(j) \in Lamport!Stage
  BY StageFacts
<1> QED BY <1>1, <1>2, <1>3, <1>4, <1>5 DEF Grid, LamportTypeInv

(* Blocks that go on after they have arrived leave the count as it is. *)
LEMMA CountStays ==
    ASSUME Lamport!LamportAssumption, LamportInv, NEW r \in Lamport!Rank, lprog' = lprog, lop' = lop, lepoch' = lepoch, larrived' = larrived,
           lused' = lused, NEW c \in Lamport!Cta, lpc[r][c] \in {"clear", "wait"},
           lpc'[r][c] \in {"wait", "update", "exit"}, c = 0 => lpc'[r][c] # "exit",
           \A d \in Lamport!Cta : d # c => lpc'[r][d] = lpc[r][d]
    PROVE  EpochInv(r)'
<1>1. EpochInv(r) /\ 0 \in Lamport!Cta
  BY LamportProgramFacts DEF LamportInv
<1>2. lpc'[r][0] # "exit" <=> lpc[r][0] # "exit"
  BY <1>1
<1>3. Grid(r)' = Grid(r) /\ Grid(r) \subseteq Lamport!Cta
  BY DEF Grid, Lamport!Now
<1>4. {d \in Grid(r)' : lpc'[r][d] \notin {"publish", "arrive"}}
        = {d \in Grid(r) : lpc[r][d] \notin {"publish", "arrive"}}
  BY <1>3
<1> QED BY <1>1, <1>2, <1>4 DEF EpochInv

LEMMA ClearStep ==
    ASSUME Lamport!LamportAssumption, LamportInv, NEW r \in Lamport!Rank, NEW c \in Lamport!Cta, Lamport!Clear(r, c)
    PROVE  LamportInv'
<1>0. /\ lprog' = lprog /\ lop' = lop /\ lstage' = lstage /\ ldirty' = ldirty /\ lepoch' = lepoch /\ lused' = lused
      /\ larrived' = larrived /\ lflight' = lflight /\ LamportTypeInv /\ lpc[r][c] = "clear"
      /\ lpc' = [lpc EXCEPT ![r][c] = "wait"]
  BY DEF Lamport!Clear, Lamport!kernel, Lamport!epochs, LamportInv
<1>1. /\ lpc' \in [Lamport!Rank -> [Lamport!Cta -> Places]] /\ lpc'[r][c] = "wait"
      /\ \A q \in Lamport!Rank, d \in Lamport!Cta : q # r \/ d # c => lpc'[q][d] = lpc[q][d]
      /\ \A q \in Lamport!Rank : q # r => lpc'[q] = lpc[q]
  <2>1. "wait" \in Places
    BY DEF Places
  <2> QED BY <1>0, <2>1, PlaceUpdate
<1>2. Quiet(r)
  BY <1>0, <1>1 DEF Quiet
<1>w. /\ lop[r] > 0 /\ lop[r] \in Nat
      /\ ldirty[r][c] = (IF lop[r] = 1 THEN 0 ELSE Lamport!WrittenCells(lprog[lop[r] - 1]))
      /\ Lamport!mnnvl_lamport_dirty_stage(lstage[r][c]) = StageOf(lop[r] - 1) /\ StageOf(lop[r] - 1) \in Lamport!Stage
  BY <1>0, WorkingBlock
<1>u. PICK u \in Lamport!Stage : u = StageOf(lop[r] - 1)
  BY <1>w
<1>3. /\ DOMAIN lbuf' = Lamport!Rank /\ \A q \in Lamport!Rank : DOMAIN lbuf'[q] = Lamport!Stage /\ \A s \in Lamport!Stage : DOMAIN lbuf'[q][s] = Lamport!Cell
      /\ \A q \in Lamport!Rank, s \in Lamport!Stage : q # r \/ s # u => lbuf'[q][s] = lbuf[q][s]
      /\ \A i \in Lamport!Cell : lbuf'[r][u][i] = IF i \in Lamport!Cleared(r, c) THEN Lamport!lamport_sentinel ELSE lbuf[r][u][i]
  <2> DEFINE row == [i \in Lamport!Cell |-> IF i \in Lamport!Cleared(r, c) THEN Lamport!lamport_sentinel ELSE lbuf[r][u][i]]
  <2>1. lbuf' = [lbuf EXCEPT ![r][u] = row]
    BY <1>w, <1>u DEF Lamport!Clear
  <2>2. DOMAIN row = Lamport!Cell /\ \A i \in Lamport!Cell : row[i] = IF i \in Lamport!Cleared(r, c) THEN Lamport!lamport_sentinel ELSE lbuf[r][u][i]
    OBVIOUS
  <2> HIDE DEF row
  <2>3. DOMAIN lbuf = Lamport!Rank /\ \A q \in Lamport!Rank : DOMAIN lbuf[q] = Lamport!Stage /\ \A s \in Lamport!Stage : DOMAIN lbuf[q][s] = Lamport!Cell
    BY <1>0 DEF LamportTypeInv
  <2>4. lbuf'[r][u] = row /\ \A q \in Lamport!Rank, s \in Lamport!Stage : q # r \/ s # u => lbuf'[q][s] = lbuf[q][s]
    BY <2>1, <2>3
  <2>5. DOMAIN lbuf' = Lamport!Rank /\ \A q \in Lamport!Rank : DOMAIN lbuf'[q] = Lamport!Stage
    BY <2>1, <2>3
  <2>6. \A q \in Lamport!Rank, s \in Lamport!Stage : DOMAIN lbuf'[q][s] = Lamport!Cell
    BY <2>2, <2>3, <2>4
  <2> QED BY <2>2, <2>4, <2>5, <2>6
<1>4. LamportTypeInv'
  BY <1>0, <1>1, <1>3 DEF LamportTypeInv
<1>o. \A q \in Lamport!Rank : q # r => EpochInv(q)' /\ \A d \in Lamport!Cta : BlockInv(q, d)'
  BY <1>0, <1>1, OtherBlocks
<1>6. EpochInv(r)'
  BY <1>0, <1>1, CountStays
<1>7. ASSUME NEW d \in Lamport!Cta PROVE BlockInv(r, d)'
  <2>1. BlockInv(r, d) /\ Lamport!Now(r)' = Lamport!Now(r)
    BY <1>0 DEF LamportInv, Lamport!Now
  <2> QED BY <1>0, <1>1, <2>1 DEF BlockInv
<1>8. \A d \in Lamport!Cta, q \in Lamport!Rank : WaitedInv(r, d, q)'
  BY <1>1, <1>2, WaitedStays
<1>9. ASSUME NEW q \in Lamport!Rank, NEW s \in Lamport!Stage, NEW i \in Lamport!Cell PROVE CellInv(q, s, i)'
  <2>1. CASE q # r
    BY <1>1, <1>2, <1>3, <2>1, CellStays
  <2>2. CASE q = r /\ s = u /\ i \in Lamport!Cleared(r, c)
    BY <1>3, <2>2 DEF CellInv
  <2>3. CASE q = r /\ ~(s = u /\ i \in Lamport!Cleared(r, c))
    <3>1. lbuf'[q][s][i] = lbuf[q][s][i]
      BY <1>3, <2>3
    <3>2. ASSUME lbuf[q][s][i] # Lamport!lamport_sentinel, lbuf[q][s][i].op = lop[q] - 1
          PROVE  lpc'[q][i % Lamport!gridDim(Lamport!Now(q))] \in {"publish", "arrive", "clear"}
      <4> DEFINE v == lbuf[r][s][i]
                 j == lop[r] - 1
                 z == lprog[j].size
      <4>1. /\ v.src \in Lamport!Rank /\ v.op = j /\ v.op > 0 /\ s = StageOf(v.op) /\ v.idx \in Nat /\ v.idx < z
            /\ i = v.src * z + v.idx /\ lpc[r][i % Lamport!gridDim(Lamport!Now(r))] \in {"publish", "arrive", "clear"}
        <5>1. CellInv(r, s, i)
          BY DEF LamportInv
        <5> QED BY <2>3, <3>2, <5>1 DEF CellInv
      <4>2. s = u
        BY <1>u, <4>1
      <4>3. j \in 1 .. Len(lprog)
        <5>1. lop[r] \in 0 .. Len(lprog) /\ Len(lprog) \in Nat
          BY <1>0, LamportProgramFacts DEF LamportTypeInv
        <5> QED BY <1>w, <4>1, <5>1
      <4>4. z \in Nat /\ Lamport!WrittenCells(lprog[j]) = N * z /\ N \in Nat /\ v.src \in Nat /\ v.src < N
        <5>1. z \in Nat /\ Lamport!WrittenCells(lprog[j]) = N * z /\ N \in Nat
          BY <1>0, <4>3, GridFacts, LamportProgramFacts
        <5> QED BY <4>1, <5>1 DEF Lamport!Rank
      <4>5. v.src * z + v.idx < N * z
        <5>1. PICK a \in Nat : a = v.src
          BY <4>4
        <5>2. PICK x \in Nat : x = v.idx
          BY <4>1
        <5>3. PICK n \in Nat : n = z
          BY <4>4
        <5>4. a * n + x < N * n
          BY <4>1, <4>4, <5>1, <5>2, <5>3, CellBound
        <5> QED BY <5>1, <5>2, <5>3, <5>4
      <4>6. i < ldirty[r][c]
        <5>1. lop[r] # 1
          BY <1>w, <4>1
        <5> QED BY <1>w, <4>1, <4>4, <4>5, <5>1
      <4>7. i % Lamport!gridDim(Lamport!Now(r)) # c
        BY <2>3, <4>2, <4>6 DEF Lamport!Cleared
      <4>8. i % Lamport!gridDim(Lamport!Now(r)) \in Lamport!Cta
        BY <1>0, <1>w, ClearsAt
      <4> QED BY <1>1, <2>3, <4>1, <4>7, <4>8
    <3> QED BY <1>2, <3>1, <3>2, CellKept
  <2> QED BY <2>1, <2>2, <2>3
<1>b. \A q \in Lamport!Rank, d \in Lamport!Cta : BlockInv(q, d)'
  BY <1>o, <1>7
<1>f. \A q \in Lamport!Rank : FlightInv(q)'
  BY <1>0, <1>2, FlightStays
<1> QED BY <1>2, <1>4, <1>o, <1>6, <1>b, <1>8, <1>9, <1>f, QuietStep

(* What is in a cell of the stage of this operation. *)
LEMMA CellRead ==
    ASSUME Lamport!LamportAssumption, LamportInv, NEW r \in Lamport!Rank, NEW c \in Lamport!Cta, lop[r] > 0, c < Lamport!gridDim(Lamport!Now(r)),
           NEW q \in Lamport!Rank, ~Lamport!is_lamport_dirty(lbuf[r][StageOf(lop[r])][Lamport!CellOf(r, c, q)])
    PROVE  /\ LET v == lbuf[r][StageOf(lop[r])][Lamport!CellOf(r, c, q)]
              IN  v.op = lop[r] /\ v.src = q /\ v.idx = Lamport!Idx(r, c)
           /\ lop[q] >= lop[r] /\ (lop[q] = lop[r] => Delivered(q, r, Lamport!CellOf(r, c, q)))
<1> DEFINE z == Lamport!Now(r).size
           s == StageOf(lop[r])
           i == Lamport!CellOf(r, c, q)
           v == lbuf[r][s][i]
<1>1. LamportTypeInv /\ lop[r] \in Nat /\ \A x \in Lamport!Rank : lop[x] \in Nat
  <2>1. LamportTypeInv
    BY DEF LamportInv
  <2>2. lop \in [Lamport!Rank -> 0 .. Len(lprog)] /\ Len(lprog) \in Nat
    BY <2>1, LamportProgramFacts DEF LamportTypeInv
  <2>3. \A x \in Lamport!Rank : lop[x] \in Nat
    BY <2>2
  <2> QED BY <2>1, <2>3
<1>2. z \in Nat /\ z <= MaxSize /\ N \in Nat /\ MaxSize \in Nat /\ q \in Nat /\ q < N /\ Lamport!Rank \subseteq Nat
  BY <1>1, OpFacts, LamportProgramFacts DEF Lamport!Rank
<1>3. Lamport!Idx(r, c) \in Nat /\ Lamport!Idx(r, c) < z /\ i = q * z + Lamport!Idx(r, c)
  BY <1>1, IdxFacts DEF Lamport!CellOf
<1>4. i \in Lamport!Cell
  <2>1. PICK n \in Nat : n = z
    BY <1>2
  <2>2. PICK x \in Nat : x = Lamport!Idx(r, c)
    BY <1>3
  <2>3. q * n + x \in Nat /\ q * n + x < N * n
    BY <1>2, <1>3, <2>1, <2>2, CellBound
  <2>4. N * n <= N * MaxSize /\ N * n \in Nat /\ N * MaxSize \in Nat
    BY <1>2, <2>1
  <2>5. q * n + x \in Lamport!Cell
    BY <2>3, <2>4 DEF Lamport!Cell
  <2> QED BY <1>3, <2>1, <2>2, <2>5
<1>5. s \in Lamport!Stage
  BY <1>1, StageFacts
<1>6. v # Lamport!lamport_sentinel /\ CellInv(r, s, i)
  <2>1. CellInv(r, s, i)
    BY <1>4, <1>5 DEF LamportInv
  <2>2. v # Lamport!lamport_sentinel
    BY DEF Lamport!is_lamport_dirty, Lamport!lamport_sentinel
  <2> QED BY <2>1, <2>2
<1>7. /\ v.src \in Lamport!Rank /\ v.op \in Nat /\ v.op <= lop[v.src] /\ v.op >= lop[r] - 1 /\ s = StageOf(v.op)
      /\ v.idx \in Nat /\ v.idx < lprog[v.op].size /\ i = v.src * lprog[v.op].size + v.idx
      /\ v.op = lop[v.src] => Delivered(v.src, r, i)
  BY <1>6 DEF CellInv
<1>8. lop[v.src] <= lop[r] + 1
  <2>1. OrderInv(v.src, r) /\ lop[v.src] \in Nat
    BY <1>1, <1>7 DEF LamportInv
  <2> QED BY <1>1, <2>1 DEF OrderInv
<1>9. v.op = lop[r]
  <2>1. PICK a \in Nat : a = v.op
    BY <1>7
  <2>2. PICK b \in Nat : b = lop[r]
    BY <1>1, SMTT(30)
  <2>3. PICK d \in Nat : d = lop[v.src]
    BY <1>1, <1>7
  <2>4. a <= b + 2 /\ b <= a + 2 /\ StageOf(a) = StageOf(b)
    BY <1>7, <1>8, <2>1, <2>2, <2>3
  <2>5. a = b
    BY <2>4, StageApart
  <2> QED BY <2>1, <2>2, <2>5
<1>10. v.src = q /\ v.idx = Lamport!Idx(r, c)
  <2>1. PICK n \in Nat : n = z
    BY <1>2
  <2>2. PICK x \in Nat : x = Lamport!Idx(r, c)
    BY <1>3
  <2>3. PICK y \in Nat : y = v.idx
    BY <1>7, SMTT(30)
  <2>4. PICK b \in Nat : b = v.src
    BY <1>2, <1>7, SMTT(30)
  <2>5. q * n + x = b * n + y /\ x < n /\ y < n
    BY <1>3, <1>7, <1>9, <2>1, <2>2, <2>3, <2>4 DEF Lamport!Now
  <2>6. q = b /\ x = y
    BY <1>2, <2>5, CellUnique
  <2> QED BY <2>2, <2>3, <2>4, <2>6, SMTT(30)
<1> QED BY <1>7, <1>9, <1>10

LEMMA WaitStep ==
    ASSUME Lamport!LamportAssumption, LamportInv, NEW r \in Lamport!Rank, NEW c \in Lamport!Cta, Lamport!Wait(r, c)
    PROVE  LamportInv'
<1>0. /\ lprog' = lprog /\ lop' = lop /\ lstage' = lstage /\ ldirty' = ldirty /\ lepoch' = lepoch /\ lused' = lused
      /\ larrived' = larrived /\ lflight' = lflight /\ lbuf' = lbuf /\ LamportTypeInv /\ lpc[r][c] = "wait"
  BY DEF Lamport!Wait, Lamport!kernel, Lamport!epochs, LamportInv
<1>x. PICK x \in {"update", "exit"} : x = IF c = 0 THEN "update" ELSE "exit"
  OBVIOUS
<1>1. /\ lpc' \in [Lamport!Rank -> [Lamport!Cta -> Places]] /\ lpc'[r][c] = x
      /\ \A q \in Lamport!Rank, d \in Lamport!Cta : q # r \/ d # c => lpc'[q][d] = lpc[q][d]
      /\ \A q \in Lamport!Rank : q # r => lpc'[q] = lpc[q]
  <2>1. x \in Places /\ lpc' = [lpc EXCEPT ![r][c] = x]
    BY <1>x DEF Places, Lamport!Wait
  <2> QED BY <1>0, <2>1, PlaceUpdate
<1>2. Quiet(r)
  BY <1>0, <1>1 DEF Quiet
<1>w. lop[r] > 0 /\ lop[r] \in Nat /\ c < Lamport!gridDim(Lamport!Now(r)) /\ lstage[r][c] = StageOf(lop[r])
  BY <1>0, WorkingBlock
<1>4. LamportTypeInv'
  BY <1>0, <1>1 DEF LamportTypeInv
<1>o. \A q \in Lamport!Rank : q # r => EpochInv(q)' /\ \A d \in Lamport!Cta : BlockInv(q, d)'
  BY <1>0, <1>1, OtherBlocks
<1>6. EpochInv(r)'
  BY <1>0, <1>x, <1>1, CountStays
<1>7. ASSUME NEW d \in Lamport!Cta PROVE BlockInv(r, d)'
  <2>1. BlockInv(r, d) /\ Lamport!Now(r)' = Lamport!Now(r)
    BY <1>0 DEF LamportInv, Lamport!Now
  <2> QED BY <1>0, <1>x, <1>1, <2>1 DEF BlockInv
<1>8. ASSUME NEW d \in Lamport!Cta, NEW q \in Lamport!Rank PROVE WaitedInv(r, d, q)'
  <2>1. CASE d # c
    BY <1>1, <1>2, <2>1, WaitedStays
  <2>2. CASE d = c
    <3>0. Lamport!Src(r, c)' = Lamport!Src(r, c) /\ Lamport!CellOf(r, c, q)' = Lamport!CellOf(r, c, q) /\ Lamport!Src(r, c) \subseteq Lamport!Rank
      BY <1>0, KernelSame DEF Lamport!Src
    <3> SUFFICES ASSUME q \in Lamport!Src(r, c)
                 PROVE  lop[q] >= lop[r] /\ (lop[q] = lop[r] => Delivered(q, r, Lamport!CellOf(r, c, q))')
      BY <1>0, <2>2, <3>0 DEF WaitedInv
    <3>1. ~Lamport!is_lamport_dirty(lbuf[r][StageOf(lop[r])][Lamport!CellOf(r, c, q)])
      BY <1>w DEF Lamport!Wait
    <3>2. lop[q] >= lop[r] /\ (lop[q] = lop[r] => Delivered(q, r, Lamport!CellOf(r, c, q)))
      BY <1>w, <3>1, CellRead
    <3>3. PICK i : i = Lamport!CellOf(r, c, q)
      OBVIOUS
    <3>4. Delivered(q, r, i) => Delivered(q, r, i)'
      BY <1>2, DeliveredStays
    <3>5. Delivered(q, r, Lamport!CellOf(r, c, q))' <=> Delivered(q, r, i)'
      <4>1. Lamport!CellOf(r, c, q)' = i
        BY <3>0, <3>3
      <4> QED BY <4>1 DEF Delivered
    <3> QED BY <3>2, <3>3, <3>4, <3>5
  <2> QED BY <2>1, <2>2
<1>9. \A q \in Lamport!Rank, s \in Lamport!Stage, i \in Lamport!Cell : CellInv(q, s, i)'
  <2>1. \A q \in Lamport!Rank, d \in Lamport!Cta : lpc[q][d] \in {"publish", "arrive", "clear"} =>
               lpc'[q][d] \in {"publish", "arrive", "clear"}
    BY <1>0, <1>1
  <2> QED BY <1>0, <1>2, <2>1, CellStays
<1>b. \A q \in Lamport!Rank, d \in Lamport!Cta : BlockInv(q, d)'
  BY <1>o, <1>7
<1>f. \A q \in Lamport!Rank : FlightInv(q)'
  BY <1>0, <1>2, FlightStays
<1> QED BY <1>2, <1>4, <1>o, <1>6, <1>b, <1>8, <1>9, <1>f, QuietStep

LEMMA UpdateStep ==
    ASSUME Lamport!LamportAssumption, LamportInv, NEW r \in Lamport!Rank, Lamport!Update(r)
    PROVE  LamportInv'
<1>0. /\ lprog' = lprog /\ lop' = lop /\ lstage' = lstage /\ ldirty' = ldirty
      /\ lflight' = lflight /\ lbuf' = lbuf /\ LamportTypeInv /\ lpc[r][0] = "update" /\ 0 \in Lamport!Cta
      /\ lpc' = [lpc EXCEPT ![r][0] = "exit"]
  BY LamportProgramFacts DEF Lamport!Update, Lamport!kernel, LamportInv
<1>1. /\ lpc' \in [Lamport!Rank -> [Lamport!Cta -> Places]] /\ lpc'[r][0] = "exit"
      /\ \A q \in Lamport!Rank, d \in Lamport!Cta : q # r \/ d # 0 => lpc'[q][d] = lpc[q][d]
      /\ \A q \in Lamport!Rank : q # r => lpc'[q] = lpc[q]
  <2>1. "exit" \in Places
    BY DEF Places
  <2> QED BY <1>0, <2>1, PlaceUpdate
<1>2. Quiet(r)
  BY <1>0, <1>1 DEF Quiet
<1>w. lop[r] > 0 /\ lop[r] \in Nat /\ lstage[r][0] = StageOf(lop[r]) /\ lstage[r][0] \in Lamport!Stage
  BY <1>0, WorkingBlock
<1>n. /\ Lamport!WrittenCells(Lamport!Now(r)) \in Nat /\ Lamport!Now(r) = lprog[lop[r]]
      /\ Lamport!mnnvl_lamport_next_stage(lstage[r][0]) = StageOf(lop[r] + 1) /\ StageOf(lop[r] + 1) \in Lamport!Stage
  <2>1. lop[r] \in 1 .. Len(lprog) /\ Lamport!Now(r) = lprog[lop[r]]
    BY <1>0, <1>w, OpFacts
  <2>2. PICK j \in Nat : j = lop[r]
    BY <1>w
  <2>3. Lamport!mnnvl_lamport_next_stage(StageOf(j)) = StageOf(j + 1) /\ StageOf(j + 1) \in Lamport!Stage
    BY StageFacts
  <2> QED BY <1>0, <1>w, <2>1, <2>2, <2>3, GridFacts
<1>3. /\ lused' \in [Lamport!Rank -> [Lamport!Stage -> Nat]] /\ lused'[r][StageOf(lop[r])] = Lamport!WrittenCells(Lamport!Now(r))
      /\ \A q \in Lamport!Rank : q # r => lused'[q] = lused[q]
  <2>1. lused' = [lused EXCEPT ![r][lstage[r][0]] = Lamport!WrittenCells(Lamport!Now(r))] /\ lused \in [Lamport!Rank -> [Lamport!Stage -> Nat]]
    BY <1>0 DEF Lamport!Update, LamportTypeInv
  <2> QED BY <1>w, <1>n, <2>1
<1>e. /\ lepoch' \in [Lamport!Rank -> Lamport!Stage] /\ lepoch'[r] = StageOf(lop[r] + 1)
      /\ \A q \in Lamport!Rank : q # r => lepoch'[q] = lepoch[q]
  <2>1. lepoch' = [lepoch EXCEPT ![r] = StageOf(lop[r] + 1)] /\ lepoch \in [Lamport!Rank -> Lamport!Stage]
    BY <1>0, <1>n DEF Lamport!Update, LamportTypeInv
  <2> QED BY <1>n, <2>1
<1>a. /\ larrived' \in [Lamport!Rank -> Nat] /\ larrived'[r] = 0 /\ \A q \in Lamport!Rank : q # r => larrived'[q] = larrived[q]
  BY <1>0 DEF Lamport!Update, LamportTypeInv
<1>4. LamportTypeInv'
  BY <1>0, <1>1, <1>3, <1>e, <1>a DEF LamportTypeInv
<1>o. \A q \in Lamport!Rank : q # r => EpochInv(q)' /\ \A d \in Lamport!Cta : BlockInv(q, d)'
  BY <1>0, <1>1, <1>3, <1>e, <1>a, OtherBlocks
<1>5. \A d \in Lamport!Cta : lpc[r][d] \notin {"publish", "arrive"}
  <2> DEFINE S == {d \in Grid(r) : lpc[r][d] \notin {"publish", "arrive"}}
  <2>1. larrived[r] = Cardinality(S) /\ larrived[r] >= Lamport!gridDim(Lamport!Now(r))
    BY <1>0 DEF EpochInv, LamportInv, Lamport!Update
  <2>2. S \subseteq Grid(r)
    OBVIOUS
  <2>3. IsFiniteSet(Grid(r)) /\ Cardinality(Grid(r)) = Lamport!gridDim(Lamport!Now(r)) /\ Cardinality(S) \in Nat
    BY <1>0, <1>w, <2>2, GridFinite
  <2> HIDE DEF S
  <2>4. /\ Cardinality(S) <= Cardinality(Grid(r))
        /\ Cardinality(S) = Cardinality(Grid(r)) => S = Grid(r)
    BY <2>2, <2>3, FS_Subset
  <2>5. Cardinality(S) = Cardinality(Grid(r))
    <3>1. Lamport!gridDim(Lamport!Now(r)) \in Nat
      BY <1>0, <1>w, OpFacts
    <3> QED BY <2>1, <2>3, <2>4, <3>1
  <2>6. S = Grid(r)
    BY <2>4, <2>5
  <2>7. \A d \in Lamport!Cta : lpc[r][d] # "exit" => d \in Grid(r)
    BY DEF LamportInv, BlockInv, Grid
  <2> QED BY <2>6, <2>7 DEF S
<1>6. EpochInv(r)'
  BY <1>0, <1>w, <1>n, <1>1, <1>3, <1>e, <1>a, <1>5 DEF EpochInv
<1>7. ASSUME NEW d \in Lamport!Cta PROVE BlockInv(r, d)'
  <2>1. BlockInv(r, d) /\ Lamport!Now(r)' = Lamport!Now(r)
    BY <1>0 DEF LamportInv, Lamport!Now
  <2> QED BY <1>0, <1>1, <2>1 DEF BlockInv
<1>8. \A d \in Lamport!Cta, q \in Lamport!Rank : WaitedInv(r, d, q)'
  <2>1. \A d \in Lamport!Cta : lpc'[r][d] \in {"update", "exit"} => lpc[r][d] \in {"update", "exit"}
    BY <1>0, <1>1
  <2> QED BY <1>2, <2>1, WaitedStays
<1>9. \A q \in Lamport!Rank, s \in Lamport!Stage, i \in Lamport!Cell : CellInv(q, s, i)'
  <2>1. \A q \in Lamport!Rank, d \in Lamport!Cta : lpc[q][d] \in {"publish", "arrive", "clear"} =>
               lpc'[q][d] \in {"publish", "arrive", "clear"}
    BY <1>0, <1>1
  <2> QED BY <1>0, <1>2, <2>1, CellStays
<1>b. \A q \in Lamport!Rank, d \in Lamport!Cta : BlockInv(q, d)'
  BY <1>o, <1>7
<1>f. \A q \in Lamport!Rank : FlightInv(q)'
  BY <1>0, <1>2, FlightStays
<1> QED BY <1>2, <1>4, <1>o, <1>6, <1>b, <1>8, <1>9, <1>f, QuietStep

LEMMA LandStep ==
    ASSUME Lamport!LamportAssumption, LamportInv, NEW r \in Lamport!Rank, NEW w, w \in lflight[r], Lamport!Land(r, w)
    PROVE  LamportInv'
<1>0. /\ lprog' = lprog /\ lop' = lop /\ lpc' = lpc /\ lstage' = lstage /\ ldirty' = ldirty /\ lepoch' = lepoch /\ lused' = lused
      /\ larrived' = larrived /\ LamportTypeInv
      /\ lflight' = [lflight EXCEPT ![r] = lflight[r] \ {w}]
      /\ lbuf' = [lbuf EXCEPT ![w.to][w.stage][w.cell] = w.value]
  BY DEF Lamport!Land, Lamport!kernel, Lamport!epochs, LamportInv
<1>1. PICK c \in Grid(r) :
         /\ lpc[r][c] # "publish" /\ w.to \in Lamport!Dst(r, c)
         /\ w = [to |-> w.to, stage |-> StageOf(lop[r]), cell |-> Lamport!CellOf(r, c, r),
                 value |-> [op |-> lop[r], src |-> r, idx |-> Lamport!Idx(r, c), bits |-> "other"]]
  BY DEF LamportInv, FlightInv
<1>2. lop[r] > 0 /\ lop[r] \in Nat /\ c \in Lamport!Cta /\ c < Lamport!gridDim(Lamport!Now(r))
  <2>1. lop[r] > 0 /\ c \in Lamport!Cta /\ c < Lamport!gridDim(Lamport!Now(r))
    BY DEF LamportInv, FlightInv, Grid
  <2>2. lop \in [Lamport!Rank -> 0 .. Len(lprog)] /\ Len(lprog) \in Nat
    BY <1>0, LamportProgramFacts DEF LamportTypeInv
  <2> QED BY <2>1, <2>2
<1>t. PICK t \in Lamport!Rank : t = w.to
  <2>1. N \in Nat /\ N > 0 /\ c \in Nat
    BY <1>0, <1>2, LamportProgramFacts
  <2>2. c % N \in Lamport!Rank
    BY <2>1 DEF Lamport!Rank
  <2> QED BY <1>1, <2>2 DEF Lamport!Dst
<1>v. PICK v : v = w.value
  OBVIOUS
<1>i. PICK i \in Lamport!Cell : i = w.cell
  <2> DEFINE z == Lamport!Now(r).size
  <2>1. z \in Nat /\ z <= MaxSize /\ N \in Nat /\ MaxSize \in Nat /\ r \in Nat /\ r < N
    BY <1>0, <1>2, OpFacts, LamportProgramFacts DEF Lamport!Rank
  <2>2. Lamport!Idx(r, c) \in Nat /\ Lamport!Idx(r, c) < z
    BY <1>0, <1>2, IdxFacts
  <2>3. PICK n \in Nat : n = z
    BY <2>1
  <2>4. PICK x \in Nat : x = Lamport!Idx(r, c)
    BY <2>2
  <2>5. r * n + x \in Nat /\ r * n + x < N * n
    BY <2>1, <2>2, <2>3, <2>4, CellBound
  <2>6. N * n <= N * MaxSize /\ N * n \in Nat /\ N * MaxSize \in Nat
    BY <2>1, <2>3
  <2>7. r * n + x \in Lamport!Cell
    BY <2>5, <2>6 DEF Lamport!Cell
  <2>8. w.cell = r * n + x
    <3>1. w.cell = Lamport!CellOf(r, c, r)
      BY <1>1
    <3> QED BY <2>3, <2>4, <3>1 DEF Lamport!CellOf
  <2> QED BY <2>7, <2>8
<1>u. PICK u \in Lamport!Stage : u = w.stage /\ u = StageOf(lop[r])
  BY <1>1, <1>2, StageFacts
<1>3. lbuf' = [lbuf EXCEPT ![t][u][i] = v]
  BY <1>0, <1>t, <1>v, <1>i, <1>u
<1>4. /\ DOMAIN lbuf' = Lamport!Rank /\ \A q \in Lamport!Rank : DOMAIN lbuf'[q] = Lamport!Stage /\ \A s \in Lamport!Stage : DOMAIN lbuf'[q][s] = Lamport!Cell
      /\ lbuf'[t][u][i] = v
      /\ \A q \in Lamport!Rank, s \in Lamport!Stage, j \in Lamport!Cell : q # t \/ s # u \/ j # i => lbuf'[q][s][j] = lbuf[q][s][j]
  <2> DEFINE one == [lbuf[t][u] EXCEPT ![i] = v]
             two == [lbuf[t] EXCEPT ![u] = one]
  <2>0. DOMAIN lbuf = Lamport!Rank /\ \A q \in Lamport!Rank : DOMAIN lbuf[q] = Lamport!Stage /\ \A s \in Lamport!Stage : DOMAIN lbuf[q][s] = Lamport!Cell
    BY <1>0 DEF LamportTypeInv
  <2>1. lbuf' = [lbuf EXCEPT ![t] = two]
    BY <1>3, <2>0
  <2>2. DOMAIN one = Lamport!Cell /\ one[i] = v /\ \A j \in Lamport!Cell : j # i => one[j] = lbuf[t][u][j]
    BY <2>0
  <2> HIDE DEF one
  <2>3. DOMAIN two = Lamport!Stage /\ two[u] = one /\ \A s \in Lamport!Stage : s # u => two[s] = lbuf[t][s]
    BY <2>0
  <2> HIDE DEF two
  <2>4. DOMAIN lbuf' = Lamport!Rank /\ lbuf'[t] = two /\ \A q \in Lamport!Rank : q # t => lbuf'[q] = lbuf[q]
    BY <2>0, <2>1
  <2> QED BY <2>0, <2>2, <2>3, <2>4
<1>5. DOMAIN lflight' = Lamport!Rank /\ lflight'[r] = lflight[r] \ {w} /\ \A q \in Lamport!Rank : q # r => lflight'[q] = lflight[q]
  BY <1>0 DEF LamportTypeInv
<1>q. Quiet(r) /\ \A q \in Lamport!Rank : lflight'[q] \subseteq lflight[q]
  BY <1>0, <1>5 DEF Quiet
<1>6. LamportTypeInv'
  BY <1>0, <1>4, <1>5 DEF LamportTypeInv
<1>7. ASSUME NEW q \in Lamport!Rank PROVE EpochInv(q)' /\ \A d \in Lamport!Cta : BlockInv(q, d)'
  BY <1>0, OtherBlocks
<1>8. \A d \in Lamport!Cta, q \in Lamport!Rank : WaitedInv(r, d, q)'
  BY <1>0, <1>q, WaitedStays
<1>9. ASSUME NEW q \in Lamport!Rank, NEW s \in Lamport!Stage, NEW j \in Lamport!Cell PROVE CellInv(q, s, j)'
  <2>1. CASE q # t \/ s # u \/ j # i
    BY <1>0, <1>4, <1>q, <2>1, CellStays
  <2>2. CASE q = t /\ s = u /\ j = i
    <3>1. /\ v = [op |-> lop[r], src |-> r, idx |-> Lamport!Idx(r, c), bits |-> "other"]
          /\ i = Lamport!CellOf(r, c, r) /\ t \in Lamport!Dst(r, c)
      <4>1. w.value = [op |-> lop[r], src |-> r, idx |-> Lamport!Idx(r, c), bits |-> "other"] /\ w.cell = Lamport!CellOf(r, c, r)
        BY <1>1
      <4> QED BY <1>1, <1>t, <1>v, <1>i, <4>1
    <3>2. Lamport!Idx(r, c) \in Nat /\ Lamport!Idx(r, c) < Lamport!Now(r).size /\ Lamport!Now(r) = lprog[lop[r]]
      BY <1>0, <1>2, IdxFacts DEF Lamport!Now
    <3>3. lop[r] >= lop[t] - 1 /\ lop[r] # lop[t] - 1
      <4>1. OrderInv(t, r)
        BY DEF LamportInv
      <4> QED BY <1>t, <4>1 DEF OrderInv
    <3>4. Delivered(r, t, i)'
      <4>1. \A d \in Lamport!Cta : Lamport!Dst(r, d)' = Lamport!Dst(r, d) /\ Lamport!CellOf(r, d, r)' = Lamport!CellOf(r, d, r)
        BY <1>0, KernelSame
      <4>2. ASSUME NEW d \in Lamport!Cta, lpc[r][d] = "publish", t \in Lamport!Dst(r, d), Lamport!CellOf(r, d, r) = i PROVE FALSE
        <5>1. d < Lamport!gridDim(Lamport!Now(r))
          BY <4>2 DEF LamportInv, BlockInv
        <5>2. d = c
          BY <1>0, <1>2, <3>1, <4>2, <5>1, CellsDiffer
        <5> QED BY <1>1, <4>2, <5>2
      <4>3. ASSUME NEW y \in lflight'[r], y.to = t, y.cell = i PROVE FALSE
        <5>1. y \in lflight[r] /\ y # w
          BY <1>5, <4>3
        <5>2. PICK d \in Grid(r) :
                 /\ lpc[r][d] # "publish" /\ y.to \in Lamport!Dst(r, d)
                 /\ y = [to |-> y.to, stage |-> StageOf(lop[r]), cell |-> Lamport!CellOf(r, d, r),
                         value |-> [op |-> lop[r], src |-> r, idx |-> Lamport!Idx(r, d), bits |-> "other"]]
          BY <5>1 DEF LamportInv, FlightInv
        <5>3. d \in Lamport!Cta /\ d < Lamport!gridDim(Lamport!Now(r))
          BY DEF Grid
        <5>4. y.cell = Lamport!CellOf(r, d, r)
          BY <5>2
        <5>5. t \in Lamport!Dst(r, d) /\ Lamport!CellOf(r, d, r) = Lamport!CellOf(r, c, r)
          BY <3>1, <4>3, <5>2, <5>4
        <5>6. d = c
          BY <1>0, <1>2, <3>1, <5>3, <5>5, CellsDiffer
        <5>7. y = [to |-> t, stage |-> StageOf(lop[r]), cell |-> Lamport!CellOf(r, c, r),
                   value |-> [op |-> lop[r], src |-> r, idx |-> Lamport!Idx(r, c), bits |-> "other"]]
          BY <4>3, <5>2, <5>6
        <5>8. w = [to |-> t, stage |-> StageOf(lop[r]), cell |-> Lamport!CellOf(r, c, r),
                   value |-> [op |-> lop[r], src |-> r, idx |-> Lamport!Idx(r, c), bits |-> "other"]]
          BY <1>1, <1>t
        <5> QED BY <5>1, <5>7, <5>8
      <4> QED BY <1>0, <4>1, <4>2, <4>3 DEF Delivered
    <3>5. /\ v.bits = "other" /\ v.src = r /\ v.op = lop[r] /\ v.idx = Lamport!Idx(r, c)
          /\ i = r * lprog[lop[r]].size + Lamport!Idx(r, c)
      BY <3>1, <3>2 DEF Lamport!CellOf
    <3>6. lbuf'[q][s][j] = v
      BY <1>4, <2>2
    <3>7. Delivered(lbuf[q][s][j].src, q, j)'
      <4>1. lbuf'[q][s][j].src = r
        BY <3>5, <3>6
      <4> QED BY <2>2, <3>4, <4>1 DEF Delivered
    <3>8. v.src \in Lamport!Rank /\ v.op \in Nat /\ v.op > 0 /\ v.op <= lop'[v.src] /\ v.op >= lop'[q] - 1 /\ s = StageOf(v.op)
      BY <1>0, <1>2, <1>u, <2>2, <3>3, <3>5
    <3>9. v.idx \in Nat /\ v.idx < lprog'[v.op].size /\ j = v.src * lprog'[v.op].size + v.idx
      BY <1>0, <2>2, <3>2, <3>5
    <3>10. v.op # lop'[q] - 1
      BY <1>0, <2>2, <3>3, <3>5
    <3> QED BY <3>5, <3>6, <3>7, <3>8, <3>9, <3>10 DEF CellInv
  <2> QED BY <2>1, <2>2
<1>f. \A q \in Lamport!Rank : FlightInv(q)'
  BY <1>q, FlightStays
<1> QED BY <1>q, <1>6, <1>7, <1>8, <1>9, <1>f, QuietStep

LEMMA PublishStep ==
    ASSUME Lamport!LamportAssumption, LamportInv, NEW r \in Lamport!Rank, NEW c \in Lamport!Cta, Lamport!Publish(r, c)
    PROVE  LamportInv'
<1> DEFINE pack == [op |-> lop[r], src |-> r, idx |-> Lamport!Idx(r, c), bits |-> "other"]
           new == {[to |-> q, stage |-> lepoch[r], cell |-> Lamport!CellOf(r, c, r), value |-> pack] : q \in Lamport!Dst(r, c)}
<1>0. /\ lprog' = lprog /\ lop' = lop /\ lepoch' = lepoch /\ lused' = lused /\ larrived' = larrived /\ lbuf' = lbuf
      /\ LamportTypeInv /\ lpc[r][c] = "publish" /\ lpc' = [lpc EXCEPT ![r][c] = "arrive"] /\ 0 \in Lamport!Cta
      /\ lstage' = [lstage EXCEPT ![r][c] = lepoch[r]]
      /\ ldirty' = [ldirty EXCEPT ![r][c] = lused[r][Lamport!mnnvl_lamport_dirty_stage(lepoch[r])]]
  BY LamportProgramFacts DEF Lamport!Publish, Lamport!kernel, Lamport!epochs, LamportInv
<1>p. Lamport!sanitize_lamport_payload(Lamport!Payload(r, c)) = pack
  BY DEF Lamport!sanitize_lamport_payload, Lamport!Payload, Lamport!is_lamport_dirty
<1>f. lflight' = [lflight EXCEPT ![r] = lflight[r] \cup new]
  BY <1>p DEF Lamport!Publish
<1> HIDE DEF pack
<1>1. /\ lpc' \in [Lamport!Rank -> [Lamport!Cta -> Places]] /\ lpc'[r][c] = "arrive"
      /\ \A q \in Lamport!Rank, d \in Lamport!Cta : q # r \/ d # c => lpc'[q][d] = lpc[q][d]
      /\ \A q \in Lamport!Rank : q # r => lpc'[q] = lpc[q]
  <2>1. "arrive" \in Places
    BY DEF Places
  <2> QED BY <1>0, <2>1, PlaceUpdate
<1>w. lop[r] > 0 /\ lop[r] \in Nat /\ c < Lamport!gridDim(Lamport!Now(r)) /\ c \in Grid(r)
  <2>1. BlockInv(r, c)
    BY DEF LamportInv
  <2>2. lop \in [Lamport!Rank -> 0 .. Len(lprog)] /\ Len(lprog) \in Nat
    BY <1>0, LamportProgramFacts DEF LamportTypeInv
  <2> QED BY <1>0, <2>1, <2>2 DEF BlockInv, Grid
<1>e. /\ lpc[r][0] # "exit" /\ lepoch[r] = StageOf(lop[r]) /\ lepoch[r] \in Lamport!Stage
      /\ lused[r][Lamport!mnnvl_lamport_dirty_stage(lepoch[r])] = (IF lop[r] = 1 THEN 0 ELSE Lamport!WrittenCells(lprog[lop[r] - 1]))
      /\ Lamport!mnnvl_lamport_dirty_stage(lepoch[r]) \in Lamport!Stage
  <2>1. EpochInv(r)
    BY DEF LamportInv
  <2>2. lpc[r][0] # "exit"
    BY <1>0, <2>1 DEF EpochInv
  <2>3. PICK j \in Nat : j = lop[r] - 1
    BY <1>w
  <2>4. j + 1 = lop[r] /\ (j = 0 <=> lop[r] = 1)
    BY <1>w, <2>3
  <2>5. lepoch[r] = StageOf(j + 1) /\ lused[r][StageOf(j)] = IF j = 0 THEN 0 ELSE Lamport!WrittenCells(lprog[j])
    BY <2>1, <2>2, <2>3 DEF EpochInv
  <2>6. Lamport!mnnvl_lamport_dirty_stage(StageOf(j + 1)) = StageOf(j) /\ StageOf(j + 1) \in Lamport!Stage /\ StageOf(j) \in Lamport!Stage
    BY StageFacts
  <2> QED BY <2>2, <2>3, <2>4, <2>5, <2>6
<1>k. /\ \A q : Lamport!Now(q)' = Lamport!Now(q) /\ Grid(q)' = Grid(q)
      /\ \A q, d : Lamport!Idx(q, d)' = Lamport!Idx(q, d) /\ Lamport!Dst(q, d)' = Lamport!Dst(q, d) /\ Lamport!Src(q, d)' = Lamport!Src(q, d)
      /\ \A q, d, x : Lamport!CellOf(q, d, x)' = Lamport!CellOf(q, d, x)
  BY <1>0, KernelSame
<1>n. \A w \in new : /\ w.to \in Lamport!Dst(r, c) /\ w.cell = Lamport!CellOf(r, c, r)
                     /\ w = [to |-> w.to, stage |-> lepoch[r], cell |-> Lamport!CellOf(r, c, r), value |-> pack]
  OBVIOUS
<1> HIDE DEF new
<1>2. DOMAIN lflight' = Lamport!Rank /\ lflight'[r] = lflight[r] \cup new /\ \A q \in Lamport!Rank : q # r => lflight'[q] = lflight[q]
  BY <1>0, <1>f DEF LamportTypeInv
<1>q. Quiet(r)
  <2>1. \A q \in Lamport!Rank : \A w \in lflight'[q] :
         w \in lflight[q] \/ \E d \in Lamport!Cta : lpc[q][d] = "publish" /\ w.to \in Lamport!Dst(q, d) /\ w.cell = Lamport!CellOf(q, d, q)
    BY <1>0, <1>n, <1>2
  <2> QED BY <1>0, <1>1, <2>1 DEF Quiet
<1>3. /\ lstage' \in [Lamport!Rank -> [Lamport!Cta -> Lamport!Stage]] /\ lstage'[r][c] = StageOf(lop[r])
      /\ \A d \in Lamport!Cta : d # c => lstage'[r][d] = lstage[r][d]
      /\ \A q \in Lamport!Rank : q # r => lstage'[q] = lstage[q]
  BY <1>0, <1>e DEF LamportTypeInv
<1>4. /\ ldirty' \in [Lamport!Rank -> [Lamport!Cta -> Nat]]
      /\ ldirty'[r][c] = (IF lop[r] = 1 THEN 0 ELSE Lamport!WrittenCells(lprog[lop[r] - 1]))
      /\ \A d \in Lamport!Cta : d # c => ldirty'[r][d] = ldirty[r][d]
      /\ \A q \in Lamport!Rank : q # r => ldirty'[q] = ldirty[q]
  <2>1. lused[r][Lamport!mnnvl_lamport_dirty_stage(lepoch[r])] \in Nat /\ ldirty \in [Lamport!Rank -> [Lamport!Cta -> Nat]]
    BY <1>0, <1>e DEF LamportTypeInv
  <2>2. PICK n \in Nat : n = lused[r][Lamport!mnnvl_lamport_dirty_stage(lepoch[r])]
    BY <2>1
  <2>3. ldirty' = [ldirty EXCEPT ![r][c] = n]
    BY <1>0, <2>2
  <2> QED BY <1>e, <2>1, <2>2, <2>3
<1>5. LamportTypeInv'
  BY <1>0, <1>1, <1>2, <1>3, <1>4 DEF LamportTypeInv
<1>o. \A q \in Lamport!Rank : q # r => EpochInv(q)' /\ \A d \in Lamport!Cta : BlockInv(q, d)'
  BY <1>0, <1>1, <1>3, <1>4, OtherBlocks
<1>6. EpochInv(r)'
  <2>1. EpochInv(r)
    BY DEF LamportInv
  <2>2. lpc'[r][0] # "exit"
    BY <1>0, <1>1, <1>e
  <2>3. {d \in Grid(r)' : lpc'[r][d] \notin {"publish", "arrive"}}
          = {d \in Grid(r) : lpc[r][d] \notin {"publish", "arrive"}}
    BY <1>0, <1>k, <1>1 DEF Grid
  <2> QED BY <1>0, <1>e, <2>1, <2>2, <2>3 DEF EpochInv
<1>7. ASSUME NEW d \in Lamport!Cta PROVE BlockInv(r, d)'
  <2>1. BlockInv(r, d)
    BY DEF LamportInv
  <2>2. CASE d = c
    BY <1>0, <1>w, <1>k, <1>1, <1>3, <1>4, <2>2 DEF BlockInv
  <2>3. CASE d # c
    BY <1>0, <1>k, <1>1, <1>3, <1>4, <2>1, <2>3 DEF BlockInv
  <2> QED BY <2>2, <2>3
<1>8. \A d \in Lamport!Cta, q \in Lamport!Rank : WaitedInv(r, d, q)'
  <2>1. \A d \in Lamport!Cta : lpc'[r][d] \in {"update", "exit"} => lpc[r][d] \in {"update", "exit"}
    BY <1>0, <1>1
  <2> QED BY <1>q, <2>1, WaitedStays
<1>9. \A q \in Lamport!Rank, s \in Lamport!Stage, i \in Lamport!Cell : CellInv(q, s, i)'
  <2>1. \A q \in Lamport!Rank, d \in Lamport!Cta : lpc[q][d] \in {"publish", "arrive", "clear"} =>
               lpc'[q][d] \in {"publish", "arrive", "clear"}
    BY <1>0, <1>1
  <2> QED BY <1>0, <1>q, <2>1, CellStays
<1>b. \A q \in Lamport!Rank, d \in Lamport!Cta : BlockInv(q, d)'
  BY <1>o, <1>7
<1>g. ASSUME NEW q \in Lamport!Rank PROVE FlightInv(q)'
  <2>1. CASE q # r
    BY <1>q, <1>2, <2>1, FlightStays
  <2>2. CASE q = r
    <3> SUFFICES ASSUME NEW w \in lflight'[r]
                 PROVE  /\ lop'[r] > 0
                        /\ \E d \in Grid(r)' :
                              /\ lpc'[r][d] # "publish" /\ w.to \in Lamport!Dst(r, d)'
                              /\ w = [to |-> w.to, stage |-> StageOf(lop'[r]), cell |-> Lamport!CellOf(r, d, r)',
                                      value |-> [op |-> lop'[r], src |-> r, idx |-> Lamport!Idx(r, d)', bits |-> "other"]]
      BY <2>2 DEF FlightInv
    <3>1. CASE w \in lflight[r]
      <4>1. PICK d \in Grid(r) :
               /\ lpc[r][d] # "publish" /\ w.to \in Lamport!Dst(r, d)
               /\ w = [to |-> w.to, stage |-> StageOf(lop[r]), cell |-> Lamport!CellOf(r, d, r),
                       value |-> [op |-> lop[r], src |-> r, idx |-> Lamport!Idx(r, d), bits |-> "other"]]
        BY <3>1 DEF LamportInv, FlightInv
      <4>2. d \in Lamport!Cta
        BY DEF Grid
      <4> QED BY <1>0, <1>w, <1>k, <1>1, <4>1, <4>2
    <3>2. CASE w \in new
      <4>1. w.to \in Lamport!Dst(r, c) /\ w = [to |-> w.to, stage |-> StageOf(lop[r]), cell |-> Lamport!CellOf(r, c, r), value |-> pack]
        BY <1>n, <1>e, <3>2
      <4> QED BY <1>0, <1>w, <1>k, <1>1, <4>1 DEF pack
    <3> QED BY <1>2, <3>1, <3>2
  <2> QED BY <2>1, <2>2
<1> QED BY <1>q, <1>5, <1>o, <1>6, <1>b, <1>8, <1>9, <1>g, QuietStep
----------------------------------------------------------------------------
(* The next kernel. *)

(* A GPU that has ended its kernel has all that a peer which is not ahead had to
   send to it. *)
LEMMA EndedHasAll ==
    ASSUME Lamport!LamportAssumption, LamportInv, NEW r \in Lamport!Rank, Lamport!Ended(r), NEW q \in Lamport!Rank, q # r
    PROVE  /\ lop[q] >= lop[r]
           /\ lop[q] = lop[r] =>
                /\ \A c \in Lamport!Cta : lpc[q][c] = "publish" => r \notin Lamport!Dst(q, c)
                /\ \A w \in lflight[q] : w.to # r
<1>0. LamportTypeInv /\ \A c \in Lamport!Cta : lpc[r][c] = "exit"
  BY DEF LamportInv, Lamport!Ended
<1>1. lop[r] \in Nat /\ lop[q] \in Nat /\ N \in Nat /\ N >= 2 /\ 0 \in Lamport!Cta /\ Lamport!Rank \subseteq Nat
  <2>1. lop \in [Lamport!Rank -> 0 .. Len(lprog)] /\ Len(lprog) \in Nat
    BY <1>0, LamportProgramFacts DEF LamportTypeInv
  <2> QED BY <1>0, <2>1, LamportProgramFacts
<1>2. lop[q] >= lop[r]
  <2>1. CASE lop[r] = 0
    BY <1>1, <2>1
  <2>2. CASE lop[r] > 0
    <3>1. PICK c \in Lamport!Cta : c < Lamport!gridDim(Lamport!Now(r)) /\ q \in Lamport!Src(r, c)
      <4>1. CASE Lamport!Now(r).kind = "allgather"
        <5>1. 0 < Lamport!gridDim(Lamport!Now(r))
          BY <1>0, <2>2, OpFacts
        <5> QED BY <1>1, <4>1, <5>1 DEF Lamport!Src
      <4>2. CASE Lamport!Now(r).kind # "allgather"
        <5> DEFINE z == Lamport!Now(r).size
        <5>1. Lamport!gridDim(Lamport!Now(r)) = N * z /\ z \in Nat /\ z >= 1
          BY <1>0, <2>2, <4>2, OpFacts DEF Lamport!gridDim
        <5>2. r \in Nat /\ r < N
          BY <1>1 DEF Lamport!Rank
        <5> HIDE DEF z
        <5>3. N * z >= N
          BY <1>1, <5>1
        <5>4. r < Lamport!gridDim(Lamport!Now(r))
          BY <1>1, <5>1, <5>2, <5>3
        <5>5. r \in Lamport!Cta
          BY <1>0, <2>2, <5>2, <5>4, OpFacts
        <5>6. r % N = r
          BY <1>1, <5>2
        <5>7. q \in Lamport!Src(r, r)
          BY <5>6 DEF Lamport!Src
        <5> QED BY <5>4, <5>5, <5>7
      <4> QED BY <4>1, <4>2
    <3>2. WaitedInv(r, c, q)
      BY DEF LamportInv
    <3> QED BY <1>0, <2>2, <3>1, <3>2 DEF WaitedInv
  <2> QED BY <1>1, <2>1, <2>2
<1>3. ASSUME lop[q] = lop[r], NEW c \in Lamport!Cta, lop[r] > 0, c < Lamport!gridDim(Lamport!Now(q)), r \in Lamport!Dst(q, c)
      PROVE  Delivered(q, r, Lamport!CellOf(q, c, q))
  <2>1. q \in Lamport!Src(r, c) /\ Lamport!CellOf(r, c, q) = Lamport!CellOf(q, c, q) /\ Lamport!Now(r) = Lamport!Now(q)
    BY <1>0, <1>3, BlocksMatch
  <2>2. WaitedInv(r, c, q)
    BY DEF LamportInv
  <2> QED BY <1>0, <1>3, <2>1, <2>2 DEF WaitedInv
<1>4. ASSUME lop[q] = lop[r], NEW c \in Lamport!Cta, lpc[q][c] = "publish", r \in Lamport!Dst(q, c) PROVE FALSE
  <2>1. lop[q] > 0 /\ c < Lamport!gridDim(Lamport!Now(q))
    BY <1>4 DEF LamportInv, BlockInv
  <2>2. Delivered(q, r, Lamport!CellOf(q, c, q))
    BY <1>3, <1>4, <2>1
  <2> QED BY <1>4, <2>2 DEF Delivered
<1>5. ASSUME lop[q] = lop[r], NEW w \in lflight[q], w.to = r PROVE FALSE
  <2>1. lop[q] > 0 /\ \E c \in Grid(q) :
                  /\ lpc[q][c] # "publish" /\ w.to \in Lamport!Dst(q, c)
                  /\ w = [to |-> w.to, stage |-> StageOf(lop[q]), cell |-> Lamport!CellOf(q, c, q),
                          value |-> [op |-> lop[q], src |-> q, idx |-> Lamport!Idx(q, c), bits |-> "other"]]
    BY DEF LamportInv, FlightInv
  <2>2. PICK c \in Grid(q) : r \in Lamport!Dst(q, c) /\ w.cell = Lamport!CellOf(q, c, q)
    <3>1. PICK c \in Grid(q) :
                  /\ lpc[q][c] # "publish" /\ w.to \in Lamport!Dst(q, c)
                  /\ w = [to |-> w.to, stage |-> StageOf(lop[q]), cell |-> Lamport!CellOf(q, c, q),
                          value |-> [op |-> lop[q], src |-> q, idx |-> Lamport!Idx(q, c), bits |-> "other"]]
      BY <2>1
    <3>2. w.cell = Lamport!CellOf(q, c, q)
      BY <3>1
    <3> QED BY <1>5, <3>1, <3>2
  <2>3. Delivered(q, r, Lamport!CellOf(q, c, q))
    BY <1>3, <1>5, <2>1, <2>2 DEF Grid
  <2> QED BY <1>5, <2>2, <2>3 DEF Delivered
<1> QED BY <1>2, <1>4, <1>5

LEMMA LamportLaunchStep ==
    ASSUME Lamport!LamportAssumption, LamportInv, NEW r \in Lamport!Rank, Lamport!Launch(r)
    PROVE  LamportInv'
<1> DEFINE g == Lamport!gridDim(lprog[lop[r] + 1])
<1>0. /\ lprog' = lprog /\ lstage' = lstage /\ ldirty' = ldirty /\ lepoch' = lepoch /\ lused' = lused /\ larrived' = larrived
      /\ lflight' = lflight /\ lbuf' = lbuf /\ LamportTypeInv /\ Lamport!Ended(r)
      /\ lpc' = [lpc EXCEPT ![r] = [c \in Lamport!Cta |-> IF c < g THEN "publish" ELSE "exit"]]
  BY DEF Lamport!Launch, Lamport!epochs, LamportInv
<1>k. /\ lop[r] \in Nat /\ lop[r] + 1 \in 1 .. Len(lprog) /\ lop' \in [Lamport!Rank -> 0 .. Len(lprog)]
      /\ lop'[r] = lop[r] + 1 /\ (\A q \in Lamport!Rank : q # r => lop'[q] = lop[q]) /\ \A q \in Lamport!Rank : lop[q] \in Nat
  <2>1. lop \in [Lamport!Rank -> 0 .. Len(lprog)] /\ Len(lprog) \in Nat
    BY <1>0, LamportProgramFacts DEF LamportTypeInv
  <2>2. lop[r] < Len(lprog) /\ lop' = [lop EXCEPT ![r] = lop[r] + 1]
    BY DEF Lamport!Launch
  <2>3. lop[r] + 1 \in 0 .. Len(lprog) /\ lop[r] + 1 \in 1 .. Len(lprog)
    BY <2>1, <2>2
  <2>4. \A q \in Lamport!Rank : lop[q] \in Nat
    BY <2>1
  <2> QED BY <2>1, <2>2, <2>3, <2>4
<1>g. g \in Nat /\ g >= 1 /\ 0 \in Lamport!Cta /\ Lamport!Cta \subseteq Nat /\ \A c \in Nat : c < g => c \in Lamport!Cta
  BY <1>0, <1>k, GridFacts, LamportProgramFacts
<1>n. Lamport!Now(r)' = lprog[lop[r] + 1] /\ Lamport!gridDim(Lamport!Now(r)') = g /\ \A q \in Lamport!Rank : q # r => Lamport!Now(q)' = Lamport!Now(q)
  BY <1>0, <1>k DEF Lamport!Now
<1> HIDE DEF g
<1>e. lflight[r] = {} /\ \A c \in Lamport!Cta : lpc[r][c] = "exit"
  BY <1>0 DEF Lamport!Ended
<1>1. /\ lpc' \in [Lamport!Rank -> [Lamport!Cta -> Places]] /\ \A c \in Lamport!Cta : lpc'[r][c] = IF c < g THEN "publish" ELSE "exit"
      /\ \A q \in Lamport!Rank : q # r => lpc'[q] = lpc[q]
  BY <1>0 DEF LamportTypeInv, Places
<1>2. LamportTypeInv'
  BY <1>0, <1>k, <1>1 DEF LamportTypeInv
<1>o. \A q \in Lamport!Rank : q # r => EpochInv(q)' /\ \A d \in Lamport!Cta : BlockInv(q, d)'
  BY <1>0, <1>k, <1>1, OtherBlocks
<1>h. ASSUME NEW q \in Lamport!Rank, q # r, NEW c \in Lamport!Cta, NEW x
      PROVE  /\ Lamport!Idx(q, c)' = Lamport!Idx(q, c) /\ Lamport!Dst(q, c)' = Lamport!Dst(q, c) /\ Lamport!Src(q, c)' = Lamport!Src(q, c)
             /\ Lamport!CellOf(q, c, x)' = Lamport!CellOf(q, c, x) /\ Grid(q)' = Grid(q)
  BY <1>n, <1>h DEF Lamport!Idx, Lamport!Dst, Lamport!Src, Lamport!CellOf, Grid
<1>3. EpochInv(r)'
  <2>1. EpochInv(r) /\ lpc[r][0] = "exit"
    BY <1>g, <1>e DEF LamportInv
  <2>2. lpc'[r][0] = "publish"
    BY <1>g, <1>1
  <2>3. {d \in Grid(r)' : lpc'[r][d] \notin {"publish", "arrive"}} = {}
    BY <1>n, <1>1 DEF Grid
  <2>4. lop'[r] - 1 = lop[r]
    BY <1>k
  <2>5. larrived[r] = 0 /\ Cardinality({}) = 0
    BY <2>1, FS_EmptySet DEF EpochInv
  <2> QED BY <1>0, <2>1, <2>2, <2>3, <2>4, <2>5 DEF EpochInv
<1>4. \A d \in Lamport!Cta : BlockInv(r, d)'
  BY <1>k, <1>n, <1>1 DEF BlockInv
<1>5. ASSUME NEW q \in Lamport!Rank PROVE FlightInv(q)'
  <2>1. CASE q = r
    BY <1>0, <1>e, <2>1 DEF FlightInv
  <2>2. CASE q # r
    <3>1. FlightInv(q) /\ lop'[q] = lop[q] /\ lpc'[q] = lpc[q] /\ lflight'[q] = lflight[q] /\ Grid(q)' = Grid(q)
      BY <1>0, <1>k, <1>g, <1>1, <1>h, <2>2 DEF LamportInv
    <3>2. \A c \in Grid(q) : Lamport!Idx(q, c)' = Lamport!Idx(q, c) /\ Lamport!Dst(q, c)' = Lamport!Dst(q, c) /\ Lamport!CellOf(q, c, q)' = Lamport!CellOf(q, c, q)
      BY <1>h, <2>2 DEF Grid
    <3> QED BY <3>1, <3>2 DEF FlightInv
  <2> QED BY <2>1, <2>2
<1>d. ASSUME NEW q \in Lamport!Rank, q # r, NEW s \in Lamport!Rank, NEW i, Delivered(q, s, i) PROVE Delivered(q, s, i)'
  BY <1>0, <1>1, <1>h, <1>d DEF Delivered
<1>6. ASSUME NEW s \in Lamport!Rank, NEW q \in Lamport!Rank PROVE OrderInv(s, q)'
  <2>1. CASE s = q
    <3>1. lop'[q] \in Nat
      BY <1>k
    <3> QED BY <2>1, <3>1 DEF OrderInv
  <2>2. CASE s = r /\ q # r
    <3>1. /\ lop[q] >= lop[r]
          /\ lop[q] = lop[r] =>
                /\ \A c \in Lamport!Cta : lpc[q][c] = "publish" => r \notin Lamport!Dst(q, c)
                /\ \A w \in lflight[q] : w.to # r
      BY <1>0, <2>2, EndedHasAll
    <3>2. lop'[r] - 1 = lop[r] /\ lop'[q] = lop[q]
      BY <1>k, <2>2
    <3>3. \A c \in Lamport!Cta : Lamport!Dst(q, c)' = Lamport!Dst(q, c) /\ lpc'[q][c] = lpc[q][c]
      BY <1>1, <1>h, <2>2
    <3> QED BY <1>0, <2>2, <3>1, <3>2, <3>3 DEF OrderInv
  <2>3. CASE s # r /\ q = r
    <3>1. OrderInv(s, r)
      BY <2>3 DEF LamportInv
    <3>2. lop'[r] = lop[r] + 1 /\ lop'[s] = lop[s] /\ lop[r] \in Nat /\ lop[s] \in Nat
      BY <1>k, <2>3
    <3>3. lop'[r] >= lop'[s] - 1 /\ lop'[r] # lop'[s] - 1
      BY <3>1, <3>2 DEF OrderInv
    <3> QED BY <2>3, <3>3 DEF OrderInv
  <2>4. CASE s # r /\ q # r
    <3>1. OrderInv(s, q) /\ lop'[q] = lop[q] /\ lop'[s] = lop[s]
      BY <1>k, <2>4 DEF LamportInv
    <3>3. \A c \in Lamport!Cta : Lamport!Dst(q, c)' = Lamport!Dst(q, c) /\ lpc'[q][c] = lpc[q][c]
      BY <1>1, <1>h, <2>4
    <3> QED BY <1>0, <3>1, <3>3 DEF OrderInv
  <2> QED BY <2>1, <2>2, <2>3, <2>4
<1>7. ASSUME NEW s \in Lamport!Rank, NEW q \in Lamport!Rank, NEW c \in Lamport!Cta PROVE WaitedInv(s, c, q)'
  <2>1. CASE s = r
    BY <1>n, <1>1, <2>1 DEF WaitedInv
  <2>2. CASE s # r
    <3>0. /\ lop'[s] = lop[s] /\ lpc'[s] = lpc[s] /\ Lamport!Now(s)' = Lamport!Now(s) /\ Lamport!Src(s, c)' = Lamport!Src(s, c)
          /\ Lamport!CellOf(s, c, q)' = Lamport!CellOf(s, c, q) /\ WaitedInv(s, c, q)
      BY <1>k, <1>n, <1>1, <1>h, <2>2 DEF LamportInv
    <3>1. CASE q = r
      <4>1. lop'[q] = lop[q] + 1 /\ lop[q] \in Nat /\ lop[s] \in Nat
        BY <1>k, <3>1
      <4> QED BY <3>0, <4>1 DEF WaitedInv
    <3>2. CASE q # r
      <4>1. lop'[q] = lop[q]
        BY <1>k, <3>2
      <4>2. PICK i : i = Lamport!CellOf(s, c, q)
        OBVIOUS
      <4>3. Delivered(q, s, i) => Delivered(q, s, i)'
        BY <1>d, <3>2
      <4>4. Delivered(q, s, Lamport!CellOf(s, c, q))' <=> Delivered(q, s, i)'
        <5>1. Lamport!CellOf(s, c, q)' = i
          BY <3>0, <4>2
        <5> QED BY <5>1 DEF Delivered
      <4> QED BY <3>0, <4>1, <4>2, <4>3, <4>4 DEF WaitedInv
    <3> QED BY <3>1, <3>2
  <2> QED BY <2>1, <2>2
<1>8. ASSUME NEW q \in Lamport!Rank, NEW s \in Lamport!Stage, NEW i \in Lamport!Cell PROVE CellInv(q, s, i)'
  <2>0. CellInv(q, s, i)
    BY DEF LamportInv
  <2>1. CASE lbuf[q][s][i] = Lamport!lamport_sentinel
    BY <1>0, <2>1 DEF CellInv
  <2>2. CASE lbuf[q][s][i] # Lamport!lamport_sentinel
    <3>v. PICK v : v = lbuf[q][s][i]
      OBVIOUS
    <3>1. /\ v.bits = "other" /\ v.src \in Lamport!Rank /\ v.op \in Nat /\ v.op > 0 /\ v.op <= lop[v.src]
          /\ v.op >= lop[q] - 1 /\ s = StageOf(v.op)
          /\ v.idx \in Nat /\ v.idx < lprog[v.op].size /\ i = v.src * lprog[v.op].size + v.idx
          /\ v.op = lop[q] - 1 => lpc[q][i % Lamport!gridDim(Lamport!Now(q))] \in {"publish", "arrive", "clear"}
          /\ v.op = lop[v.src] => Delivered(v.src, q, i)
      BY <2>0, <2>2, <3>v DEF CellInv
    <3>2. v.op <= lop'[v.src] /\ (v.op = lop'[v.src] => v.op = lop[v.src] /\ v.src # r)
      <4>1. CASE v.src = r
        BY <1>k, <3>1, <4>1
      <4>2. CASE v.src # r
        BY <1>k, <3>1, <4>2
      <4> QED BY <4>1, <4>2
    <3>3. v.op = lop'[v.src] => Delivered(v.src, q, i)'
      <4>1. PICK x \in Lamport!Rank : x = v.src
        BY <3>1
      <4>2. v.op = lop'[v.src] => Delivered(x, q, i)'
        BY <1>d, <3>1, <3>2, <4>1
      <4> QED BY <4>1, <4>2
    <3>4. v.op >= lop'[q] - 1 /\ (v.op = lop'[q] - 1 => lpc'[q][i % Lamport!gridDim(Lamport!Now(q)')] \in {"publish", "arrive", "clear"})
      <4>1. CASE q # r
        BY <1>k, <1>n, <1>1, <3>1, <4>1
      <4>2. CASE q = r
        <5>1. v.op # lop[r] - 1
          <6> SUFFICES ASSUME v.op = lop[r] - 1 PROVE FALSE
            OBVIOUS
          <6>1. lop[r] > 0
            BY <1>k, <3>1
          <6>2. i % Lamport!gridDim(Lamport!Now(r)) \in Lamport!Cta
            BY <1>0, <6>1, ClearsAt
          <6> QED BY <1>e, <3>1, <4>2, <6>2
        <5>2. v.op >= lop'[r] - 1
          BY <1>k, <3>1, <4>2, <5>1
        <5>3. lpc'[r][i % g] = "publish"
          <6>1. i \in Nat
            BY <1>0, LamportProgramFacts DEF Lamport!Cell
          <6>2. i % g \in Nat /\ i % g < g
            BY <1>g, <6>1
          <6> QED BY <1>g, <1>1, <6>2
        <5> QED BY <1>n, <4>2, <5>2, <5>3
      <4> QED BY <4>1, <4>2
    <3>5. lbuf'[q][s][i] = v
      BY <1>0, <3>v
    <3>6. v.op = lop'[v.src] => Delivered(lbuf[q][s][i].src, q, i)'
      <4>1. lbuf'[q][s][i].src = v.src
        BY <3>5
      <4>2. PICK x : x = v.src
        OBVIOUS
      <4> QED BY <3>3, <4>1, <4>2 DEF Delivered
    <3> QED BY <1>0, <3>1, <3>2, <3>4, <3>5, <3>6 DEF CellInv
  <2> QED BY <2>1, <2>2
<1>9. \A q \in Lamport!Rank : EpochInv(q)' /\ \A c \in Lamport!Cta : BlockInv(q, c)'
  BY <1>o, <1>3, <1>4
<1> QED BY <1>2, <1>5, <1>6, <1>7, <1>8, <1>9 DEF LamportInv
----------------------------------------------------------------------------
LEMMA LamportInit ==
    ASSUME Lamport!LamportAssumption, Lamport!Init PROVE LamportInv
<1>1. lprog \in Seq(Lamport!Operation(0 .. N - 1)) /\ Len(lprog) \in Nat /\ 0 \in 0 .. Len(lprog)
  BY DEF Lamport!LamportAssumption, Lamport!Init
<1>2. LamportTypeInv
  <2>1. /\ lop \in [Lamport!Rank -> 0 .. Len(lprog)] /\ lpc \in [Lamport!Rank -> [Lamport!Cta -> Places]]
        /\ lstage \in [Lamport!Rank -> [Lamport!Cta -> Lamport!Stage]] /\ ldirty \in [Lamport!Rank -> [Lamport!Cta -> Nat]]
    BY <1>1 DEF Lamport!Init, Places, Lamport!Stage
  <2>2. /\ lepoch \in [Lamport!Rank -> Lamport!Stage] /\ larrived \in [Lamport!Rank -> Nat] /\ lused \in [Lamport!Rank -> [Lamport!Stage -> Nat]]
        /\ DOMAIN lflight = Lamport!Rank
    BY DEF Lamport!Init, Lamport!Stage
  <2>3. DOMAIN lbuf = Lamport!Rank /\ \A r \in Lamport!Rank : DOMAIN lbuf[r] = Lamport!Stage /\ \A s \in Lamport!Stage : DOMAIN lbuf[r][s] = Lamport!Cell
    BY DEF Lamport!Init
  <2> QED BY <2>1, <2>2, <2>3 DEF LamportTypeInv, Lamport!Init
<1>3. ASSUME NEW r \in Lamport!Rank
      PROVE  /\ lop[r] = 0 /\ lepoch[r] = 0 /\ larrived[r] = 0 /\ lflight[r] = {}
             /\ \A c \in Lamport!Cta : lpc[r][c] = "exit"
             /\ \A s \in Lamport!Stage : lused[r][s] = 0
             /\ \A s \in Lamport!Stage, i \in Lamport!Cell : lbuf[r][s][i] = Lamport!lamport_sentinel
  BY DEF Lamport!Init
<1>4. ASSUME NEW r \in Lamport!Rank PROVE EpochInv(r) /\ FlightInv(r)
  <2>1. lpc[r][0] = "exit"
    BY <1>2, <1>3, LamportProgramFacts
  <2>2. StageOf(0 + 1) = 0 /\ StageOf(0) \in Lamport!Stage
    BY DEF StageOf, Lamport!Stage
  <2> QED BY <1>3, <2>1, <2>2 DEF EpochInv, FlightInv
<1>5. \A r \in Lamport!Rank, c \in Lamport!Cta : BlockInv(r, c)
  BY <1>3 DEF BlockInv
<1>6. \A r, q \in Lamport!Rank : OrderInv(r, q)
  BY <1>3 DEF OrderInv
<1>7. \A r, q \in Lamport!Rank, c \in Lamport!Cta : WaitedInv(r, c, q)
  BY <1>3 DEF WaitedInv
<1>8. \A r \in Lamport!Rank, s \in Lamport!Stage, i \in Lamport!Cell : CellInv(r, s, i)
  BY <1>3 DEF CellInv
<1> QED BY <1>2, <1>4, <1>5, <1>6, <1>7, <1>8 DEF LamportInv

LEMMA LamportStutter ==
    ASSUME Lamport!LamportAssumption, LamportInv, UNCHANGED Lamport!vars PROVE LamportInv'
<1>0. lprog' = lprog /\ lop' = lop /\ lpc' = lpc /\ lstage' = lstage /\ ldirty' = ldirty /\ lepoch' = lepoch /\ larrived' = larrived
      /\ lused' = lused /\ lflight' = lflight /\ lbuf' = lbuf /\ LamportTypeInv
  BY DEF Lamport!vars, Lamport!kernel, Lamport!epochs, LamportInv
<1>1. PICK r \in Lamport!Rank : TRUE
  BY <1>0, LamportProgramFacts
<1>2. Quiet(r) /\ LamportTypeInv'
  BY <1>0 DEF Quiet, LamportTypeInv
<1>3. \A q \in Lamport!Rank : EpochInv(q)' /\ \A c \in Lamport!Cta : BlockInv(q, c)'
  BY <1>0, OtherBlocks
<1>4. \A q \in Lamport!Rank : FlightInv(q)'
  BY <1>0, <1>2, FlightStays
<1>5. \A c \in Lamport!Cta, q \in Lamport!Rank : WaitedInv(r, c, q)'
  BY <1>0, <1>2, WaitedStays
<1>6. \A q \in Lamport!Rank, s \in Lamport!Stage, i \in Lamport!Cell : CellInv(q, s, i)'
  BY <1>0, <1>2, CellStays
<1> QED BY <1>2, <1>3, <1>4, <1>5, <1>6, QuietStep

LEMMA LamportNext ==
    ASSUME Lamport!LamportAssumption, LamportInv, [Lamport!Next]_(Lamport!vars) PROVE LamportInv'
<1>1. CASE UNCHANGED Lamport!vars
  BY <1>1, LamportStutter
<1>2. CASE Lamport!Next
  <2>1. PICK r \in Lamport!Rank : Lamport!Gpu(r)
    BY <1>2 DEF Lamport!Next
  <2>2. CASE Lamport!Launch(r)
    BY <2>2, LamportLaunchStep
  <2>3. CASE Lamport!Update(r)
    BY <2>3, UpdateStep
  <2>4. CASE \E w \in lflight[r] : Lamport!Land(r, w)
    BY <2>4, LandStep
  <2>5. CASE \E c \in Lamport!Cta : Lamport!Publish(r, c)
    BY <2>5, PublishStep
  <2>6. CASE \E c \in Lamport!Cta : Lamport!lamport_cta_arrive(r, c)
    BY <2>6, ArriveStep
  <2>7. CASE \E c \in Lamport!Cta : Lamport!Clear(r, c)
    BY <2>7, ClearStep
  <2>8. CASE \E c \in Lamport!Cta : Lamport!Wait(r, c)
    BY <2>8, WaitStep
  <2> QED BY <2>1, <2>2, <2>3, <2>4, <2>5, <2>6, <2>7, <2>8 DEF Lamport!Gpu
<1> QED BY <1>1, <1>2

LEMMA StagesAreSound ==
    ASSUME Lamport!LamportAssumption, LamportInv PROVE Lamport!StagesSound
<1>1. Lamport!ReadsOwnOperation
  <2> SUFFICES ASSUME NEW r \in Lamport!Rank, NEW c \in Lamport!Cta, lpc[r][c] = "wait", NEW q \in Lamport!Src(r, c),
                      ~Lamport!is_lamport_dirty(lbuf[r][lstage[r][c]][Lamport!CellOf(r, c, q)])
               PROVE  LET cell == lbuf[r][lstage[r][c]][Lamport!CellOf(r, c, q)]
                      IN  cell.op = lop[r] /\ cell.src = q /\ cell.idx = Lamport!Idx(r, c)
    BY DEF Lamport!ReadsOwnOperation
  <2>1. lop[r] > 0 /\ c < Lamport!gridDim(Lamport!Now(r)) /\ lstage[r][c] = StageOf(lop[r])
    BY WorkingBlock
  <2>2. q \in Lamport!Rank
    BY DEF Lamport!Src
  <2> QED BY <2>1, <2>2, CellRead
<1>2. Lamport!CleanBeforeReuse
  <2> SUFFICES ASSUME NEW r \in Lamport!Rank, NEW c \in Lamport!Cta, lpc[r][c] \in {"arrive", "clear"}, NEW i \in Lamport!Cleared(r, c)
               PROVE  lbuf[r][Lamport!mnnvl_lamport_dirty_stage(lstage[r][c])][i].op < lop[r]
    BY DEF Lamport!CleanBeforeReuse
  <2>1. /\ LamportTypeInv /\ lop[r] > 0 /\ lop[r] \in Nat
        /\ Lamport!mnnvl_lamport_dirty_stage(lstage[r][c]) = StageOf(lop[r] - 1) /\ StageOf(lop[r] - 1) \in Lamport!Stage
    BY WorkingBlock
  <2> DEFINE s == StageOf(lop[r] - 1)
             v == lbuf[r][s][i]
  <2>2. CellInv(r, s, i)
    BY <2>1 DEF LamportInv, Lamport!Cleared
  <2>3. CASE v = Lamport!lamport_sentinel
    <3>1. v.op = 0
      BY <2>3 DEF Lamport!lamport_sentinel
    <3> QED BY <2>1, <3>1
  <2>4. CASE v # Lamport!lamport_sentinel
    <3>1. v.src \in Lamport!Rank /\ v.op \in Nat /\ v.op <= lop[v.src] /\ v.op >= lop[r] - 1 /\ s = StageOf(v.op)
      BY <2>2, <2>4 DEF CellInv
    <3>2. lop[v.src] <= lop[r] + 1 /\ lop[v.src] \in Nat
      <4>1. OrderInv(v.src, r)
        BY <3>1 DEF LamportInv
      <4>2. lop \in [Lamport!Rank -> 0 .. Len(lprog)] /\ Len(lprog) \in Nat
        BY <2>1, LamportProgramFacts DEF LamportTypeInv
      <4>3. lop[v.src] \in Nat
        BY <3>1, <4>2
      <4> QED BY <2>1, <4>1, <4>3 DEF OrderInv
    <3>3. PICK a \in Nat : a = lop[r] - 1
      BY <2>1
    <3>4. PICK b \in Nat : b = v.op
      BY <3>1
    <3>5. PICK d \in Nat : d = lop[v.src]
      BY <3>2
    <3>6. StageOf(a) = StageOf(b) /\ a <= b /\ b <= a + 2
      BY <2>1, <3>1, <3>2, <3>3, <3>4, <3>5
    <3>7. a = b
      BY <3>6, StageApart
    <3>8. v.op = lop[r] - 1
      BY <3>3, <3>4, <3>7
    <3>9. v.op < lop[r]
      BY <2>1, <3>8
    <3> QED BY <2>1, <3>9
  <2> QED BY <2>3, <2>4
<1> QED BY <1>1, <1>2 DEF Lamport!StagesSound

(* No stage of the buffers ever mixes two operations, for the block that reads
   it or the one that clears it (mnnvl_lamport_all_gather,
   mnnvl_lamport_reduce_scatter_kernel): with any number of GPUs and any sequence
   of operations of any size, although no GPU says that it has finished. *)
THEOREM StagesNeverMix ==
    ASSUME Lamport!LamportAssumption PROVE Lamport!Spec => []Lamport!StagesSound
<1>1. Lamport!Init => LamportInv
  BY LamportInit
<1>2. LamportInv /\ [Lamport!Next]_(Lamport!vars) => LamportInv'
  BY LamportNext
<1>3. LamportInv => Lamport!StagesSound
  BY StagesAreSound
<1> QED BY <1>1, <1>2, <1>3, PTL DEF Lamport!Spec

(* Kernels with barriers that run on the same GPUs do not disturb the Lamport
   stages (custom_all_gather_reduce_scatter.cuh): in every behaviour of the
   composition a cell that a kernel waits for is empty or of its own operation,
   and a stage is cleared of earlier operations only. *)
THEOREM LamportStagesSound == MCSpec => []StagesSound
<1>1. MCInit => LamportInv
  BY LamportInstance, LamportInit DEF MCInit
<1>2. LamportInv /\ [MCNext]_<<vars, lvars>> => LamportInv'
  <2>1. lvars' = lvars => Lamport!vars' = Lamport!vars
    BY DEF lvars, Lamport!vars, Lamport!kernel, Lamport!epochs
  <2>2. [MCNext]_<<vars, lvars>> => [Lamport!Next]_(Lamport!vars)
    BY <2>1 DEF MCNext
  <2> QED BY LamportInstance, <2>2, LamportNext
<1>3. LamportInv => StagesSound
  BY LamportInstance, StagesAreSound DEF StagesSound
<1> QED BY <1>1, <1>2, <1>3, PTL DEF MCSpec
===============================================================================
