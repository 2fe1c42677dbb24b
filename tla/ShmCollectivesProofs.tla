----------------------- MODULE ShmCollectivesProofs -----------------------
(***************************************************************************)
(* Proofs about the CPU collectives, for any number of ranks and any       *)
(* sequence of all-reduces, all-gathers and gathers in which a gather is   *)
(* followed by an operation that looks for conflicts.                      *)
(***************************************************************************)
EXTENDS ShmCollectives, SequenceTheorems, TLAPS

(* What a program must be like: no send and recv, and after a gather, which a
   sender leaves without waiting for anybody, no operation in fast_mode.  Only
   after the very first chunk there is nothing that could be overwritten. *)
Spaced(p) ==
    \A k \in 1 .. Len(p) :
        /\ p[k].kind # "p2p"
        /\ k > 1 /\ p[k].chunks = 1 /\ p[k - 1].kind = "gather" => k = 2 /\ p[1].chunks = 1

(* The chunks of a program in order. *)
At(r) == <<op[r], chunk[r]>>
Position == {x \in Nat \X Nat : x[1] \in 1 .. Len(prog) /\ x[2] \in 1 .. prog[x[1]].chunks}
Following(x) == IF x[2] < prog[x[1]].chunks THEN <<x[1], x[2] + 1>> ELSE <<x[1] + 1, 1>>

Stamp == 0 .. StampMod - 1
Committed == {"ready", "read", "next"}
Filled == Committed \cup {"commit"}
Places == Filled \cup {"op", "conflict", "copy"}
Symmetric(o) == o.kind \in {"allreduce", "allgather"}

(* r is at the chunk of q, or one or two chunks ahead. *)
Same(r, q) ==
    /\ At(r) = At(q) /\ currStamp[r][0] = currStamp[q][0] /\ mask[r][0] = mask[q][0]
Ahead(r, q) ==
    /\ At(q) \in Position /\ At(r) = Following(At(q))
    /\ currStamp[r][0] = (currStamp[q][0] + 1) % StampMod /\ mask[r][0] = 1 - mask[q][0]
TwoAhead(r, q) ==
    /\ At(q) \in Position /\ Following(At(q)) \in Position
    /\ At(r) = Following(Following(At(q)))
    /\ currStamp[r][0] = (currStamp[q][0] + 2) % StampMod /\ mask[r][0] = mask[q][0]

NotAhead(r, q) == Same(q, r) \/ Ahead(q, r) \/ TwoAhead(q, r)
OneAhead(r, q) == NotAhead(r, q) \/ Ahead(r, q)

TypeInv ==
    /\ prog \in Seq(Operation) /\ Spaced(prog)
    /\ op \in [Rank -> Nat] /\ chunk \in [Rank -> Nat]
    /\ \A r \in Rank : At(r) \in Position \/ (At(r) = <<Len(prog) + 1, 1>> /\ pc[r] = "op")
    /\ pc \in [Rank -> Places]
    /\ todo \in [Rank -> Seq(Rank)] /\ reading \in [Rank -> SUBSET Rank]
    /\ local = [r \in Rank |-> 0] /\ remote = [r \in Rank |-> 0]
    /\ currStamp \in [Rank -> [Index -> Stamp]] /\ readyStamp \in [Rank -> [Index -> Stamp]]
    /\ mask \in [Rank -> [Index -> Index]]
    /\ half \in [Rank -> [Index -> Nat \X Nat]]

Others(r) == Rank \ {r}

(* Where a rank is in its chunk. *)
RankInv(r) ==
    /\ pc[r] = "op" => chunk[r] = 1
    /\ pc[r] \notin {"ready", "read"} => reading[r] = {}
    /\ pc[r] = "ready" => todo[r] # <<>>
    /\ pc[r] = "next" => todo[r] = <<>>
    /\ \A i \in 1 .. Len(todo[r]) : todo[r][i] # r
    /\ IF pc[r] \in Committed
       THEN readyStamp[r][0] = currStamp[r][0]
       ELSE (readyStamp[r][0] + 1) % StampMod = currStamp[r][0]

(* Who is ahead of whom, and by how much. *)
LeadInv(r, q) == OneAhead(r, q) \/ TwoAhead(r, q)

Awaits(r, q) == \E i \in 1 .. Len(todo[r]) : todo[r][i] = q

(* A rank that fills its half is at most one chunk ahead, one that has waited
   for another in an operation in which all wait is not ahead of it. *)
WaitInv(r, q) ==
    /\ pc[r] \in {"copy"} \cup Filled \/ (pc[r] = "conflict" /\ ~Awaits(r, q)) => OneAhead(r, q)
    /\ pc[r] \in Committed /\ Symmetric(Now(r)) /\ ~Awaits(r, q) => NotAhead(r, q)
    /\ pc[r] = "op" /\ op[r] > 1 /\ Symmetric(prog[op[r] - 1]) => OneAhead(r, q)

(* The halves of r have the chunks that r has left last, and the one it is at
   when it is filled. *)
DataInv(r, q) ==
    /\ Same(r, q) /\ pc[r] \in Filled => half[r][mask[q][0]] = At(q)
    /\ Ahead(r, q) => half[r][mask[q][0]] = At(q)
    /\ TwoAhead(r, q) /\ pc[r] \in {"op", "conflict"} => half[r][mask[q][0]] = At(q)

PreviousInv(r) == \A x \in Position : Following(x) = At(r) => half[r][1 - mask[r][0]] = x

ReadInv(r, q) ==
    q \in reading[r] => q # r /\ NotAhead(r, q) /\ (Same(q, r) => pc[q] \in Committed)

ShmInv ==
    /\ TypeInv
    /\ \A r \in Rank : RankInv(r) /\ PreviousInv(r)
    /\ \A r, q \in Rank : LeadInv(r, q) /\ DataInv(r, q) /\ ReadInv(r, q)
    /\ \A r, q \in Rank : r # q => WaitInv(r, q)

-----------------------------------------------------------------------------
(* Stamps, ranks and positions *)

LEMMA Mod ==
    ASSUME NEW n \in Nat, n > 0, NEW x \in 0 .. n + n - 1
    PROVE  x % n = IF x < n THEN x ELSE x - n
OBVIOUS

LEMMA Later ==
    ASSUME StampMod >= 5, NEW s \in Stamp
    PROVE  /\ StampMod \in Nat /\ StampMod > 0
           /\ (s + 1) % StampMod = IF s + 1 < StampMod THEN s + 1 ELSE s + 1 - StampMod
           /\ (s + 2) % StampMod = IF s + 2 < StampMod THEN s + 2 ELSE s + 2 - StampMod
<1>1. StampMod \in Nat /\ StampMod > 0
  BY ShmAssumption
<1>2. s \in Int /\ s + 1 \in 0 .. StampMod + StampMod - 1 /\ s + 2 \in 0 .. StampMod + StampMod - 1
  BY <1>1 DEF Stamp
<1>3. \A x \in 0 .. StampMod + StampMod - 1 :
        x % StampMod = IF x < StampMod THEN x ELSE x - StampMod
  BY <1>1, Mod
<1>4. PICK x \in Int, y \in Int : x = s + 1 /\ y = s + 2
  BY <1>2
<1>5. /\ x % StampMod = IF x < StampMod THEN x ELSE x - StampMod
      /\ y % StampMod = IF y < StampMod THEN y ELSE y - StampMod
  BY <1>2, <1>3, <1>4
<1> QED BY <1>1, <1>2, <1>4, <1>5

LEMMA Swizzled ==
    ASSUME NEW r \in Rank
    PROVE  /\ swizzled_ranks(r) \in Seq(Rank) /\ swizzled_ranks(r) # <<>>
           /\ \A i \in 1 .. Len(swizzled_ranks(r)) : swizzled_ranks(r)[i] # r
           /\ \A q \in Others(r) : \E i \in 1 .. Len(swizzled_ranks(r)) : swizzled_ranks(r)[i] = q
<1>1. G \in Nat /\ G >= 2 /\ r \in 0 .. G - 1
  BY ShmAssumption DEF Rank
<1>2. \A i \in 1 .. G - 1 : (r + i) % G = IF r + i < G THEN r + i ELSE r + i - G
  <2> SUFFICES ASSUME NEW i \in 1 .. G - 1
               PROVE  (r + i) % G = IF r + i < G THEN r + i ELSE r + i - G
    OBVIOUS
  <2>1. r + i \in 0 .. G + G - 1
    BY <1>1
  <2> QED BY <1>1, <2>1, Mod
<1> DEFINE s == swizzled_ranks(r)
<1>3. s = [i \in 1 .. G - 1 |-> (r + i) % G]
  BY DEF swizzled_ranks
<1>4. \A i \in 1 .. G - 1 : (r + i) % G \in Rank /\ (r + i) % G # r
  BY <1>1, <1>2 DEF Rank
<1>5. s \in Seq(Rank) /\ Len(s) = G - 1 /\ \A i \in 1 .. G - 1 : s[i] = (r + i) % G
  <2> HIDE DEF s
  <2>0. G - 1 \in Nat
    BY <1>1
  <2>1. s \in [1 .. G - 1 -> Rank]
    BY <1>3, <1>4, Zenon
  <2>2. s \in Seq(Rank)
    BY <2>0, <2>1
  <2>3. DOMAIN s = 1 .. G - 1
    BY <1>3
  <2>4. Len(s) = G - 1
    BY <2>0, <2>2, <2>3, LenProperties
  <2> QED BY <1>3, <2>2, <2>4
<1> HIDE DEF s
<1>6. ASSUME NEW q \in Others(r) PROVE \E i \in 1 .. G - 1 : s[i] = q
  <2>1. q \in 0 .. G - 1 /\ q # r
    BY <1>6 DEF Others, Rank
  <2>2. CASE q > r
    <3>1. q - r \in 1 .. G - 1 /\ r + (q - r) = q /\ q < G
      BY <1>1, <2>1, <2>2
    <3> QED BY <1>2, <1>5, <3>1
  <2>3. CASE q < r
    <3>1. PICK i \in Int : i = q + G - r
      BY <1>1, <2>1
    <3>2. i \in 1 .. G - 1 /\ ~(r + i < G) /\ r + i - G = q
      BY <1>1, <2>1, <2>3, <3>1
    <3>3. (r + i) % G = r + i - G
      BY <1>2, <3>2
    <3>4. s[i] = q
      BY <1>5, <3>2, <3>3
    <3> QED BY <3>2, <3>4
  <2> QED BY <1>1, <2>1, <2>2, <2>3
<1>7. s # <<>>
  BY <1>1, <1>5
<1> QED BY <1>4, <1>5, <1>6, <1>7 DEF s

LEMMA Operations ==
    ASSUME TypeInv
    PROVE  /\ Len(prog) \in Nat
           /\ \A k \in 1 .. Len(prog) :
                 prog[k] \in Operation /\ prog[k].chunks \in Nat /\ prog[k].chunks >= 1
<1>1. prog \in Seq(Operation)
  BY DEF TypeInv
<1>2. \A k \in 1 .. Len(prog) : prog[k] \in Operation
  BY <1>1
<1> QED BY <1>1, <1>2 DEF Operation

LEMMA Following1 ==
    ASSUME TypeInv, NEW x \in Position
    PROVE  /\ Following(x) \in Position \/ Following(x) = <<Len(prog) + 1, 1>>
           /\ Following(x) # <<1, 1>> /\ Following(x) \in Nat \X Nat
<1>1. /\ x = <<x[1], x[2]>> /\ x[1] \in 1 .. Len(prog) /\ x[2] \in 1 .. prog[x[1]].chunks
      /\ Len(prog) \in Nat /\ x[1] \in Nat /\ x[2] \in Nat
      /\ prog[x[1]].chunks \in Nat
  BY Operations DEF Position
<1>2. CASE x[2] < prog[x[1]].chunks
  <2>1. Following(x) = <<x[1], x[2] + 1>>
    BY <1>2 DEF Following
  <2> QED BY <1>1, <1>2, <2>1 DEF Position
<1>3. CASE ~(x[2] < prog[x[1]].chunks)
  <2>1. Following(x) = <<x[1] + 1, 1>>
    BY <1>3 DEF Following
  <2>2. CASE x[1] = Len(prog)
    BY <1>1, <2>1, <2>2
  <2>3. CASE x[1] < Len(prog)
    <3>1. x[1] + 1 \in 1 .. Len(prog)
      BY <1>1, <2>3
    <3>2. prog[x[1] + 1].chunks \in Nat /\ prog[x[1] + 1].chunks >= 1
      BY <3>1, Operations
    <3> QED BY <1>1, <2>1, <3>1, <3>2 DEF Position
  <2> QED BY <1>1, <2>2, <2>3
<1> QED BY <1>2, <1>3

LEMMA FollowingOnce ==
    ASSUME TypeInv, NEW x \in Position, NEW y \in Position, Following(x) = Following(y)
    PROVE  x = y
<1>1. ASSUME NEW z \in Position
      PROVE  /\ z = <<z[1], z[2]>> /\ z[1] \in 1 .. Len(prog) /\ z[2] \in 1 .. prog[z[1]].chunks
             /\ Len(prog) \in Nat /\ z[1] \in Nat /\ z[2] \in Nat /\ prog[z[1]].chunks \in Nat
  BY Operations DEF Position
<1>2. /\ Following(x)[1] = IF x[2] < prog[x[1]].chunks THEN x[1] ELSE x[1] + 1
      /\ Following(x)[2] = IF x[2] < prog[x[1]].chunks THEN x[2] + 1 ELSE 1
      /\ Following(y)[1] = IF y[2] < prog[y[1]].chunks THEN y[1] ELSE y[1] + 1
      /\ Following(y)[2] = IF y[2] < prog[y[1]].chunks THEN y[2] + 1 ELSE 1
  BY DEF Following
<1>3. /\ x[2] \in Nat /\ x[2] >= 1 /\ x[2] <= prog[x[1]].chunks
      /\ y[2] \in Nat /\ y[2] >= 1 /\ y[2] <= prog[y[1]].chunks
      /\ x[1] \in Nat /\ y[1] \in Nat /\ prog[x[1]].chunks \in Nat /\ prog[y[1]].chunks \in Nat
  BY <1>1
<1>4. (x[2] < prog[x[1]].chunks) <=> (y[2] < prog[y[1]].chunks)
  BY <1>2, <1>3
<1>5. x[1] = y[1]
  BY <1>2, <1>3, <1>4
<1>6. x[2] = y[2]
  BY <1>2, <1>3, <1>4, <1>5
<1> QED BY <1>1, <1>5, <1>6

(* Two ranks stand in one of five ways. *)
LEMMA Exclusive ==
    ASSUME TypeInv, StampMod >= 5, NEW r \in Rank, NEW q \in Rank
    PROVE  /\ Same(r, q) <=> Same(q, r)
           /\ Same(r, q) => ~Ahead(r, q) /\ ~TwoAhead(r, q)
           /\ Ahead(r, q) => ~TwoAhead(r, q) /\ ~Ahead(q, r) /\ ~TwoAhead(q, r)
           /\ TwoAhead(r, q) => ~TwoAhead(q, r)
<1> DEFINE a == currStamp[r][0]
           b == currStamp[q][0]
<1>1. a \in Stamp /\ b \in Stamp
  BY DEF TypeInv, Index
<1>2. /\ Same(r, q) => a = b
      /\ Ahead(r, q) => a = (b + 1) % StampMod
      /\ TwoAhead(r, q) => a = (b + 2) % StampMod
      /\ Ahead(q, r) => b = (a + 1) % StampMod
      /\ TwoAhead(q, r) => b = (a + 2) % StampMod
  BY DEF Same, Ahead, TwoAhead
<1>3. Same(r, q) <=> Same(q, r)
  BY DEF Same
<1> HIDE DEF a, b
<1>4. StampMod \in Nat /\ a \in Nat /\ b \in Nat /\ a < StampMod /\ b < StampMod
  BY <1>1, ShmAssumption DEF Stamp
<1>5. /\ (a + 1) % StampMod = IF a + 1 < StampMod THEN a + 1 ELSE a + 1 - StampMod
      /\ (a + 2) % StampMod = IF a + 2 < StampMod THEN a + 2 ELSE a + 2 - StampMod
      /\ (b + 1) % StampMod = IF b + 1 < StampMod THEN b + 1 ELSE b + 1 - StampMod
      /\ (b + 2) % StampMod = IF b + 2 < StampMod THEN b + 2 ELSE b + 2 - StampMod
  BY <1>1, Later
<1>6. /\ a = b => a # (b + 1) % StampMod /\ a # (b + 2) % StampMod
      /\ a = (b + 1) % StampMod =>
            a # (b + 2) % StampMod /\ b # (a + 1) % StampMod /\ b # (a + 2) % StampMod
      /\ a = (b + 2) % StampMod => b # (a + 2) % StampMod
  BY <1>4, <1>5
<1> QED BY <1>2, <1>3, <1>6

LEMMA SameSelf == ASSUME NEW r \in Rank PROVE Same(r, r)
BY DEF Same

-----------------------------------------------------------------------------
(* Steps within a chunk *)

Still == UNCHANGED <<prog, op, chunk, local, remote, currStamp, mask>>

(* Only rank r has moved. *)
Only(r) ==
    /\ pc' \in [Rank -> Places]
    /\ todo' \in [Rank -> Seq(Rank)] /\ reading' \in [Rank -> SUBSET Rank]
    /\ readyStamp' \in [Rank -> [Index -> Stamp]] /\ half' \in [Rank -> [Index -> Nat \X Nat]]
    /\ \A f \in Rank : f # r =>
          /\ pc'[f] = pc[f] /\ todo'[f] = todo[f] /\ reading'[f] = reading[f]
          /\ readyStamp'[f] = readyStamp[f] /\ half'[f] = half[f]

LEMMA StillRelations ==
    ASSUME Still
    PROVE  /\ Position' = Position /\ prog' = prog /\ mask' = mask /\ currStamp' = currStamp
           /\ \A r \in Rank : At(r)' = At(r) /\ Now(r)' = Now(r)
           /\ \A x : Following(x)' = Following(x)
           /\ \A r, q \in Rank :
                 /\ Same(r, q)' <=> Same(r, q)
                 /\ Ahead(r, q)' <=> Ahead(r, q)
                 /\ TwoAhead(r, q)' <=> TwoAhead(r, q)
                 /\ NotAhead(r, q)' <=> NotAhead(r, q)
                 /\ OneAhead(r, q)' <=> OneAhead(r, q)
<1>1. UNCHANGED <<prog, op, chunk, currStamp, mask>>
  BY DEF Still
<1>2. Position' = Position /\ (\A r \in Rank : At(r)' = At(r) /\ Now(r)' = Now(r))
  BY <1>1 DEF Position, At, Now
<1>3. \A x : Following(x)' = Following(x)
  BY <1>1 DEF Following
<1>4. ASSUME NEW r \in Rank, NEW q \in Rank
      PROVE  /\ Same(r, q)' <=> Same(r, q)
             /\ Ahead(r, q)' <=> Ahead(r, q)
             /\ TwoAhead(r, q)' <=> TwoAhead(r, q)
  BY <1>1 DEF Same, Ahead, TwoAhead, At, Position, Following
<1> QED BY <1>1, <1>2, <1>3, <1>4 DEF NotAhead, OneAhead

LEMMA StillStep ==
    ASSUME ShmInv, NEW r \in Rank, Still, Only(r),
           pc[r] \in Committed => pc'[r] \in Committed,
           At(r) \in Position,
           RankInv(r)', PreviousInv(r)',
           \A q \in Rank : DataInv(r, q)' /\ ReadInv(r, q)' /\ (q # r => WaitInv(r, q)')
    PROVE  ShmInv'
<1>1. TypeInv /\ UNCHANGED <<prog, op, chunk, local, remote, currStamp, mask>>
  BY DEF ShmInv, Still
<1>2. TypeInv'
  <2>1. \A f \in Rank : At(f)' = At(f) /\ Position' = Position
    BY StillRelations
  <2>2. \A f \in Rank : At(f) \in Position \/ (At(f) = <<Len(prog) + 1, 1>> /\ pc'[f] = "op")
    BY <1>1 DEF TypeInv, Only
  <2>3. Spaced(prog)'
    BY <1>1 DEF TypeInv, Spaced
  <2> QED BY <1>1, <2>1, <2>2, <2>3 DEF TypeInv, Only
<1>3. ASSUME NEW f \in Rank, f # r PROVE RankInv(f)' /\ PreviousInv(f)'
  <2>1. /\ pc'[f] = pc[f] /\ todo'[f] = todo[f] /\ reading'[f] = reading[f]
        /\ readyStamp'[f] = readyStamp[f] /\ half'[f] = half[f]
    BY <1>3 DEF Only
  <2>2. RankInv(f)'
    BY <1>1, <2>1 DEF ShmInv, RankInv
  <2>3. PreviousInv(f)'
    BY <1>1, <2>1, StillRelations DEF ShmInv, PreviousInv
  <2> QED BY <2>2, <2>3
<1>4. ASSUME NEW f \in Rank, NEW q \in Rank PROVE LeadInv(f, q)'
  BY StillRelations DEF ShmInv, LeadInv
<1>5. ASSUME NEW f \in Rank, NEW q \in Rank, f # r
      PROVE  DataInv(f, q)' /\ ReadInv(f, q)' /\ (f # q => WaitInv(f, q)')
  <2>1. /\ pc'[f] = pc[f] /\ todo'[f] = todo[f] /\ reading'[f] = reading[f] /\ half'[f] = half[f]
        /\ pc[q] \in Committed => pc'[q] \in Committed
    BY <1>5 DEF Only
  <2>2. DataInv(f, q)'
    BY <2>1, StillRelations DEF ShmInv, DataInv
  <2>3. ReadInv(f, q)'
    BY <2>1, StillRelations DEF ShmInv, ReadInv
  <2>4. f # q => WaitInv(f, q)'
    BY <1>1, <2>1, StillRelations DEF ShmInv, WaitInv, Awaits
  <2> QED BY <2>2, <2>3, <2>4
<1> QED BY <1>2, <1>3, <1>4, <1>5 DEF ShmInv

(* A step that leaves the halves and the ready stamps alone. *)
LEMMA QuietStep ==
    ASSUME ShmInv, NEW r \in Rank, Still, Only(r), readyStamp' = readyStamp, half' = half,
           At(r) \in Position,
           pc[r] \in Committed <=> pc'[r] \in Committed,
           pc'[r] \in Filled => pc[r] \in Filled,
           pc'[r] \in {"op", "conflict"} => pc[r] \in {"op", "conflict"},
           pc'[r] # "op", pc'[r] \notin {"ready", "read"} => reading'[r] = {},
           pc'[r] = "ready" => todo'[r] # <<>>, pc'[r] = "next" => todo'[r] = <<>>,
           \A i \in 1 .. Len(todo'[r]) : todo'[r][i] # r,
           \A q \in Rank : ReadInv(r, q)' /\ (q # r => WaitInv(r, q)')
    PROVE  ShmInv'
<1>1. RankInv(r) /\ PreviousInv(r) /\ \A q \in Rank : DataInv(r, q)
  BY DEF ShmInv
<1>2. PreviousInv(r)'
  BY <1>1, StillRelations DEF PreviousInv
<1>3. ASSUME NEW q \in Rank PROVE DataInv(r, q)'
  BY <1>1, StillRelations DEF DataInv
<1>4. RankInv(r)'
  <2>1. currStamp' = currStamp
    BY DEF Still
  <2> QED BY <1>1, <2>1 DEF RankInv
<1> QED BY <1>2, <1>3, <1>4, StillStep

LEMMA Local ==
    ASSUME ShmInv, NEW r \in Rank
    PROVE  /\ local[r] = 0 /\ remote[r] = 0 /\ Half(r) = mask[r][0]
           /\ mask[r][0] \in Index /\ currStamp[r][0] \in Stamp /\ readyStamp[r][0] \in Stamp
           /\ todo[r] \in Seq(Rank) /\ reading[r] \subseteq Rank /\ pc[r] \in Places
           /\ op[r] \in Nat /\ chunk[r] \in Nat
           /\ At(r) \in Position =>
                 /\ op[r] \in 1 .. Len(prog) /\ chunk[r] \in 1 .. Now(r).chunks
                 /\ Now(r).kind \in {"allreduce", "allgather", "gather"}
                 /\ Now(r).chunks \in Nat
           /\ pc[r] # "op" \/ ~Done(r) => At(r) \in Position
<1>1. TypeInv
  BY DEF ShmInv
<1>2. /\ local[r] = 0 /\ remote[r] = 0
      /\ mask[r][0] \in Index /\ currStamp[r][0] \in Stamp /\ readyStamp[r][0] \in Stamp
      /\ todo[r] \in Seq(Rank) /\ reading[r] \subseteq Rank /\ pc[r] \in Places
      /\ op[r] \in Nat /\ chunk[r] \in Nat
  BY <1>1 DEF TypeInv, Index
<1>3. Half(r) = mask[r][0]
  BY <1>2 DEF Half
<1>4. ASSUME At(r) \in Position
      PROVE  /\ op[r] \in 1 .. Len(prog) /\ chunk[r] \in 1 .. Now(r).chunks
             /\ Now(r).kind \in {"allreduce", "allgather", "gather"} /\ Now(r).chunks \in Nat
  <2>1. op[r] \in 1 .. Len(prog) /\ chunk[r] \in 1 .. Now(r).chunks
    BY <1>4 DEF At, Position, Now
  <2>2. prog[op[r]] \in Operation /\ prog[op[r]].kind # "p2p"
    BY <1>1, <2>1, Operations DEF TypeInv, Spaced
  <2> QED BY <2>1, <2>2 DEF Now, Operation
<1>5. pc[r] # "op" \/ ~Done(r) => At(r) \in Position
  <2>1. Len(prog) \in Nat
    BY <1>1, Operations
  <2>2. At(r) = <<Len(prog) + 1, 1>> => Done(r)
    BY <2>1 DEF At, Done
  <2> QED BY <1>1, <2>2 DEF TypeInv
<1> QED BY <1>2, <1>3, <1>4, <1>5

LEMMA Waits ==
    ASSUME ShmInv, NEW r \in Rank, At(r) \in Position
    PROVE  /\ MayConflict(r) \in Seq(Rank) /\ Sources(r) \in Seq(Rank)
           /\ \A i \in 1 .. Len(MayConflict(r)) : MayConflict(r)[i] # r
           /\ \A i \in 1 .. Len(Sources(r)) : Sources(r)[i] # r
           /\ Now(r).chunks # 1 => MayConflict(r) = swizzled_ranks(r)
           /\ Symmetric(Now(r)) => Sources(r) = swizzled_ranks(r)
<1>1. Now(r).kind \in {"allreduce", "allgather", "gather"} /\ <<>> \in Seq(Rank)
  BY Local
<1>2. /\ MayConflict(r) = IF fast_mode(r) THEN <<>> ELSE swizzled_ranks(r)
      /\ Sources(r) = IF Now(r).kind = "gather" /\ r # Now(r).dst THEN <<>> ELSE swizzled_ranks(r)
  BY <1>1 DEF MayConflict, Sources
<1> QED BY <1>1, <1>2, Swizzled DEF fast_mode, Symmetric


(* An operation in fast_mode starts at most one chunk ahead of the others. *)
LEMMA FastStart ==
    ASSUME ShmInv, StampMod >= 5, NEW r \in Rank, NEW q \in Rank, r # q,
           pc[r] = "op", At(r) \in Position, Now(r).chunks = 1
    PROVE  OneAhead(r, q)
<1>1. TypeInv /\ RankInv(r) /\ WaitInv(r, q) /\ LeadInv(r, q)
  BY DEF ShmInv
<1>2. At(r) = <<op[r], 1>> /\ op[r] \in 1 .. Len(prog) /\ prog[op[r]].chunks = 1 /\ Len(prog) \in Nat
  BY <1>1, Local, Operations DEF RankInv, At, Now
<1>3. TwoAhead(r, q) => \E y \in Position : Following(y) = At(r) /\ y # <<1, 1>>
  <2> SUFFICES ASSUME TwoAhead(r, q)
               PROVE  \E y \in Position : Following(y) = At(r) /\ y # <<1, 1>>
    OBVIOUS
  <2>1. At(q) \in Position /\ Following(At(q)) \in Position /\ At(r) = Following(Following(At(q)))
    BY DEF TwoAhead
  <2>2. Following(At(q)) # <<1, 1>>
    BY <1>1, <2>1, Following1
  <2> QED BY <2>1, <2>2
<1>4. CASE op[r] = 1
  <2>1. At(r) = <<1, 1>>
    BY <1>2, <1>4
  <2>2. ~TwoAhead(r, q)
    BY <1>1, <1>3, <2>1, Following1
  <2> QED BY <1>1, <2>2 DEF LeadInv
<1>5. CASE op[r] > 1 /\ Symmetric(prog[op[r] - 1])
  BY <1>1, <1>5 DEF WaitInv
<1>6. CASE op[r] > 1 /\ ~Symmetric(prog[op[r] - 1])
  <2>1. op[r] - 1 \in 1 .. Len(prog)
    BY <1>2, <1>6
  <2>2. prog[op[r] - 1].kind = "gather"
    <3>1. prog[op[r] - 1] \in Operation /\ prog[op[r] - 1].kind # "p2p"
      BY <1>1, <2>1, Operations DEF TypeInv, Spaced
    <3> QED BY <3>1, <1>6 DEF Operation, Symmetric
  <2>3. op[r] = 2 /\ prog[1].chunks = 1
    BY <1>1, <1>2, <1>6, <2>2 DEF TypeInv, Spaced
  <2>4. <<1, 1>> \in Position /\ Following(<<1, 1>>) = <<2, 1>>
    <3>1. 1 \in 1 .. Len(prog) /\ 1 \in 1 .. prog[1].chunks
      BY <1>2, <2>3
    <3> QED BY <2>3, <3>1 DEF Position, Following
  <2>5. ~TwoAhead(r, q)
    BY <1>1, <1>2, <1>3, <2>3, <2>4, FollowingOnce
  <2> QED BY <1>1, <2>5 DEF LeadInv
<1> QED BY <1>2, <1>4, <1>5, <1>6

LEMMA CollectiveStep ==
    ASSUME ShmInv, StampMod >= 5, NEW r \in Rank, Collective(r)
    PROVE  ShmInv'
<1>1. pc[r] = "op" /\ ~Done(r) /\ Now(r).kind # "p2p"
  BY DEF Collective
<1>2. TypeInv /\ RankInv(r) /\ At(r) \in Position
  BY <1>1, Local DEF ShmInv
<1>3. /\ pc' = [pc EXCEPT ![r] = "conflict"] /\ todo' = [todo EXCEPT ![r] = MayConflict(r)]
      /\ Still /\ readyStamp' = readyStamp /\ half' = half /\ reading' = reading
  BY <1>1 DEF Collective, StartChunk, Sends, place, stamps, Still
<1>4. Only(r) /\ pc'[r] = "conflict" /\ todo'[r] = MayConflict(r) /\ reading'[r] = reading[r]
  BY <1>2, <1>3, Waits DEF TypeInv, Only, Places, Filled, Committed
<1>5. ASSUME NEW q \in Rank PROVE ReadInv(r, q)'
  BY <1>1, <1>2, <1>3 DEF RankInv, ReadInv
<1>6. ASSUME NEW q \in Rank, q # r PROVE WaitInv(r, q)'
  <2>1. ~Awaits(r, q)' => OneAhead(r, q)
    <3>1. CASE Now(r).chunks = 1
      BY <1>1, <1>2, <1>6, <3>1, FastStart
    <3>2. CASE Now(r).chunks # 1
      <4>1. \E i \in 1 .. Len(todo'[r]) : todo'[r][i] = q
        <5>1. todo'[r] = swizzled_ranks(r) /\ q \in Others(r)
          BY <1>2, <1>4, <1>6, <3>2, Waits DEF Others
        <5> QED BY <5>1, Swizzled
      <4> QED BY <4>1 DEF Awaits
    <3> QED BY <3>1, <3>2
  <2> QED BY <1>3, <1>4, <2>1, StillRelations DEF WaitInv, Filled, Committed
<1> QED BY <1>1, <1>2, <1>3, <1>4, <1>5, <1>6, QuietStep, Waits DEF RankInv, Filled, Committed

(* One wait less. *)
LEMMA Waited ==
    ASSUME NEW s \in Seq(Rank), s # <<>>
    PROVE  /\ Head(s) \in Rank /\ Tail(s) \in Seq(Rank) /\ Len(Tail(s)) = Len(s) - 1
           /\ \E i \in 1 .. Len(s) : s[i] = Head(s)
           /\ \A i \in 1 .. Len(Tail(s)) : \E j \in 1 .. Len(s) : s[j] = Tail(s)[i]
           /\ \A q \in Rank : (\E i \in 1 .. Len(s) : s[i] = q) =>
                 q = Head(s) \/ \E i \in 1 .. Len(Tail(s)) : Tail(s)[i] = q
<1>1. /\ Len(s) \in Nat /\ Len(s) >= 1 /\ Head(s) = s[1] /\ Head(s) \in Rank
      /\ Tail(s) \in Seq(Rank) /\ Len(Tail(s)) = Len(s) - 1
      /\ \A i \in 1 .. Len(Tail(s)) : Tail(s)[i] = s[i + 1]
  BY HeadTailProperties, LenProperties, EmptySeq
<1>2. \A i \in 1 .. Len(Tail(s)) : i + 1 \in 1 .. Len(s)
  BY <1>1
<1>3. \A i \in 1 .. Len(s) : i = 1 \/ (i - 1 \in 1 .. Len(Tail(s)) /\ Tail(s)[i - 1] = s[i])
  BY <1>1
<1> QED BY <1>1, <1>2, <1>3

LEMMA NoConflictStep ==
    ASSUME ShmInv, NEW r \in Rank, NoConflict(r)
    PROVE  ShmInv'
<1>1. pc[r] = "conflict" /\ todo[r] # <<>> /\ check_no_buffer_conflict(r, Head(todo[r]))
  BY DEF NoConflict
<1>2. TypeInv /\ RankInv(r) /\ At(r) \in Position /\ todo[r] \in Seq(Rank) /\ reading[r] = {}
  BY <1>1, Local DEF ShmInv, RankInv
<1>3. /\ todo' = [todo EXCEPT ![r] = Tail(todo[r])] /\ pc' = pc
      /\ Still /\ readyStamp' = readyStamp /\ half' = half /\ reading' = reading
  BY DEF NoConflict, place, stamps, Still
<1>4. Only(r) /\ todo'[r] = Tail(todo[r])
  BY <1>1, <1>2, <1>3, Waited DEF TypeInv, Only
<1>5. ASSUME NEW q \in Rank PROVE ReadInv(r, q)'
  BY <1>2, <1>3 DEF ReadInv
<1>6. ASSUME NEW q \in Rank, q # r PROVE WaitInv(r, q)'
  <2>1. WaitInv(r, q) /\ LeadInv(r, q)
    BY <1>6 DEF ShmInv
  <2>2. ~Awaits(r, q)' => ~Awaits(r, q) \/ q = Head(todo[r])
    BY <1>1, <1>2, <1>4, Waited DEF Awaits
  <2>3. q = Head(todo[r]) => ~TwoAhead(r, q)
    BY <1>1, Local DEF check_no_buffer_conflict, TwoAhead
  <2>4. ~Awaits(r, q)' => OneAhead(r, q)
    BY <1>1, <2>1, <2>2, <2>3 DEF WaitInv, LeadInv
  <2> QED BY <1>1, <1>3, <2>4, StillRelations DEF WaitInv, Filled, Committed
<1>7. \A i \in 1 .. Len(todo'[r]) : todo'[r][i] # r
  BY <1>1, <1>2, <1>4, Waited, SMTT(30) DEF RankInv
<1> QED BY <1>1, <1>2, <1>3, <1>4, <1>5, <1>6, <1>7, QuietStep DEF Committed

LEMMA StartCopyStep ==
    ASSUME ShmInv, NEW r \in Rank, StartCopy(r)
    PROVE  ShmInv'
<1>1. pc[r] = "conflict" /\ todo[r] = <<>>
  BY DEF StartCopy
<1>2. /\ TypeInv /\ RankInv(r) /\ PreviousInv(r) /\ At(r) \in Position /\ reading[r] = {}
      /\ mask[r][0] \in Index /\ Half(r) = mask[r][0]
  BY <1>1, Local DEF ShmInv, RankInv
<1>3. /\ half' = [half EXCEPT ![r][mask[r][0]] = Torn] /\ pc' = [pc EXCEPT ![r] = "copy"]
      /\ Still /\ readyStamp' = readyStamp /\ todo' = todo /\ reading' = reading
  BY <1>2 DEF StartCopy, place, stamps, Still
<1>4. pc'[r] = "copy" /\ half'[r][1 - mask[r][0]] = half[r][1 - mask[r][0]]
  BY <1>2, <1>3 DEF TypeInv, Index
<1>5. Only(r)
  <2>1. half' \in [Rank -> [Index -> Nat \X Nat]]
    BY <1>2, <1>3 DEF TypeInv, Torn
  <2>2. \A f \in Rank : f # r => half'[f] = half[f] /\ pc'[f] = pc[f]
    BY <1>2, <1>3 DEF TypeInv
  <2> QED BY <1>2, <1>3, <2>1, <2>2 DEF TypeInv, Only, Places
<1>6. RankInv(r)'
  <2>1. currStamp' = currStamp
    BY <1>3 DEF Still
  <2> QED BY <1>1, <1>2, <1>3, <1>4, <2>1 DEF RankInv, Committed
<1>7. PreviousInv(r)'
  BY <1>2, <1>3, <1>4, StillRelations DEF PreviousInv
<1>8. ASSUME NEW q \in Rank PROVE DataInv(r, q)'
  <2>1. DataInv(r, q) /\ mask[q][0] \in Index
    BY Local DEF ShmInv
  <2>2. Ahead(r, q) => mask[q][0] = 1 - mask[r][0]
    BY <1>2, <2>1 DEF Ahead, Index
  <2> QED BY <1>3, <1>4, <2>1, <2>2, StillRelations DEF DataInv, Filled, Committed
<1>9. ASSUME NEW q \in Rank PROVE ReadInv(r, q)'
  BY <1>2, <1>3 DEF ReadInv
<1>10. ASSUME NEW q \in Rank, q # r PROVE WaitInv(r, q)'
  <2>1. WaitInv(r, q) /\ ~Awaits(r, q)
    BY <1>1, <1>10 DEF ShmInv, Awaits
  <2>2. OneAhead(r, q)
    BY <1>1, <2>1 DEF WaitInv
  <2> QED BY <1>3, <1>4, <2>2, StillRelations DEF WaitInv, Committed
<1> QED BY <1>1, <1>2, <1>3, <1>5, <1>6, <1>7, <1>8, <1>9, <1>10, StillStep DEF Committed

LEMMA EndCopyStep ==
    ASSUME ShmInv, NEW r \in Rank, EndCopy(r)
    PROVE  ShmInv'
<1>1. pc[r] = "copy"
  BY DEF EndCopy
<1>2. /\ TypeInv /\ RankInv(r) /\ PreviousInv(r) /\ At(r) \in Position /\ reading[r] = {}
      /\ mask[r][0] \in Index /\ Half(r) = mask[r][0]
  BY <1>1, Local DEF ShmInv, RankInv
<1>3. /\ half' = [half EXCEPT ![r][mask[r][0]] = At(r)] /\ pc' = [pc EXCEPT ![r] = "commit"]
      /\ Still /\ readyStamp' = readyStamp /\ todo' = todo /\ reading' = reading
  BY <1>2 DEF EndCopy, place, stamps, Still, At
<1>4. /\ pc'[r] = "commit" /\ half'[r][1 - mask[r][0]] = half[r][1 - mask[r][0]]
      /\ half'[r][mask[r][0]] = At(r)
  BY <1>2, <1>3 DEF TypeInv, Index
<1>5. Only(r)
  <2>1. half' \in [Rank -> [Index -> Nat \X Nat]]
    BY <1>2, <1>3 DEF TypeInv, Position
  <2>2. \A f \in Rank : f # r => half'[f] = half[f] /\ pc'[f] = pc[f]
    BY <1>2, <1>3 DEF TypeInv
  <2> QED BY <1>2, <1>3, <2>1, <2>2 DEF TypeInv, Only, Places, Filled
<1>6. RankInv(r)'
  <2>1. currStamp' = currStamp
    BY <1>3 DEF Still
  <2> QED BY <1>1, <1>2, <1>3, <1>4, <2>1 DEF RankInv, Committed
<1>7. PreviousInv(r)'
  BY <1>2, <1>3, <1>4, StillRelations DEF PreviousInv
<1>8. ASSUME NEW q \in Rank PROVE DataInv(r, q)'
  <2>1. DataInv(r, q) /\ mask[q][0] \in Index
    BY Local DEF ShmInv
  <2>2. Ahead(r, q) => mask[q][0] = 1 - mask[r][0]
    BY <1>2, <2>1 DEF Ahead, Index
  <2>3. Same(r, q) => mask[q][0] = mask[r][0] /\ At(q) = At(r)
    BY DEF Same
  <2> QED BY <1>3, <1>4, <2>1, <2>2, <2>3, StillRelations DEF DataInv
<1>9. ASSUME NEW q \in Rank PROVE ReadInv(r, q)'
  BY <1>2, <1>3 DEF ReadInv
<1>10. ASSUME NEW q \in Rank, q # r PROVE WaitInv(r, q)'
  <2>1. WaitInv(r, q)
    BY <1>10 DEF ShmInv
  <2>2. OneAhead(r, q)
    BY <1>1, <2>1 DEF WaitInv
  <2> QED BY <1>3, <1>4, <2>2, StillRelations DEF WaitInv, Committed
<1> QED BY <1>1, <1>2, <1>3, <1>5, <1>6, <1>7, <1>8, <1>9, <1>10, StillStep DEF Committed

LEMMA CommitStep ==
    ASSUME ShmInv, NEW r \in Rank, commit_ready_stamp(r)
    PROVE  ShmInv'
<1>1. pc[r] = "commit"
  BY DEF commit_ready_stamp
<1>2. /\ TypeInv /\ RankInv(r) /\ PreviousInv(r) /\ At(r) \in Position /\ reading[r] = {}
      /\ local[r] = 0 /\ currStamp[r][0] \in Stamp
  BY <1>1, Local DEF ShmInv, RankInv
<1>3. /\ readyStamp' = [readyStamp EXCEPT ![r][0] = currStamp[r][0]]
      /\ todo' = [todo EXCEPT ![r] = Sources(r)]
      /\ pc' = [pc EXCEPT ![r] = IF Sources(r) = <<>> THEN "next" ELSE "ready"]
      /\ Still /\ half' = half /\ reading' = reading
  BY <1>2 DEF commit_ready_stamp, place, Still
<1>4. /\ pc'[r] = IF Sources(r) = <<>> THEN "next" ELSE "ready"
      /\ todo'[r] = Sources(r) /\ Sources(r) \in Seq(Rank)
      /\ readyStamp'[r][0] = currStamp[r][0]
  BY <1>2, <1>3, Waits DEF TypeInv, Index
<1>5. Only(r)
  <2>1. readyStamp' \in [Rank -> [Index -> Stamp]]
    BY <1>2, <1>3 DEF TypeInv
  <2>2. \A f \in Rank : f # r =>
          readyStamp'[f] = readyStamp[f] /\ pc'[f] = pc[f] /\ todo'[f] = todo[f]
    BY <1>2, <1>3 DEF TypeInv
  <2>3. todo' \in [Rank -> Seq(Rank)]
    BY <1>2, <1>3, <1>4 DEF TypeInv
  <2>4. pc' \in [Rank -> Places]
    BY <1>2, <1>3 DEF TypeInv, Places, Filled, Committed
  <2> QED BY <1>2, <1>3, <2>1, <2>2, <2>3, <2>4 DEF TypeInv, Only
<1>6. RankInv(r)'
  <2>1. currStamp' = currStamp
    BY <1>3 DEF Still
  <2>2. \A i \in 1 .. Len(todo'[r]) : todo'[r][i] # r
    BY <1>2, <1>4, Waits
  <2> QED BY <1>2, <1>3, <1>4, <2>1, <2>2 DEF RankInv, Committed
<1>7. PreviousInv(r)'
  BY <1>2, <1>3, StillRelations DEF PreviousInv
<1>8. ASSUME NEW q \in Rank PROVE DataInv(r, q)'
  <2>1. DataInv(r, q)
    BY DEF ShmInv
  <2> QED BY <1>1, <1>3, <1>4, <2>1, StillRelations DEF DataInv, Filled
<1>9. ASSUME NEW q \in Rank PROVE ReadInv(r, q)'
  BY <1>2, <1>3 DEF ReadInv
<1>10. ASSUME NEW q \in Rank, q # r PROVE WaitInv(r, q)'
  <2>1. WaitInv(r, q)
    BY <1>10 DEF ShmInv
  <2>2. OneAhead(r, q)
    BY <1>1, <2>1 DEF WaitInv, Filled
  <2>3. Symmetric(Now(r)) => Awaits(r, q)'
    <3> SUFFICES ASSUME Symmetric(Now(r)) PROVE \E i \in 1 .. Len(todo'[r]) : todo'[r][i] = q
      BY DEF Awaits
    <3>1. todo'[r] = swizzled_ranks(r) /\ q \in Others(r)
      BY <1>2, <1>4, <1>10, Waits DEF Others
    <3> QED BY <3>1, Swizzled
  <2> QED BY <1>3, <1>4, <2>2, <2>3, StillRelations DEF WaitInv
<1> QED BY <1>1, <1>2, <1>3, <1>4, <1>5, <1>6, <1>7, <1>8, <1>9, <1>10, StillStep DEF Committed

(* A rank whose stamp is ready is not behind, and if it is at the same chunk
   its half is filled. *)
LEMMA ReadyIsFilled ==
    ASSUME ShmInv, StampMod >= 5, NEW r \in Rank, NEW q \in Rank, q # r, pc[r] = "ready",
           check_stamp_ready(r, q)
    PROVE  NotAhead(r, q) /\ (Same(q, r) => pc[q] \in Committed)
<1> DEFINE a == currStamp[r][0]
           b == currStamp[q][0]
           s == readyStamp[q][0]
<1>1. OneAhead(r, q) /\ RankInv(q)
  BY DEF ShmInv, WaitInv, Filled, Committed
<1>2. a \in Stamp /\ b \in Stamp /\ s \in Stamp
  BY Local
<1>3. a = s \/ (a + 1) % StampMod = s
  BY Local DEF check_stamp_ready
<1>4. /\ pc[q] \in Committed => s = b
      /\ pc[q] \notin Committed => (s + 1) % StampMod = b
  BY <1>1 DEF RankInv
<1>5. (Ahead(r, q) => a = (b + 1) % StampMod) /\ (Same(q, r) => a = b)
  BY DEF Ahead, Same
<1> HIDE DEF a, b, s
<1>6. /\ StampMod \in Nat /\ a \in Nat /\ b \in Nat /\ s \in Nat
      /\ a < StampMod /\ b < StampMod /\ s < StampMod
  BY <1>2, ShmAssumption DEF Stamp
<1>7. /\ (a + 1) % StampMod = IF a + 1 < StampMod THEN a + 1 ELSE a + 1 - StampMod
      /\ (b + 1) % StampMod = IF b + 1 < StampMod THEN b + 1 ELSE b + 1 - StampMod
      /\ (s + 1) % StampMod = IF s + 1 < StampMod THEN s + 1 ELSE s + 1 - StampMod
  BY <1>2, Later
<1>8. a # (b + 1) % StampMod
  BY <1>3, <1>4, <1>6, <1>7
<1>9. a = b => pc[q] \in Committed
  BY <1>3, <1>4, <1>6, <1>7
<1> QED BY <1>1, <1>5, <1>8, <1>9 DEF OneAhead

LEMMA StampReadyStep ==
    ASSUME ShmInv, StampMod >= 5, NEW r \in Rank, StampReady(r)
    PROVE  ShmInv'
<1>1. pc[r] = "ready" /\ check_stamp_ready(r, Head(todo[r]))
  BY DEF StampReady
<1>2. TypeInv /\ RankInv(r) /\ At(r) \in Position /\ todo[r] \in Seq(Rank) /\ todo[r] # <<>>
  BY <1>1, Local DEF ShmInv, RankInv
<1>3. /\ todo' = [todo EXCEPT ![r] = Tail(todo[r])]
      /\ reading' = [reading EXCEPT ![r] = reading[r] \cup {Head(todo[r])}]
      /\ pc' = [pc EXCEPT ![r] = IF Now(r).kind = "allreduce" /\ Len(todo[r]) > 1
                                 THEN "ready" ELSE "read"]
      /\ Still /\ readyStamp' = readyStamp /\ half' = half
  BY DEF StampReady, place, stamps, Still
<1>4. /\ todo'[r] = Tail(todo[r]) /\ reading'[r] = reading[r] \cup {Head(todo[r])}
      /\ pc'[r] = IF Now(r).kind = "allreduce" /\ Len(todo[r]) > 1 THEN "ready" ELSE "read"
      /\ Head(todo[r]) \in Rank /\ Head(todo[r]) # r
  <2>1. Head(todo[r]) \in Rank /\ \E i \in 1 .. Len(todo[r]) : todo[r][i] = Head(todo[r])
    BY <1>2, Waited
  <2>2. Head(todo[r]) # r
    BY <1>2, <2>1 DEF RankInv
  <2> QED BY <1>2, <1>3, <2>1, <2>2 DEF TypeInv
<1>5. Only(r)
  <2>0. Tail(todo[r]) \in Seq(Rank)
    BY <1>2, Waited
  <2>1. todo' \in [Rank -> Seq(Rank)] /\ reading' \in [Rank -> SUBSET Rank]
    BY <1>2, <1>3, <1>4, <2>0 DEF TypeInv
  <2>2. pc' \in [Rank -> Places]
    BY <1>2, <1>3 DEF TypeInv, Places, Filled, Committed
  <2>3. \A f \in Rank : f # r =>
          reading'[f] = reading[f] /\ pc'[f] = pc[f] /\ todo'[f] = todo[f]
    BY <1>2, <1>3 DEF TypeInv
  <2> QED BY <1>2, <1>3, <2>1, <2>2, <2>3 DEF TypeInv, Only
<1>6. /\ NotAhead(r, Head(todo[r]))
      /\ Same(Head(todo[r]), r) => pc[Head(todo[r])] \in Committed
  BY <1>1, <1>4, ReadyIsFilled
<1>7. ASSUME NEW q \in Rank PROVE ReadInv(r, q)'
  <2>1. ReadInv(r, q) /\ (q # r => pc'[q] = pc[q])
    BY <1>5 DEF ShmInv, Only
  <2> QED BY <1>3, <1>4, <1>6, <2>1, StillRelations DEF ReadInv
<1>8. ASSUME NEW q \in Rank, q # r PROVE WaitInv(r, q)'
  <2>1. WaitInv(r, q)
    BY <1>8 DEF ShmInv
  <2>2. OneAhead(r, q)
    BY <1>1, <2>1 DEF WaitInv, Filled, Committed
  <2>3. ~Awaits(r, q)' => ~Awaits(r, q) \/ q = Head(todo[r])
    BY <1>2, <1>4, Waited DEF Awaits
  <2>4. Symmetric(Now(r)) /\ ~Awaits(r, q)' => NotAhead(r, q)
    BY <1>1, <1>6, <2>1, <2>3 DEF WaitInv, Committed
  <2> QED BY <1>3, <1>4, <2>2, <2>4, StillRelations DEF WaitInv
<1>9. \A i \in 1 .. Len(todo'[r]) : todo'[r][i] # r
  BY <1>2, <1>4, Waited DEF RankInv
<1>10. pc'[r] = "ready" => todo'[r] # <<>>
  <2>1. Len(Tail(todo[r])) = Len(todo[r]) - 1 /\ Len(todo[r]) \in Nat
    BY <1>2, Waited
  <2>2. Tail(todo[r]) = <<>> => ~(Len(todo[r]) > 1)
    BY <2>1
  <2> QED BY <1>4, <2>2
<1>11. /\ pc[r] \in Committed /\ pc'[r] \in {"ready", "read"}
       /\ pc'[r] \in Committed /\ pc[r] \in Filled /\ pc'[r] \notin {"op", "conflict", "next"}
  BY <1>1, <1>4 DEF Filled, Committed
<1> QED BY <1>2, <1>3, <1>5, <1>7, <1>8, <1>9, <1>10, <1>11, QuietStep

LEMMA EndReadStep ==
    ASSUME ShmInv, NEW r \in Rank, EndRead(r)
    PROVE  ShmInv'
<1>1. pc[r] = "read"
  BY DEF EndRead
<1>2. TypeInv /\ RankInv(r) /\ At(r) \in Position /\ chunk[r] \in 1 .. Now(r).chunks
  BY <1>1, Local DEF ShmInv, RankInv
<1>3. /\ reading' = [reading EXCEPT ![r] = {}]
      /\ pc' = [pc EXCEPT ![r] = IF todo[r] = <<>> THEN "next" ELSE "ready"]
      /\ Still /\ readyStamp' = readyStamp /\ half' = half /\ todo' = todo
  BY <1>2 DEF EndRead, stamps, Still
<1>4. reading'[r] = {} /\ pc'[r] = IF todo[r] = <<>> THEN "next" ELSE "ready"
  BY <1>2, <1>3 DEF TypeInv
<1>5. Only(r)
  <2>1. reading' \in [Rank -> SUBSET Rank] /\ pc' \in [Rank -> Places]
    BY <1>2, <1>3 DEF TypeInv, Places, Filled, Committed
  <2>2. \A f \in Rank : f # r => reading'[f] = reading[f] /\ pc'[f] = pc[f]
    BY <1>2, <1>3 DEF TypeInv
  <2> QED BY <1>2, <1>3, <2>1, <2>2 DEF TypeInv, Only
<1>6. ASSUME NEW q \in Rank PROVE ReadInv(r, q)'
  BY <1>4 DEF ReadInv
<1>7. ASSUME NEW q \in Rank, q # r PROVE WaitInv(r, q)'
  <2>1. WaitInv(r, q) /\ (Awaits(r, q)' <=> Awaits(r, q))
    BY <1>3, <1>7 DEF ShmInv, Awaits
  <2> QED BY <1>1, <1>3, <1>4, <2>1, StillRelations DEF WaitInv, Filled, Committed
<1>8. \A i \in 1 .. Len(todo'[r]) : todo'[r][i] # r
  BY <1>2, <1>3 DEF RankInv
<1> QED BY <1>1, <1>2, <1>3, <1>4, <1>5, <1>6, <1>7, <1>8, QuietStep DEF Filled, Committed

-----------------------------------------------------------------------------
(* The step to the next chunk *)

LEMMA Apart ==
    ASSUME StampMod >= 5, NEW a \in Stamp, NEW b \in Stamp
    PROVE  /\ a = b => a # (b + 1) % StampMod /\ a # (b + 2) % StampMod /\ b # (a + 2) % StampMod
           /\ a = (b + 1) % StampMod =>
                 a # (b + 2) % StampMod /\ b # (a + 1) % StampMod /\ b # (a + 2) % StampMod
           /\ a = (b + 2) % StampMod => b # (a + 2) % StampMod /\ b # (a + 1) % StampMod
           /\ (a + 1) % StampMod \in Stamp
           /\ (((a + 1) % StampMod) + 1) % StampMod = (a + 2) % StampMod
<1>1. StampMod \in Nat /\ a \in Nat /\ b \in Nat /\ a < StampMod /\ b < StampMod
  BY ShmAssumption DEF Stamp
<1>2. /\ (a + 1) % StampMod = IF a + 1 < StampMod THEN a + 1 ELSE a + 1 - StampMod
      /\ (a + 2) % StampMod = IF a + 2 < StampMod THEN a + 2 ELSE a + 2 - StampMod
      /\ (b + 1) % StampMod = IF b + 1 < StampMod THEN b + 1 ELSE b + 1 - StampMod
      /\ (b + 2) % StampMod = IF b + 2 < StampMod THEN b + 2 ELSE b + 2 - StampMod
  BY Later
<1>3. (a + 1) % StampMod \in Stamp
  BY <1>1, <1>2 DEF Stamp
<1>4. PICK c \in Stamp : c = (a + 1) % StampMod
  BY <1>3
<1>5. (c + 1) % StampMod = IF c + 1 < StampMod THEN c + 1 ELSE c + 1 - StampMod
  BY Later
<1>6. c \in Nat /\ c = IF a + 1 < StampMod THEN a + 1 ELSE a + 1 - StampMod
  BY <1>2, <1>4 DEF Stamp
<1>7. (c + 1) % StampMod = (a + 2) % StampMod
  BY <1>1, <1>2, <1>5, <1>6
<1>8. /\ a = b => a # (b + 1) % StampMod /\ a # (b + 2) % StampMod /\ b # (a + 2) % StampMod
      /\ a = (b + 1) % StampMod =>
            a # (b + 2) % StampMod /\ b # (a + 1) % StampMod /\ b # (a + 2) % StampMod
      /\ a = (b + 2) % StampMod => b # (a + 2) % StampMod /\ b # (a + 1) % StampMod
  BY <1>1, <1>2
<1> QED BY <1>3, <1>4, <1>7, <1>8

(* r has gone to the chunk that follows; everything else is as it was. *)
Moved(r) ==
    /\ At(r) \in Position /\ At(r)' = Following(At(r))
    /\ currStamp'[r][0] = (currStamp[r][0] + 1) % StampMod
    /\ mask'[r][0] = 1 - mask[r][0]
    /\ UNCHANGED <<prog, local, remote, readyStamp, half, reading>>
    /\ \A f \in Rank : f # r =>
          /\ pc'[f] = pc[f] /\ todo'[f] = todo[f] /\ At(f)' = At(f)
          /\ op'[f] = op[f] /\ chunk'[f] = chunk[f]
          /\ currStamp'[f] = currStamp[f] /\ mask'[f] = mask[f]

LEMMA MovedAlone ==
    ASSUME NEW r \in Rank, Moved(r)
    PROVE  /\ Position' = Position /\ \A x : Following(x)' = Following(x)
           /\ \A f, q \in Rank \ {r} :
                 /\ Same(f, q)' <=> Same(f, q)
                 /\ Ahead(f, q)' <=> Ahead(f, q)
                 /\ TwoAhead(f, q)' <=> TwoAhead(f, q)
                 /\ NotAhead(f, q)' <=> NotAhead(f, q)
                 /\ OneAhead(f, q)' <=> OneAhead(f, q)
<1>1. prog' = prog
  BY DEF Moved
<1>2. Position' = Position /\ \A x : Following(x)' = Following(x)
  BY <1>1 DEF Position, Following
<1>3. ASSUME NEW f \in Rank \ {r}, NEW q \in Rank \ {r}
      PROVE  /\ Same(f, q)' <=> Same(f, q)
             /\ Ahead(f, q)' <=> Ahead(f, q)
             /\ TwoAhead(f, q)' <=> TwoAhead(f, q)
  <2>1. /\ At(f)' = At(f) /\ currStamp'[f] = currStamp[f] /\ mask'[f] = mask[f]
        /\ At(q)' = At(q) /\ currStamp'[q] = currStamp[q] /\ mask'[q] = mask[q]
    BY DEF Moved
  <2> QED BY <1>2, <2>1 DEF Same, Ahead, TwoAhead
<1> QED BY <1>2, <1>3 DEF NotAhead, OneAhead

(* How the lead of r over another rank changes: it was at most one chunk. *)
LEMMA MovedLead ==
    ASSUME ShmInv, StampMod >= 5, NEW r \in Rank, NEW q \in Rank, q # r,
           pc[r] = "next", Moved(r)
    PROVE  \/ Same(r, q) /\ Ahead(r, q)'
           \/ Ahead(q, r) /\ Same(r, q)'
           \/ TwoAhead(q, r) /\ Ahead(q, r)'
           \/ Ahead(r, q) /\ TwoAhead(r, q)'
<1>1. OneAhead(r, q)
  BY DEF ShmInv, WaitInv, Filled, Committed
<1>2. /\ At(r) \in Position /\ At(r)' = Following(At(r)) /\ At(q)' = At(q)
      /\ currStamp'[r][0] = (currStamp[r][0] + 1) % StampMod /\ mask'[r][0] = 1 - mask[r][0]
      /\ currStamp'[q][0] = currStamp[q][0] /\ mask'[q][0] = mask[q][0]
  BY DEF Moved
<1>3. /\ currStamp[r][0] \in Stamp /\ currStamp[q][0] \in Stamp
      /\ mask[r][0] \in {0, 1} /\ mask[q][0] \in {0, 1}
  BY Local DEF Index
<1>4. Position' = Position /\ \A x : Following(x)' = Following(x)
  BY MovedAlone
<1>5. ASSUME Same(r, q) PROVE Ahead(r, q)'
  BY <1>2, <1>4, <1>5 DEF Same, Ahead
<1>6. ASSUME Ahead(q, r) PROVE Same(r, q)'
  BY <1>2, <1>6 DEF Same, Ahead
<1>7. ASSUME TwoAhead(q, r) PROVE Ahead(q, r)'
  <2>1. /\ Following(At(r)) \in Position /\ At(q) = Following(Following(At(r)))
        /\ currStamp[q][0] = (currStamp[r][0] + 2) % StampMod /\ mask[q][0] = mask[r][0]
    BY <1>7 DEF TwoAhead
  <2>2. currStamp'[q][0] = (currStamp'[r][0] + 1) % StampMod
    BY <1>2, <1>3, <2>1, Apart
  <2>3. mask'[q][0] = 1 - mask'[r][0]
    BY <1>2, <1>3, <2>1
  <2> QED BY <1>2, <1>4, <2>1, <2>2, <2>3 DEF Ahead
<1>8. ASSUME Ahead(r, q) PROVE TwoAhead(r, q)'
  <2>1. /\ At(q) \in Position /\ At(r) = Following(At(q))
        /\ currStamp[r][0] = (currStamp[q][0] + 1) % StampMod /\ mask[r][0] = 1 - mask[q][0]
    BY <1>8 DEF Ahead
  <2>2. currStamp'[r][0] = (currStamp'[q][0] + 2) % StampMod
    BY <1>2, <1>3, <2>1, Apart
  <2>3. mask'[r][0] = mask'[q][0]
    BY <1>2, <1>3, <2>1
  <2> QED BY <1>2, <1>4, <2>1, <2>2, <2>3 DEF TwoAhead
<1>9. Same(q, r) => Same(r, q)
  BY DEF Same
<1> QED BY <1>1, <1>5, <1>6, <1>7, <1>8, <1>9 DEF OneAhead, NotAhead

(* The five ways exclude each other, before the step and after it. *)
LEMMA MovedOnly ==
    ASSUME ShmInv, StampMod >= 5, NEW r \in Rank, NEW q \in Rank, q # r,
           pc[r] = "next", Moved(r)
    PROVE  /\ Ahead(r, q)' => Same(r, q)
           /\ Same(r, q)' => Ahead(q, r) /\ ~NotAhead(q, r)
           /\ Ahead(q, r)' => TwoAhead(q, r) /\ ~NotAhead(q, r)
           /\ TwoAhead(r, q)' => Ahead(r, q) /\ ~NotAhead(r, q)
           /\ ~TwoAhead(q, r)'
           /\ Same(q, r)' <=> Same(r, q)'
<1> DEFINE a == currStamp'[r][0]
           b == currStamp'[q][0]
<1>1. a \in Stamp /\ b \in Stamp
  BY Local, Apart DEF Moved
<1>2. /\ Same(r, q)' => a = b
      /\ Ahead(r, q)' => a = (b + 1) % StampMod
      /\ TwoAhead(r, q)' => a = (b + 2) % StampMod
      /\ Ahead(q, r)' => b = (a + 1) % StampMod
      /\ TwoAhead(q, r)' => b = (a + 2) % StampMod
  BY DEF Same, Ahead, TwoAhead
<1>3. Same(r, q)' <=> Same(q, r)'
  BY DEF Same
<1> HIDE DEF a, b
<1>4. /\ Same(r, q)' => ~Ahead(r, q)' /\ ~TwoAhead(r, q)' /\ ~Ahead(q, r)' /\ ~TwoAhead(q, r)'
      /\ Ahead(r, q)' => ~TwoAhead(r, q)' /\ ~Ahead(q, r)' /\ ~TwoAhead(q, r)'
      /\ TwoAhead(r, q)' => ~Ahead(q, r)' /\ ~TwoAhead(q, r)'
      /\ Ahead(q, r)' => ~TwoAhead(q, r)'
  BY <1>1, <1>2, Apart
<1>5. TypeInv
  BY DEF ShmInv
<1>6. /\ Ahead(q, r) => ~NotAhead(q, r)
      /\ TwoAhead(q, r) => ~NotAhead(q, r)
      /\ Ahead(r, q) => ~NotAhead(r, q)
  BY <1>5, Exclusive DEF NotAhead
<1> QED BY <1>3, <1>4, <1>6, MovedLead

LEMMA NextChunkMoves ==
    ASSUME ShmInv, StampMod >= 5, NEW r \in Rank, NextChunk(r)
    PROVE  /\ Moved(r) /\ TypeInv'
           /\ \/ pc'[r] = "conflict" /\ todo'[r] = swizzled_ranks(r)
              \/ pc'[r] = "op" /\ todo'[r] = <<>> /\ op'[r] = op[r] + 1 /\ chunk'[r] = 1
<1>1. /\ pc[r] = "next" /\ TypeInv /\ RankInv(r) /\ At(r) \in Position
      /\ local[r] = 0 /\ todo[r] = <<>> /\ chunk[r] \in 1 .. Now(r).chunks /\ op[r] \in Nat
      /\ chunk[r] \in Nat /\ Now(r).chunks \in Nat /\ op[r] \in 1 .. Len(prog)
      /\ Now(r).kind \in {"allreduce", "allgather", "gather"}
      /\ mask[r][0] \in {0, 1} /\ currStamp[r][0] \in Stamp
  BY Local DEF ShmInv, RankInv, NextChunk, Index
<1>2. /\ currStamp' = [currStamp EXCEPT ![r][0] = (currStamp[r][0] + 1) % StampMod]
      /\ mask' = [mask EXCEPT ![r][0] = 1 - mask[r][0]]
      /\ UNCHANGED <<prog, reading, local, remote, readyStamp, half>>
  BY <1>1 DEF NextChunk
<1>3. /\ currStamp' \in [Rank -> [Index -> Stamp]] /\ mask' \in [Rank -> [Index -> Index]]
      /\ currStamp'[r][0] = (currStamp[r][0] + 1) % StampMod /\ mask'[r][0] = 1 - mask[r][0]
      /\ \A f \in Rank : f # r => currStamp'[f] = currStamp[f] /\ mask'[f] = mask[f]
  <2>1. (currStamp[r][0] + 1) % StampMod \in Stamp /\ 1 - mask[r][0] \in Index
    BY <1>1, Apart DEF Index
  <2> QED BY <1>1, <1>2, <2>1 DEF TypeInv, Index
<1>4. /\ op' \in [Rank -> Nat] /\ chunk' \in [Rank -> Nat] /\ pc' \in [Rank -> Places]
      /\ todo' \in [Rank -> Seq(Rank)]
      /\ At(r)' = Following(At(r))
      /\ \A f \in Rank : f # r =>
            pc'[f] = pc[f] /\ todo'[f] = todo[f] /\ op'[f] = op[f] /\ chunk'[f] = chunk[f]
      /\ \/ pc'[r] = "conflict" /\ todo'[r] = swizzled_ranks(r) /\ At(r)' \in Position
         \/ pc'[r] = "op" /\ todo'[r] = <<>> /\ op'[r] = op[r] + 1 /\ chunk'[r] = 1
  <2>1. CASE chunk[r] < Now(r).chunks
    <3>1. /\ chunk' = [chunk EXCEPT ![r] = chunk[r] + 1] /\ op' = op
          /\ pc' = [pc EXCEPT ![r] = "conflict"] /\ todo' = [todo EXCEPT ![r] = MayConflict(r)]
      BY <1>1, <2>1 DEF NextChunk, StartChunk, Sends
    <3>2. MayConflict(r) = swizzled_ranks(r) /\ swizzled_ranks(r) \in Seq(Rank)
      <4>1. Now(r).chunks # 1
        BY <1>1, <2>1
      <4> QED BY <1>1, <4>1, Waits, Swizzled
    <3>3. At(r)' = <<op[r], chunk[r] + 1>> /\ At(r)' = Following(At(r))
      BY <1>1, <2>1, <3>1 DEF TypeInv, At, Following, Now
    <3>4. <<op[r], chunk[r] + 1>> \in Position
      BY <1>1, <2>1 DEF Position, Now
    <3>5. op' \in [Rank -> Nat] /\ chunk' \in [Rank -> Nat]
      BY <1>1, <3>1 DEF TypeInv
    <3>6. pc' \in [Rank -> Places] /\ todo' \in [Rank -> Seq(Rank)]
      BY <1>1, <3>1, <3>2 DEF TypeInv, Places
    <3>7. pc'[r] = "conflict" /\ todo'[r] = swizzled_ranks(r)
      BY <1>1, <3>1, <3>2 DEF TypeInv
    <3>8. \A f \in Rank : f # r =>
            pc'[f] = pc[f] /\ todo'[f] = todo[f] /\ op'[f] = op[f] /\ chunk'[f] = chunk[f]
      BY <1>1, <3>1 DEF TypeInv
    <3> QED BY <3>3, <3>4, <3>5, <3>6, <3>7, <3>8
  <2>2. CASE ~(chunk[r] < Now(r).chunks)
    <3>1. /\ chunk' = [chunk EXCEPT ![r] = 1] /\ op' = [op EXCEPT ![r] = op[r] + 1]
          /\ pc' = [pc EXCEPT ![r] = "op"] /\ todo' = todo
      BY <2>2 DEF NextChunk
    <3>2. At(r)' = <<op[r] + 1, 1>> /\ At(r)' = Following(At(r))
      BY <1>1, <2>2, <3>1 DEF TypeInv, At, Following, Now
    <3>3. op' \in [Rank -> Nat] /\ chunk' \in [Rank -> Nat]
      BY <1>1, <3>1 DEF TypeInv
    <3>4. pc' \in [Rank -> Places] /\ todo' \in [Rank -> Seq(Rank)]
      BY <1>1, <3>1 DEF TypeInv, Places
    <3>5. pc'[r] = "op" /\ todo'[r] = <<>> /\ op'[r] = op[r] + 1 /\ chunk'[r] = 1
      BY <1>1, <3>1 DEF TypeInv
    <3>6. \A f \in Rank : f # r =>
            pc'[f] = pc[f] /\ todo'[f] = todo[f] /\ op'[f] = op[f] /\ chunk'[f] = chunk[f]
      BY <1>1, <3>1 DEF TypeInv
    <3> QED BY <3>2, <3>3, <3>4, <3>5, <3>6
  <2> QED BY <2>1, <2>2
<1>5. Moved(r)
  BY <1>1, <1>2, <1>3, <1>4 DEF Moved, At
<1>6. TypeInv'
  <2>1. Position' = Position /\ prog' = prog
    BY <1>5, MovedAlone DEF Moved
  <2>2. Spaced(prog)'
    BY <1>1, <2>1 DEF TypeInv, Spaced
  <2>3. ASSUME NEW f \in Rank
        PROVE  At(f)' \in Position \/ (At(f)' = <<Len(prog) + 1, 1>> /\ pc'[f] = "op")
    <3>1. CASE f = r
      BY <1>1, <1>4, <3>1, Following1
    <3>2. CASE f # r
      <4>1. At(f)' = At(f) /\ pc'[f] = pc[f]
        BY <1>5, <3>2 DEF Moved
      <4> QED BY <1>1, <4>1 DEF TypeInv
    <3> QED BY <3>1, <3>2
  <2> QED BY <1>1, <1>2, <1>3, <1>4, <2>1, <2>2, <2>3, ZenonT(40) DEF TypeInv
<1> QED BY <1>4, <1>5, <1>6

LEMMA NextChunkStep ==
    ASSUME ShmInv, StampMod >= 5, NEW r \in Rank, NextChunk(r)
    PROVE  ShmInv'
<1>1. /\ pc[r] = "next" /\ RankInv(r) /\ reading[r] = {} /\ todo[r] = <<>>
      /\ readyStamp[r][0] = currStamp[r][0] /\ op[r] \in Nat /\ TypeInv
  BY Local DEF ShmInv, RankInv, NextChunk, Committed
<1>2. /\ Moved(r) /\ TypeInv'
      /\ \/ pc'[r] = "conflict" /\ todo'[r] = swizzled_ranks(r)
         \/ pc'[r] = "op" /\ todo'[r] = <<>> /\ op'[r] = op[r] + 1 /\ chunk'[r] = 1
  BY NextChunkMoves
<1>3. /\ At(r) \in Position /\ At(r)' = Following(At(r))
      /\ currStamp'[r][0] = (currStamp[r][0] + 1) % StampMod /\ mask'[r][0] = 1 - mask[r][0]
      /\ prog' = prog /\ readyStamp' = readyStamp /\ half' = half /\ reading' = reading
      /\ mask[r][0] \in {0, 1}
  BY <1>2, Local DEF Moved, Index
<1>4. ASSUME NEW f \in Rank, f # r
      PROVE  /\ pc'[f] = pc[f] /\ todo'[f] = todo[f] /\ At(f)' = At(f)
             /\ op'[f] = op[f] /\ chunk'[f] = chunk[f]
             /\ currStamp'[f] = currStamp[f] /\ mask'[f] = mask[f]
             /\ Now(f)' = Now(f)
  BY <1>2, <1>3, <1>4 DEF Moved, Now
<1>5. \A f \in Rank : RankInv(f)'
  <2> SUFFICES ASSUME NEW f \in Rank PROVE RankInv(f)'
    OBVIOUS
  <2>1. CASE f = r
    <3>1. \A i \in 1 .. Len(todo'[r]) : todo'[r][i] # r
      <4>1. CASE todo'[r] = swizzled_ranks(r)
        BY <4>1, Swizzled
      <4>2. CASE todo'[r] = <<>>
        BY <4>2
      <4> QED BY <1>2, <4>1, <4>2
    <3> QED BY <1>1, <1>2, <1>3, <2>1, <3>1 DEF RankInv, Committed
  <2>2. CASE f # r
    <3>1. RankInv(f) /\ reading'[f] = reading[f] /\ readyStamp'[f] = readyStamp[f]
      BY <1>3 DEF ShmInv
    <3> QED BY <1>4, <2>2, <3>1 DEF RankInv
  <2> QED BY <2>1, <2>2
<1>6. \A f \in Rank : PreviousInv(f)'
  <2> SUFFICES ASSUME NEW f \in Rank, NEW x \in Position, Following(x) = At(f)'
               PROVE  half[f][1 - mask'[f][0]] = x
    BY <1>2, <1>3, MovedAlone DEF PreviousInv
  <2>1. CASE f = r
    <3>1. x = At(r)
      BY <1>1, <1>3, <2>1, FollowingOnce
    <3>2. half[r][mask[r][0]] = At(r)
      BY <1>1, SameSelf DEF ShmInv, DataInv, Filled, Committed
    <3>3. 1 - mask'[r][0] = mask[r][0]
      BY <1>3
    <3> QED BY <2>1, <3>1, <3>2, <3>3
  <2>2. CASE f # r
    BY <1>4, <2>2 DEF ShmInv, PreviousInv
  <2> QED BY <2>1, <2>2
<1>7. \A f, q \in Rank : LeadInv(f, q)'
  <2> SUFFICES ASSUME NEW f \in Rank, NEW q \in Rank PROVE LeadInv(f, q)'
    OBVIOUS
  <2>1. CASE f = q
    <3>1. Same(q, f)'
      BY <2>1 DEF Same
    <3> QED BY <3>1 DEF LeadInv, OneAhead, NotAhead
  <2>2. CASE f = r /\ q # r
    BY <1>1, <1>2, <2>2, MovedLead, MovedOnly DEF LeadInv, OneAhead, NotAhead
  <2>3. CASE q = r /\ f # r
    BY <1>1, <1>2, <2>3, MovedLead, MovedOnly DEF LeadInv, OneAhead, NotAhead
  <2>4. CASE f # r /\ q # r
    BY <1>2, <2>4, MovedAlone DEF ShmInv, LeadInv
  <2> QED BY <2>1, <2>2, <2>3, <2>4
<1>8. \A f, q \in Rank : DataInv(f, q)'
  <2> SUFFICES ASSUME NEW f \in Rank, NEW q \in Rank PROVE DataInv(f, q)'
    OBVIOUS
  <2>1. pc'[r] \notin Filled
    BY <1>2 DEF Filled, Committed
  <2>2. CASE f = r /\ q = r
    <3>1. currStamp'[r][0] \in Stamp
      BY <1>2 DEF TypeInv, Index
    <3>2. ~Ahead(r, r)' /\ ~TwoAhead(r, r)'
      BY <3>1, Apart DEF Ahead, TwoAhead
    <3> QED BY <2>1, <2>2, <3>2 DEF DataInv
  <2>3. CASE f = r /\ q # r
    <3>1. /\ Ahead(r, q)' => Same(r, q)
          /\ TwoAhead(r, q)' => Ahead(r, q)
      BY <1>1, <1>2, <2>3, MovedOnly
    <3>2. /\ Same(r, q) => half[r][mask[q][0]] = At(q)
          /\ Ahead(r, q) => half[r][mask[q][0]] = At(q)
      BY <1>1 DEF ShmInv, DataInv, Filled, Committed
    <3> QED BY <1>3, <1>4, <2>1, <2>3, <3>1, <3>2 DEF DataInv
  <2>4. CASE f # r /\ q = r
    <3>1. ~TwoAhead(f, r)'
      BY <1>1, <1>2, <2>4, MovedOnly
    <3>2. ASSUME Same(f, r)', pc[f] \in Filled PROVE half[f][mask'[r][0]] = At(r)'
      <4>1. mask'[r][0] = mask[f][0] /\ At(r)' = At(f)
        BY <1>4, <2>4, <3>2 DEF Same
      <4>2. half[f][mask[f][0]] = At(f)
        BY <3>2, SameSelf DEF ShmInv, DataInv
      <4> QED BY <4>1, <4>2
    <3>3. ASSUME Ahead(f, r)' PROVE half[f][mask'[r][0]] = At(r)'
      <4>1. At(r)' \in Position /\ At(f) = Following(At(r)') /\ mask[f][0] = 1 - mask'[r][0]
        BY <1>2, <1>4, <2>4, <3>3, MovedAlone DEF Ahead
      <4>2. half[f][1 - mask[f][0]] = At(r)'
        BY <4>1 DEF ShmInv, PreviousInv
      <4>3. 1 - mask[f][0] = mask'[r][0]
        BY <1>3, <4>1
      <4> QED BY <4>2, <4>3
    <3> QED BY <1>3, <1>4, <2>4, <3>1, <3>2, <3>3 DEF DataInv
  <2>5. CASE f # r /\ q # r
    <3>1. DataInv(f, q)
      BY DEF ShmInv
    <3> QED BY <1>2, <1>3, <1>4, <2>5, <3>1, MovedAlone DEF DataInv
  <2> QED BY <2>2, <2>3, <2>4, <2>5
<1>9. ASSUME NEW f \in Rank, f # r
      PROVE  OneAhead(f, r)' /\ (NotAhead(f, r) => NotAhead(f, r)' /\ ~Same(r, f)')
  BY <1>1, <1>2, <1>9, MovedLead, MovedOnly DEF OneAhead, NotAhead
<1>10. \A f, q \in Rank : ReadInv(f, q)'
  <2> SUFFICES ASSUME NEW f \in Rank, NEW q \in Rank PROVE ReadInv(f, q)'
    OBVIOUS
  <2>1. ReadInv(f, q) /\ reading'[f] = reading[f]
    BY <1>3 DEF ShmInv
  <2>2. CASE f = r
    BY <1>1, <1>3, <2>2 DEF ReadInv
  <2>3. CASE f # r /\ q = r
    BY <1>9, <2>1, <2>3 DEF ReadInv
  <2>4. CASE f # r /\ q # r
    BY <1>2, <1>4, <2>1, <2>4, MovedAlone DEF ReadInv
  <2> QED BY <2>2, <2>3, <2>4
<1>11. \A f, q \in Rank : f # q => WaitInv(f, q)'
  <2> SUFFICES ASSUME NEW f \in Rank, NEW q \in Rank, f # q PROVE WaitInv(f, q)'
    OBVIOUS
  <2>1. WaitInv(f, q)
    BY DEF ShmInv
  <2>2. CASE f = r
    <3>1. pc'[r] = "conflict" => Awaits(r, q)'
      <4> SUFFICES ASSUME pc'[r] = "conflict" PROVE \E i \in 1 .. Len(todo'[r]) : todo'[r][i] = q
        BY DEF Awaits
      <4>1. todo'[r] = swizzled_ranks(r) /\ q \in Others(r)
        BY <1>2, <2>2 DEF Others
      <4> QED BY <4>1, Swizzled
    <3>2. ~Awaits(r, q)
      BY <1>1 DEF Awaits
    <3>3. Symmetric(Now(r)) => NotAhead(r, q)
      BY <1>1, <2>1, <2>2, <3>2 DEF WaitInv, Committed
    <3>4. NotAhead(r, q) => OneAhead(r, q)'
      BY <1>1, <1>2, <2>2, MovedLead, MovedOnly DEF OneAhead, NotAhead
    <3>5. pc'[r] = "op" => op'[r] - 1 = op[r]
      BY <1>1, <1>2
    <3> QED BY <1>2, <1>3, <2>2, <3>1, <3>3, <3>4, <3>5 DEF WaitInv, Filled, Committed, Now
  <2>3. CASE f # r /\ q = r
    <3>1. Awaits(f, r)' <=> Awaits(f, r)
      BY <1>4, <2>3 DEF Awaits
    <3> QED BY <1>3, <1>4, <1>9, <2>1, <2>3, <3>1 DEF WaitInv
  <2>4. CASE f # r /\ q # r
    <3>1. Awaits(f, q)' <=> Awaits(f, q)
      BY <1>4, <2>4 DEF Awaits
    <3> QED BY <1>2, <1>3, <1>4, <2>1, <2>4, <3>1, MovedAlone DEF WaitInv
  <2> QED BY <2>2, <2>3, <2>4
<1> QED BY <1>2, <1>5, <1>6, <1>7, <1>8, <1>10, <1>11 DEF ShmInv

-----------------------------------------------------------------------------
(* The invariant holds *)

LEMMA ShmInitially ==
    ASSUME StampMod >= 5, Init, Spaced(prog)
    PROVE  ShmInv
<1>1. /\ prog \in Seq(Operation) /\ Len(prog) \in Nat /\ 1 % StampMod = 1 /\ 1 \in Stamp /\ 0 \in Stamp
      /\ StampMod \in Nat
  <2>1. StampMod \in Nat /\ prog \in Seq(Operation)
    BY ShmAssumption DEF Init
  <2>2. 1 \in 0 .. StampMod + StampMod - 1
    BY <2>1
  <2>3. 1 % StampMod = 1
    BY <2>1, <2>2, Mod
  <2> QED BY <2>1, <2>3 DEF Stamp
<1>2. ASSUME NEW r \in Rank
      PROVE  /\ At(r) = <<1, 1>> /\ pc[r] = "op" /\ reading[r] = {} /\ todo[r] = <<>>
             /\ op[r] = 1 /\ chunk[r] = 1
             /\ currStamp[r][0] = 1 /\ readyStamp[r][0] = 0 /\ mask[r][0] = 0
  BY <1>1 DEF Init, At, Index
<1>3. TypeInv
  <2>1. ASSUME NEW r \in Rank
        PROVE  At(r) \in Position \/ (At(r) = <<Len(prog) + 1, 1>> /\ pc[r] = "op")
    <3>1. CASE Len(prog) = 0
      BY <1>2, <3>1
    <3>2. CASE Len(prog) > 0
      <4>1. 1 \in 1 .. Len(prog)
        BY <1>1, <3>2
      <4>2. prog[1] \in Operation
        BY <1>1, <4>1
      <4>3. 1 \in 1 .. prog[1].chunks
        BY <4>2 DEF Operation
      <4> QED BY <1>2, <4>1, <4>3 DEF Position
    <3> QED BY <1>1, <3>1, <3>2
  <2>2. /\ op \in [Rank -> Nat] /\ chunk \in [Rank -> Nat] /\ pc \in [Rank -> Places]
        /\ todo \in [Rank -> Seq(Rank)] /\ reading \in [Rank -> SUBSET Rank]
    BY DEF Init, Places
  <2>3. /\ currStamp \in [Rank -> [Index -> Stamp]] /\ readyStamp \in [Rank -> [Index -> Stamp]]
        /\ mask \in [Rank -> [Index -> Index]] /\ half \in [Rank -> [Index -> Nat \X Nat]]
    BY <1>1 DEF Init, Torn, Index
  <2> QED BY <1>1, <2>1, <2>2, <2>3 DEF TypeInv, Init
<1>4. ASSUME NEW r \in Rank PROVE RankInv(r) /\ PreviousInv(r)
  <2>1. RankInv(r)
    BY <1>1, <1>2 DEF RankInv, Committed
  <2>2. PreviousInv(r)
    BY <1>2, <1>3, Following1 DEF PreviousInv
  <2> QED BY <2>1, <2>2
<1>5. ASSUME NEW r \in Rank, NEW q \in Rank
      PROVE  LeadInv(r, q) /\ DataInv(r, q) /\ ReadInv(r, q) /\ WaitInv(r, q)
  <2>1. Same(r, q) /\ Same(q, r)
    BY <1>2 DEF Same
  <2>2. ~Ahead(r, q) /\ ~TwoAhead(r, q)
    BY <1>3, <2>1, Exclusive
  <2>3. LeadInv(r, q) /\ OneAhead(r, q)
    BY <2>1 DEF LeadInv, OneAhead, NotAhead
  <2>4. DataInv(r, q)
    BY <1>2, <2>2 DEF DataInv, Filled, Committed
  <2>5. ReadInv(r, q)
    BY <1>2 DEF ReadInv
  <2>6. WaitInv(r, q)
    BY <1>2, <2>3 DEF WaitInv, Committed
  <2> QED BY <2>3, <2>4, <2>5, <2>6
<1> QED BY <1>3, <1>4, <1>5 DEF ShmInv

LEMMA ShmStep ==
    ASSUME StampMod >= 5, ShmInv, [Next]_vars
    PROVE  ShmInv'
<1>1. ASSUME NEW r \in Rank, Step(r) PROVE ShmInv'
  <2>1. pc[r] = "op" /\ ~Done(r) => Now(r).kind # "p2p"
    BY Local
  <2>2. ~Send(r) /\ ~Recv(r) /\ ~Skip(r)
    BY <2>1 DEF Send, Recv, Skip
  <2>3. CASE Collective(r)
    BY <2>3, CollectiveStep
  <2>4. CASE NoConflict(r)
    BY <2>4, NoConflictStep
  <2>5. CASE StartCopy(r)
    BY <2>5, StartCopyStep
  <2>6. CASE EndCopy(r)
    BY <2>6, EndCopyStep
  <2>7. CASE commit_ready_stamp(r)
    BY <2>7, CommitStep
  <2>8. CASE StampReady(r)
    BY <2>8, StampReadyStep
  <2>9. CASE EndRead(r)
    BY <2>9, EndReadStep
  <2>10. CASE NextChunk(r)
    BY <2>10, NextChunkStep
  <2> QED BY <1>1, <2>2, <2>3, <2>4, <2>5, <2>6, <2>7, <2>8, <2>9, <2>10 DEF Step
<1>2. CASE UNCHANGED vars
  <2>1. UNCHANGED <<prog, op, chunk, pc, todo, reading, local, remote, currStamp, readyStamp, mask, half>>
    BY <1>2 DEF vars, place, stamps
  <2>2. Still
    BY <2>1 DEF Still
  <2>3. TypeInv'
    BY <2>1 DEF ShmInv, TypeInv, Spaced, At, Position
  <2>4. ASSUME NEW r \in Rank PROVE RankInv(r)' /\ PreviousInv(r)'
    BY <2>1, <2>2, StillRelations DEF ShmInv, RankInv, PreviousInv
  <2>5. ASSUME NEW r \in Rank, NEW q \in Rank
        PROVE  LeadInv(r, q)' /\ DataInv(r, q)' /\ ReadInv(r, q)' /\ (r # q => WaitInv(r, q)')
    <3>1. LeadInv(r, q)' /\ DataInv(r, q)' /\ ReadInv(r, q)'
      BY <2>1, <2>2, StillRelations DEF ShmInv, LeadInv, DataInv, ReadInv
    <3>2. r # q => WaitInv(r, q)'
      BY <2>1, <2>2, StillRelations DEF ShmInv, WaitInv, Awaits
    <3> QED BY <3>1, <3>2
  <2> QED BY <2>3, <2>4, <2>5 DEF ShmInv
<1> QED BY <1>1, <1>2 DEF Next

LEMMA ShmSafe ==
    ASSUME StampMod >= 5, ShmInv
    PROVE  BuffersSafe
<1>1. TypeInv /\ Len(prog) \in Nat
  BY Operations DEF ShmInv
<1>2. ASSUME NEW r \in Rank
      PROVE  /\ op[r] \in 1 .. Len(prog) + 1
             /\ pc[r] # "op" => chunk[r] \in 0 .. Now(r).chunks
             /\ local[r] \in Index /\ remote[r] \in Index
             /\ \A i \in Index : /\ currStamp[r][i] \in 0 .. StampMod - 1
                                 /\ readyStamp[r][i] \in 0 .. StampMod - 1
                                 /\ mask[r][i] \in Index
             /\ reading[r] \subseteq Rank \ {r}
  <2>1. op[r] \in 1 .. Len(prog) + 1
    <3>1. At(r) = <<Len(prog) + 1, 1>> => op[r] = Len(prog) + 1
      BY DEF At
    <3>2. At(r) \in Position => op[r] \in 1 .. Len(prog)
      BY Local
    <3> QED BY <1>1, <3>1, <3>2 DEF TypeInv
  <2>2. pc[r] # "op" => chunk[r] \in 0 .. Now(r).chunks
    BY Local
  <2>3. \A i \in Index : /\ currStamp[r][i] \in 0 .. StampMod - 1
                         /\ readyStamp[r][i] \in 0 .. StampMod - 1
                         /\ mask[r][i] \in Index
    BY <1>1 DEF TypeInv, Stamp
  <2>4. reading[r] \subseteq Rank \ {r}
    BY Local DEF ShmInv, ReadInv
  <2> QED BY <2>1, <2>2, <2>3, <2>4, Local DEF Index
<1>3. ASSUME NEW r \in Rank, NEW q \in reading[r]
      PROVE  half[q][Half(r)] = <<op[r], IF chunk[r] = 0 THEN 1 ELSE chunk[r]>>
  <2>1. q \in Rank /\ q # r /\ NotAhead(r, q) /\ (Same(q, r) => pc[q] \in Committed)
    BY Local DEF ShmInv, ReadInv
  <2>2. pc[r] # "op"
    BY DEF ShmInv, RankInv
  <2>3. At(r) = <<op[r], chunk[r]>> /\ chunk[r] # 0 /\ Half(r) = mask[r][0]
    <3>1. At(r) \in Position
      BY <2>2, Local
    <3>2. chunk[r] \in 1 .. Now(r).chunks /\ Half(r) = mask[r][0] /\ Now(r).chunks \in Nat
      BY <3>1, Local
    <3> QED BY <3>2 DEF At
  <2>4. TwoAhead(q, r) => pc[q] \in {"op", "conflict"}
    <3>1. OneAhead(q, r) => ~TwoAhead(q, r)
      BY <1>1, <2>1, Exclusive DEF OneAhead, NotAhead
    <3>2. pc[q] \in {"copy"} \cup Filled => OneAhead(q, r)
      BY <2>1 DEF ShmInv, WaitInv
    <3> QED BY <2>1, <3>1, <3>2, Local DEF Places
  <2>5. half[q][mask[r][0]] = At(r)
    <3>1. DataInv(q, r)
      BY <2>1 DEF ShmInv
    <3> QED BY <2>1, <2>4, <3>1 DEF DataInv, NotAhead, Filled
  <2> QED BY <2>3, <2>5
<1> QED BY <1>2, <1>3 DEF BuffersSafe, TypeOK, ReadStable

(* Between the check of its stamp and the end of the read, the half of a peer
   holds the very chunk that the reader is at, for any number of ranks and any
   program that is Spaced, with all its interleavings (src/csrc/cpu/shm.cpp:199-216, 411-427);
   eight-bit stamps suffice, and so would stamps modulo five. *)
THEOREM CollectivesSafe ==
    ASSUME StampMod >= 5
    PROVE  Spec /\ Spaced(prog) => []BuffersSafe
<1>1. Init /\ Spaced(prog) => ShmInv
  BY ShmInitially
<1>2. ShmInv /\ [Next]_vars => ShmInv'
  BY ShmStep
<1>3. ShmInv => BuffersSafe
  BY ShmSafe
<1> QED BY <1>1, <1>2, <1>3, PTL DEF Spec

=============================================================================
