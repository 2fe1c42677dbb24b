------------------------- MODULE LamportCollectives -------------------------
(***************************************************************************)
(* All-gather and reduce-scatter without barriers                          *)
(* (csrc/custom_all_gather_reduce_scatter.cuh: mnnvl_lamport_all_gather,   *)
(* mnnvl_lamport_reduce_scatter_kernel).                                   *)
(*                                                                         *)
(* A GPU writes its payload straight into the buffers of its peers, and a  *)
(* peer waits for a cell until it no longer holds the sentinel, the bit    *)
(* pattern of -0.0.  The buffer has three stages, used in turn; while a    *)
(* GPU works in one stage it puts sentinels back into the previous one.    *)
(* No GPU tells another one that it has finished.                          *)
(*                                                                         *)
(* One thread per block, one pack per thread; cells are numbered as in the *)
(* code, so that operations of different sizes overlap.  A store is in     *)
(* flight for a while; when a kernel ends its stores have been performed,  *)
(* and kernels on one GPU run one after the other.                         *)
(***************************************************************************)
EXTENDS Integers, Sequences

CONSTANTS
    N,         \* ngpus
    MaxSize,   \* bound: packs per rank
    Programs   \* bound: sequences of operations

(* neg: the GPUs whose input has the bits of the sentinel. *)
Operation(p) == [kind : {"allgather", "reducescatter"}, size : 1 .. MaxSize, neg : SUBSET p]

LamportAssumption ==
    /\ N \in Nat \ {0, 1} /\ MaxSize \in Nat \ {0}
    /\ Programs \subseteq Seq(Operation(0 .. N - 1))

Rank == 0 .. N - 1
Stage == 0 .. 2
Cell == 0 .. N * MaxSize - 1
Cta == 0 .. N * MaxSize - 1

(* A cell holds the pack idx that GPU src sent in operation op. *)
lamport_sentinel == [op |-> 0, src |-> 0, idx |-> 0, bits |-> "negzero"]
is_lamport_dirty(cell) == cell.bits = "negzero"

VARIABLES
    prog,      \* the operations, the same on all GPUs
    op,        \* op[r]: the operation whose kernel runs, or ran last, on GPU r
    pc,        \* pc[r][c]: what block c does
    stage, dirty,  \* stage and dirty size that a block has loaded
    epoch,     \* epochs[0]
    arrived,   \* epochs[1]
    used,      \* epochs[2 ..]: cells written in each stage
    flight,    \* stores of GPU r that are not performed yet
    buf        \* buf[r][s][i]

kernel == <<prog, op>>
epochs == <<epoch, arrived, used>>
vars == <<kernel, pc, stage, dirty, epochs, flight, buf>>

Init ==
    /\ prog \in Programs
    /\ op = [r \in Rank |-> 0]
    /\ pc = [r \in Rank |-> [c \in Cta |-> "exit"]]
    /\ stage = [r \in Rank |-> [c \in Cta |-> 0]]
    /\ dirty = [r \in Rank |-> [c \in Cta |-> 0]]
    /\ epoch = [r \in Rank |-> 0] /\ arrived = [r \in Rank |-> 0]
    /\ used = [r \in Rank |-> [s \in Stage |-> 0]]
    /\ flight = [r \in Rank |-> {}]
    /\ buf = [r \in Rank |-> [s \in Stage |-> [i \in Cell |-> lamport_sentinel]]]

-----------------------------------------------------------------------------
Now(r) == prog[op[r]]
gridDim(o) == IF o.kind = "allgather" THEN o.size ELSE N * o.size

(* Slip: the stage cleared is the one after, not the one before. *)
DirtyStageAhead(s) == (s + 1) % 3
mnnvl_lamport_dirty_stage(s) == (s + 2) % 3

mnnvl_lamport_next_stage(s) == (s + 1) % 3

WrittenCells(o) == N * o.size

(* The pack a block works on, the GPUs it sends to and those it waits for. *)
Idx(r, c) == IF Now(r).kind = "allgather" THEN c ELSE c \div N
Dst(r, c) == IF Now(r).kind = "allgather" THEN Rank ELSE {c % N} \ {r}
Src(r, c) == IF Now(r).kind = "allgather" \/ c % N = r THEN Rank \ {r} ELSE {}
CellOf(r, c, q) == q * Now(r).size + Idx(r, c)

sanitize_lamport_payload(x) == IF is_lamport_dirty(x) THEN [x EXCEPT !.bits = "other"] ELSE x

Payload(r, c) == [op |-> op[r], src |-> r, idx |-> Idx(r, c),
                  bits |-> IF r \in Now(r).neg THEN "negzero" ELSE "other"]

(* The kernel before has ended: its blocks have left and its stores are
   performed. *)
Ended(r) == flight[r] = {} /\ \A c \in Cta : pc[r][c] = "exit"

Launch(r) ==
    /\ Ended(r) /\ op[r] < Len(prog)
    /\ op' = [op EXCEPT ![r] = @ + 1]
    /\ pc' = [pc EXCEPT ![r] = [c \in Cta |-> IF c < gridDim(prog[op[r] + 1])
                                              THEN "publish" ELSE "exit"]]
    /\ UNCHANGED <<prog, stage, dirty, epochs, flight, buf>>

(* A block loads the epoch and sends its pack. *)
Publish(r, c) ==
    /\ pc[r][c] = "publish"
    /\ stage' = [stage EXCEPT ![r][c] = epoch[r]]
    /\ dirty' = [dirty EXCEPT ![r][c] = used[r][mnnvl_lamport_dirty_stage(epoch[r])]]
    /\ flight' = [flight EXCEPT ![r] = @ \cup
           {[to |-> q, stage |-> epoch[r], cell |-> CellOf(r, c, r),
             value |-> sanitize_lamport_payload(Payload(r, c))] : q \in Dst(r, c)}]
    /\ pc' = [pc EXCEPT ![r][c] = "arrive"]
    /\ UNCHANGED <<kernel, epochs, buf>>

Land(r, w) ==
    /\ w \in flight[r]
    /\ flight' = [flight EXCEPT ![r] = @ \ {w}]
    /\ buf' = [buf EXCEPT ![w.to][w.stage][w.cell] = w.value]
    /\ UNCHANGED <<kernel, pc, stage, dirty, epochs>>

lamport_cta_arrive(r, c) ==
    /\ pc[r][c] = "arrive"
    /\ arrived' = [arrived EXCEPT ![r] = @ + 1]
    /\ pc' = [pc EXCEPT ![r][c] = "clear"]
    /\ UNCHANGED <<kernel, stage, dirty, epoch, used, flight, buf>>

(* Each block of the grid clears its share of the previous stage. *)
Cleared(r, c) == {i \in Cell : i < dirty[r][c] /\ i % gridDim(Now(r)) = c}

Clear(r, c) ==
    /\ pc[r][c] = "clear"
    /\ buf' = [buf EXCEPT ![r][mnnvl_lamport_dirty_stage(stage[r][c])] =
                   [i \in Cell |-> IF i \in Cleared(r, c) THEN lamport_sentinel ELSE @[i]]]
    /\ pc' = [pc EXCEPT ![r][c] = "wait"]
    /\ UNCHANGED <<kernel, stage, dirty, epochs, flight>>

(* wait_lamport_payload for every source; thread 0 of the grid goes on to
   update the epoch. *)
Wait(r, c) ==
    /\ pc[r][c] = "wait"
    /\ \A q \in Src(r, c) : ~is_lamport_dirty(buf[r][stage[r][c]][CellOf(r, c, q)])
    /\ pc' = [pc EXCEPT ![r][c] = IF c = 0 THEN "update" ELSE "exit"]
    /\ UNCHANGED <<kernel, stage, dirty, epochs, flight, buf>>

Update(r) ==
    /\ pc[r][0] = "update" /\ arrived[r] >= gridDim(Now(r))
    /\ used' = [used EXCEPT ![r][stage[r][0]] = WrittenCells(Now(r))]
    /\ epoch' = [epoch EXCEPT ![r] = mnnvl_lamport_next_stage(stage[r][0])]
    /\ arrived' = [arrived EXCEPT ![r] = 0]
    /\ pc' = [pc EXCEPT ![r][0] = "exit"]
    /\ UNCHANGED <<kernel, stage, dirty, flight, buf>>

-----------------------------------------------------------------------------
Gpu(r) ==
    \/ Launch(r) \/ Update(r)
    \/ \E w \in flight[r] : Land(r, w)
    \/ \E c \in Cta : Publish(r, c) \/ lamport_cta_arrive(r, c) \/ Clear(r, c) \/ Wait(r, c)

Next == \E r \in Rank : Gpu(r)

(* A GPU that can take a step takes one; it can take finitely many. *)
Fairness == \A r \in Rank : WF_vars(Gpu(r))

Spec == Init /\ [][Next]_vars /\ Fairness

-----------------------------------------------------------------------------
(* Properties *)

(* A cell that a block is waiting for is empty or holds the pack of this very
   operation from this very source: never a pack left over from the last use
   of the stage, whatever its size was, nor one of a peer that is ahead. *)
ReadsOwnOperation ==
    \A r \in Rank : \A c \in Cta :
        pc[r][c] = "wait" =>
            \A q \in Src(r, c) :
                LET cell == buf[r][stage[r][c]][CellOf(r, c, q)]
                IN  is_lamport_dirty(cell) \/
                    [op |-> cell.op, src |-> cell.src, idx |-> cell.idx]
                        = [op |-> op[r], src |-> q, idx |-> Idx(r, c)]

(* "Clean the previous stage, which cannot be reused until two epochs later":
   no store of a peer is performed in a stage that is still to be cleared. *)
CleanBeforeReuse ==
    \A r \in Rank : \A c \in Cta :
        pc[r][c] \in {"arrive", "clear"} =>
            \A i \in Cleared(r, c) :
                buf[r][mnnvl_lamport_dirty_stage(stage[r][c])][i].op < op[r]

(* A stage never mixes two operations: neither for the block that reads it nor
   for the one that clears it. *)
StagesSound == ReadsOwnOperation /\ CleanBeforeReuse

(* All operations end: no pack is overwritten by a sentinel before it is read,
   and no pack looks like one. *)
OperationsEnd == <>(\A r \in Rank : op[r] = Len(prog) /\ Ended(r))
=============================================================================
