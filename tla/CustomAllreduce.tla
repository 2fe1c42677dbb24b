--------------------------- MODULE CustomAllreduce ---------------------------
(***************************************************************************)
(* Collective kernels over peer-to-peer memory                             *)
(* (csrc/custom_collective_common.cuh, custom_all_reduce.cuh,              *)
(* custom_all_gather_reduce_scatter.cuh).                                  *)
(*                                                                         *)
(* GPUs read each other's input buffers directly.  A block of a kernel is  *)
(* separated from the same block on the other GPUs by barriers: thread i   *)
(* writes the number of the barrier into a counter of GPU i and waits for  *)
(* that number in the counter GPU i writes here.  Barriers before and      *)
(* after the work use different counters.  Numbers are uint32_t: they wrap *)
(* at FlagMod.                                                             *)
(*                                                                         *)
(* Kernels of one stage (cross_device_reduce_1stage, _all_gather,          *)
(* _reduce_scatter) read the inputs between a start and an end barrier.    *)
(* The two-stage kernel writes its part to a temporary buffer, passes the  *)
(* end barrier, and gathers the parts of all GPUs without a third barrier. *)
(* Kernels on one GPU run one after the other (stream order), with their   *)
(* writes completed.                                                       *)
(***************************************************************************)
EXTENDS Integers, Sequences

CONSTANTS
    N,         \* ngpus
    Blocks,    \* largest grid of a kernel
    Builds,    \* the builds: whether USE_ROCM, and where flags wrap (2^32)
    Programs   \* bound: sequences of kernels

Kernel == [stages : {1, 2}, blocks : 1 .. Blocks]

ASSUME AllreduceAssumption ==
    /\ N \in Nat \ {0, 1} /\ Blocks \in Nat \ {0}
    /\ Builds \subseteq [rocm : BOOLEAN, mod : Nat \ {0}]
    /\ Programs \subseteq Seq(Kernel)

Rank == 0 .. N - 1
Block == 0 .. Blocks - 1
Part == Block      \* parts of the temporary buffer, one per block of the largest grid
Torn == 0          \* contents that are not one whole result

VARIABLES
    build,   \* the build, the same on all GPUs
    prog,    \* the kernels, the same on all GPUs
    k,       \* k[r]: number of the kernel that runs, or ran last, on GPU r
    pc,      \* pc[r][b]: what block b does
    reg,     \* the flag that the threads of the block computed
    sent, seen,  \* threads that have written, and have seen, the flag
    counter, \* Signal: start and end, by block and writer
    flag,    \* Signal: _flag
    input,   \* input[r]: the kernel whose input is in the buffer of GPU r
    tmp      \* tmp[r][p]: the kernel whose result is in the temporary buffer

program == <<build, prog>>
signal == <<counter, flag>>
vars == <<program, k, pc, reg, sent, seen, signal, input, tmp>>

Rocm == build.rocm     \* barriers wait for "at least" instead of "exactly"
FlagMod == build.mod

PerBlock(x) == [r \in Rank |-> [b \in Block |-> x]]

Init ==
    /\ build \in Builds /\ prog \in Programs
    /\ k = [r \in Rank |-> 0]
    /\ pc = PerBlock("done") /\ reg = PerBlock(0) /\ sent = PerBlock({}) /\ seen = PerBlock({})
    /\ counter = [r \in Rank |-> [a \in {"start", "end"} |->
                    [b \in Block |-> [q \in Rank |-> 0]]]]
    /\ flag = PerBlock(0)
    /\ input = [r \in Rank |-> Torn] /\ tmp = [r \in Rank |-> [p \in Part |-> Torn]]

-----------------------------------------------------------------------------
Now(r) == prog[k[r]]
Finished(r) == \A b \in Block : pc[r][b] = "done"
PartsOf(r, b) == {p \in Part : p % Now(r).blocks = b}

IncFlag(f) == (f + 1) % FlagMod

(* The stream has written the input of the next kernel and launches it. *)
Launch(r) ==
    /\ Finished(r) /\ k[r] < Len(prog)
    /\ k' = [k EXCEPT ![r] = @ + 1]
    /\ input' = [input EXCEPT ![r] = k[r] + 1]
    /\ LET grid == {b \in Block : b < prog[k[r] + 1].blocks}
       IN  /\ pc' = [pc EXCEPT ![r] = [b \in Block |-> IF b \in grid THEN "start" ELSE "done"]]
           /\ reg' = [reg EXCEPT ![r] = [b \in Block |-> IF b \in grid THEN IncFlag(flag[r][b])
                                                                       ELSE @[b]]]
    /\ sent' = [sent EXCEPT ![r] = [b \in Block |-> {}]]
    /\ seen' = [seen EXCEPT ![r] = [b \in Block |-> {}]]
    /\ UNCHANGED <<program, signal, tmp>>

(* Slip: one set of counters for both barriers. *)
CountersShared(r, b) == "start"

(* Two sets of counters: a peer may reach the end barrier while this block
   still waits in the start barrier. *)
CountersOf(r, b) == pc[r][b]

(* Thread i of a block in a barrier writes the flag to its peer ... *)
StoreFlag(r, b, i) ==
    /\ pc[r][b] \in {"start", "end"} /\ i \notin sent[r][b]
    /\ sent' = [sent EXCEPT ![r][b] = @ \cup {i}]
    /\ counter' = [counter EXCEPT ![i][CountersOf(r, b)][b][r] = reg[r][b]]
    /\ UNCHANGED <<program, k, pc, reg, seen, flag, input, tmp>>

(* ... and spins on what the peer writes here. *)
Arrived(c, f) == IF Rocm THEN ~(c < f) ELSE c = f

SeeFlag(r, b, i) ==
    /\ pc[r][b] \in {"start", "end"} /\ i \in sent[r][b] \ seen[r][b]
    /\ Arrived(counter[r][CountersOf(r, b)][b][i], reg[r][b])
    /\ seen' = [seen EXCEPT ![r][b] = @ \cup {i}]
    /\ UNCHANGED <<program, k, pc, reg, sent, signal, input, tmp>>

UpdateFlag(r, b) == flag' = [flag EXCEPT ![r][b] = reg[r][b]]

(* barrier_at_start is over: the block reads the inputs, and in two stages
   overwrites its part of the temporary buffer. *)
LeaveStart(r, b) ==
    /\ pc[r][b] = "start" /\ seen[r][b] = Rank
    /\ UpdateFlag(r, b)
    /\ pc' = [pc EXCEPT ![r][b] = "reduce"]
    /\ tmp' = IF Now(r).stages = 1 THEN tmp
              ELSE [tmp EXCEPT ![r] = [p \in Part |-> IF p \in PartsOf(r, b) THEN Torn ELSE @[p]]]
    /\ UNCHANGED <<program, k, reg, sent, seen, counter, input>>

(* The work is done and the block enters barrier_at_end. *)
EnterEnd(r, b) ==
    /\ pc[r][b] = "reduce"
    /\ pc' = [pc EXCEPT ![r][b] = "end"]
    /\ reg' = [reg EXCEPT ![r][b] = IncFlag(flag[r][b])]
    /\ sent' = [sent EXCEPT ![r][b] = {}] /\ seen' = [seen EXCEPT ![r][b] = {}]
    /\ tmp' = IF Now(r).stages = 1 THEN tmp
              ELSE [tmp EXCEPT ![r] = [p \in Part |-> IF p \in PartsOf(r, b) THEN k[r] ELSE @[p]]]
    /\ UNCHANGED <<program, k, signal, input>>

(* final_sync: thread 0 updates the flag without waiting for the other
   threads; the block ends when all of them have. *)
UpdateFinalFlag(r, b) ==
    /\ pc[r][b] = "end" /\ Now(r).stages = 1
    /\ 0 \in seen[r][b] /\ flag[r][b] # reg[r][b]
    /\ UpdateFlag(r, b)
    /\ UNCHANGED <<program, k, pc, reg, sent, seen, counter, input, tmp>>

LeaveFinal(r, b) ==
    /\ pc[r][b] = "end" /\ Now(r).stages = 1
    /\ seen[r][b] = Rank /\ flag[r][b] = reg[r][b]
    /\ pc' = [pc EXCEPT ![r][b] = "done"]
    /\ UNCHANGED <<program, k, reg, sent, seen, signal, input, tmp>>

(* Slip: no __syncthreads after the barrier. *)
LeaveEndEarly(r, b) ==
    /\ pc[r][b] = "end" /\ Now(r).stages = 2 /\ 0 \in seen[r][b]
    /\ UpdateFlag(r, b)
    /\ pc' = [pc EXCEPT ![r][b] = "gather"]
    /\ UNCHANGED <<program, k, reg, sent, seen, counter, input, tmp>>

(* The second stage reads the parts that this block computed on all GPUs. *)
LeaveEnd(r, b) ==
    /\ pc[r][b] = "end" /\ Now(r).stages = 2 /\ seen[r][b] = Rank
    /\ UpdateFlag(r, b)
    /\ pc' = [pc EXCEPT ![r][b] = "gather"]
    /\ UNCHANGED <<program, k, reg, sent, seen, counter, input, tmp>>

EndGather(r, b) ==
    /\ pc[r][b] = "gather"
    /\ pc' = [pc EXCEPT ![r][b] = "done"]
    /\ UNCHANGED <<program, k, reg, sent, seen, signal, input, tmp>>

-----------------------------------------------------------------------------
BlockStep(r, b) ==
    \/ \E i \in Rank : StoreFlag(r, b, i) \/ SeeFlag(r, b, i)
    \/ LeaveStart(r, b) \/ EnterEnd(r, b) \/ UpdateFinalFlag(r, b) \/ LeaveFinal(r, b)
    \/ LeaveEnd(r, b) \/ EndGather(r, b)

Next == \E r \in Rank : Launch(r) \/ \E b \in Block : BlockStep(r, b)

(* GPUs run; the blocks of a grid are resident together (at most kMaxBlocks
   blocks, one per multiprocessor) and all make progress. *)
Fairness ==
    \A r \in Rank : WF_vars(Launch(r)) /\ \A b \in Block : WF_vars(BlockStep(r, b))

Spec == Init /\ [][Next]_vars /\ Fairness

-----------------------------------------------------------------------------
(* Properties *)

(* Flags are within uint32_t, and a thread looks for its peer's flag only
   after it has written its own. *)
TypeOK ==
    /\ \A r \in Rank : k[r] \in 0 .. Len(prog)
    /\ \A r \in Rank, b \in Block :
         /\ pc[r][b] \in {"start", "reduce", "end", "gather", "done"}
         /\ seen[r][b] \subseteq sent[r][b] /\ sent[r][b] \subseteq Rank
         /\ reg[r][b] \in 0 .. FlagMod - 1 /\ flag[r][b] \in 0 .. FlagMod - 1

(* While a block reads the inputs of its peers, every peer's buffer holds the
   input of this very kernel: written already (barrier_at_start), and not yet
   replaced by a peer that went on to its next kernel (barrier_at_end), also
   when the counters wrap. *)
InputStable ==
    \A r \in Rank, b \in Block :
        pc[r][b] = "reduce" => \A q \in Rank : input[q] = k[r]

(* The second stage has no barrier after it: yet no GPU that goes on writes
   the parts that another one still gathers, even if the next kernel splits
   the work over a different number of blocks. *)
TmpStable ==
    \A r \in Rank, b \in Block :
        pc[r][b] = "gather" => \A q \in Rank, p \in PartsOf(r, b) : tmp[q][p] = k[r]

(* What a kernel reads of its peers, in either stage, is of this kernel. *)
BuffersStable == TypeOK /\ InputStable /\ TmpStable

(* No thread waits for a flag that its peer has already replaced. *)
KernelsComplete == <>(\A r \in Rank : k[r] = Len(prog) /\ Finished(r))
=============================================================================
