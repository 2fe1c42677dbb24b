--------------------------- MODULE MCGpuCollectives ---------------------------
(***************************************************************************)
(* The two families of collective kernels for TLC: a behaviour runs a      *)
(* sequence of kernels with barriers, or a sequence of Lamport kernels.    *)
(* They share no memory.                                                   *)
(***************************************************************************)
EXTENDS CustomAllreduce

CONSTANTS MaxSize, LamportPrograms

VARIABLES lprog, lop, lpc, lstage, ldirty, lepoch, larrived, lused, lflight, lbuf

lvars == <<lprog, lop, lpc, lstage, ldirty, lepoch, larrived, lused, lflight, lbuf>>

Lamport == INSTANCE LamportCollectives WITH
    Programs <- LamportPrograms, prog <- lprog, op <- lop, pc <- lpc, stage <- lstage,
    dirty <- ldirty, epoch <- lepoch, arrived <- larrived, used <- lused, flight <- lflight,
    buf <- lbuf

ASSUME LamportInstance == Lamport!LamportAssumption

(* Kernels of one and two stages with grids of one and of two blocks, long
   enough for the flags of the first build to wrap. *)
K(s, b) == [stages |-> s, blocks |-> b]
MCBuilds == {[rocm |-> FALSE, mod |-> 4], [rocm |-> TRUE, mod |-> 16]}
MCPrograms ==
    {<<>>, <<K(2, 1), K(2, 2), K(2, 1)>>, <<K(1, 1), K(2, 1), K(1, 1)>>, <<K(2, 1), K(1, 1), K(1, 1)>>}

(* Sequences long enough to use stages again, with other sizes: the cells of
   one operation overlap those of others that had a different owner. *)
L(kd, sizes) == [j \in DOMAIN sizes |->
                    [kind |-> kd, size |-> sizes[j], neg |-> IF j = 4 THEN {0} ELSE {}]]
MCLamportPrograms ==
    {<<>>, L("allgather", <<1, 2, 1, 1, 1>>), L("reducescatter", <<1, 1, 1, 1, 1>>)}

(* A behaviour runs kernels of one family, on one kind of build. *)
MCInit ==
    /\ Init
    /\ Lamport!Init
    /\ IF prog = <<>> THEN lprog # <<>> /\ ~build.rocm ELSE lprog = <<>>

MCNext ==
    \/ Next /\ UNCHANGED lvars
    \/ Lamport!Next /\ UNCHANGED vars

MCSpec == MCInit /\ [][MCNext]_<<vars, lvars>> /\ Fairness /\ Lamport!Fairness

(* A stage of the Lamport buffers never mixes two operations: a cell a kernel
   waits for is empty or of its own operation, and a stage is clean before any
   peer stores into it again. *)
StagesSound == Lamport!StagesSound

(* Every sequence of kernels ends, with barriers and without: no thread waits
   for a flag that was replaced, and no block for a pack that was cleared or
   looks like the sentinel. *)
KernelsEnd == KernelsComplete /\ Lamport!OperationsEnd
===============================================================================
