--------------------------- MODULE ShmCollectives ---------------------------
(***************************************************************************)
(* Collectives of the CPU backend over shared memory (csrc/cpu/shm.cpp).   *)
(*                                                                         *)
(* Every thread of every rank owns a ThreadSHMContext: two halves of a     *)
(* buffer that it fills in turn, and a pair of counters, the stamp of the  *)
(* chunk it works on and the stamp of the last chunk it made ready.  A     *)
(* rank reads the counters and buffers of the threads with its own thread  *)
(* id only, so the module follows one thread id through all ranks.         *)
(* Stamps are chars: they are compared modulo StampMod.                    *)
(***************************************************************************)
EXTENDS Integers, Sequences

CONSTANTS
    G,         \* group_size; ranks are 0 .. G - 1
    StampMod,  \* 2^8 in the code
    Programs   \* bound: the sequences of operations that are run

(* An operation: chunks is the number of turns of shm_cc_loop. *)
Operation == [kind : {"allreduce", "allgather", "gather", "p2p"}, chunks : Nat \ {0},
              src : 0 .. G - 1, dst : 0 .. G - 1]

ASSUME ShmAssumption ==
    /\ G \in Nat \ {0, 1} /\ StampMod \in Nat \ {0}
    /\ Programs \subseteq Seq(Operation)

Rank == 0 .. G - 1
Index == {0, 1}
Torn == <<0, 0>>   \* a half that is being filled, or never was

VARIABLES
    prog,     \* the operations, the same on all ranks
    op, chunk,\* position of a rank in prog; chunk 0 reads the metadata of a recv
    pc,       \* what the thread of a rank does
    todo,     \* the ranks it still has to wait for
    reading,  \* the ranks whose buffers it reads
    local, remote,     \* local_stamp_buffer_idx, remote_stamp_buffer_idx
    currStamp, readyStamp,
    mask,     \* _thread_buffer_mask: the half in use
    half      \* half[r][h]: the chunk in half h of the buffer of rank r

place == <<prog, op, chunk>>
stamps == <<local, remote, currStamp, readyStamp, mask>>
vars == <<place, pc, todo, reading, stamps, half>>

Init ==
    /\ prog \in Programs
    /\ op = [r \in Rank |-> 1] /\ chunk = [r \in Rank |-> 1]
    /\ pc = [r \in Rank |-> "op"]
    /\ todo = [r \in Rank |-> <<>>] /\ reading = [r \in Rank |-> {}]
    /\ local = [r \in Rank |-> 0] /\ remote = [r \in Rank |-> 0]
    /\ currStamp = [r \in Rank |-> [i \in Index |-> 1 % StampMod]]
    /\ readyStamp = [r \in Rank |-> [i \in Index |-> 0]]
    /\ mask = [r \in Rank |-> [i \in Index |-> 0]]
    /\ half = [r \in Rank |-> [h \in Index |-> Torn]]

-----------------------------------------------------------------------------
Done(r) == op[r] > Len(prog)
Now(r) == prog[op[r]]
swizzled_ranks(r) == [i \in 1 .. G - 1 |-> (r + i) % G]

(* The half that get_thread_shm_ptr returns to rank r, for its own buffer and
   for those of the others. *)
Half(r) == mask[r][local[r]]

Sends(r) == Now(r).kind # "p2p" \/ r = Now(r).src
fast_mode(r) == Now(r).chunks = 1

(* The ranks whose reading the buffer must not disturb. *)
MayConflict(r) ==
    CASE Now(r).kind = "p2p" -> <<Now(r).dst>>
      [] Now(r).kind # "p2p" /\ fast_mode(r) -> <<>>
      [] OTHER -> swizzled_ranks(r)

(* The ranks whose chunk this rank reads. *)
Sources(r) ==
    CASE Now(r).kind = "p2p" -> IF r = Now(r).dst THEN <<Now(r).src>> ELSE <<>>
      [] Now(r).kind = "gather" -> IF r = Now(r).dst THEN swizzled_ranks(r) ELSE <<>>
      [] OTHER -> swizzled_ranks(r)

(* Slip: one more chunk in flight than there are halves. *)
check_three_halves(r, q) ==
    currStamp[r][local[r]] # (currStamp[q][remote[r]] + 3) % StampMod

check_no_buffer_conflict(r, q) ==
    currStamp[r][local[r]] # (currStamp[q][remote[r]] + 2) % StampMod

(* Slip: a rank that is one chunk ahead is not ready. *)
check_stamp_equal(r, q) == currStamp[r][local[r]] = readyStamp[q][remote[r]]

check_stamp_ready(r, q) ==
    LET mine == currStamp[r][local[r]]
        theirs == readyStamp[q][remote[r]]
    IN  mine = theirs \/ (mine + 1) % StampMod = theirs

StartChunk(r) ==
    /\ pc' = [pc EXCEPT ![r] = IF Sends(r) THEN "conflict" ELSE "ready"]
    /\ todo' = [todo EXCEPT ![r] = IF Sends(r) THEN MayConflict(r) ELSE Sources(r)]

-----------------------------------------------------------------------------
(* An operation starts.  send and recv choose the stamps they use; a recv
   first reads the metadata in the first chunk. *)
Collective(r) ==
    /\ pc[r] = "op" /\ ~Done(r) /\ Now(r).kind # "p2p"
    /\ StartChunk(r)
    /\ UNCHANGED <<place, reading, stamps, half>>

Send(r) ==
    /\ pc[r] = "op" /\ ~Done(r) /\ Now(r).kind = "p2p" /\ r = Now(r).src
    /\ local' = [local EXCEPT ![r] = 0] /\ remote' = [remote EXCEPT ![r] = 1]
    /\ StartChunk(r)
    /\ UNCHANGED <<place, reading, currStamp, readyStamp, mask, half>>

Recv(r) ==
    /\ pc[r] = "op" /\ ~Done(r) /\ Now(r).kind = "p2p" /\ r = Now(r).dst
    /\ local' = [local EXCEPT ![r] = 1] /\ remote' = [remote EXCEPT ![r] = 0]
    /\ chunk' = [chunk EXCEPT ![r] = 0]
    /\ StartChunk(r)
    /\ UNCHANGED <<prog, op, reading, currStamp, readyStamp, mask, half>>

Skip(r) ==
    /\ pc[r] = "op" /\ ~Done(r) /\ Now(r).kind = "p2p" /\ r \notin {Now(r).src, Now(r).dst}
    /\ op' = [op EXCEPT ![r] = @ + 1]
    /\ UNCHANGED <<prog, chunk, pc, todo, reading, stamps, half>>

(* wait_for_one, wait_for_all *)
NoConflict(r) ==
    /\ pc[r] = "conflict" /\ todo[r] # <<>>
    /\ check_no_buffer_conflict(r, Head(todo[r]))
    /\ todo' = [todo EXCEPT ![r] = Tail(@)]
    /\ UNCHANGED <<place, pc, reading, stamps, half>>

(* memcpy_to_shm *)
StartCopy(r) ==
    /\ pc[r] = "conflict" /\ todo[r] = <<>>
    /\ half' = [half EXCEPT ![r][Half(r)] = Torn]
    /\ pc' = [pc EXCEPT ![r] = "copy"]
    /\ UNCHANGED <<place, todo, reading, stamps>>

EndCopy(r) ==
    /\ pc[r] = "copy"
    /\ half' = [half EXCEPT ![r][Half(r)] = <<op[r], chunk[r]>>]
    /\ pc' = [pc EXCEPT ![r] = "commit"]
    /\ UNCHANGED <<place, todo, reading, stamps>>

commit_ready_stamp(r) ==
    /\ pc[r] = "commit"
    /\ readyStamp' = [readyStamp EXCEPT ![r][local[r]] = currStamp[r][local[r]]]
    /\ todo' = [todo EXCEPT ![r] = Sources(r)]
    /\ pc' = [pc EXCEPT ![r] = IF Sources(r) = <<>> THEN "next" ELSE "ready"]
    /\ UNCHANGED <<place, reading, local, remote, currStamp, mask, half>>

(* An all-reduce reads once all ranks are ready, the others rank by rank. *)
StampReady(r) ==
    /\ pc[r] = "ready" /\ check_stamp_ready(r, Head(todo[r]))
    /\ todo' = [todo EXCEPT ![r] = Tail(@)]
    /\ reading' = [reading EXCEPT ![r] = @ \cup {Head(todo[r])}]
    /\ pc' = [pc EXCEPT ![r] = IF Now(r).kind = "allreduce" /\ Len(todo[r]) > 1
                               THEN "ready" ELSE "read"]
    /\ UNCHANGED <<place, stamps, half>>

EndRead(r) ==
    /\ pc[r] = "read"
    /\ reading' = [reading EXCEPT ![r] = {}]
    /\ IF chunk[r] = 0
       THEN StartChunk(r) /\ chunk' = [chunk EXCEPT ![r] = 1]
       ELSE /\ pc' = [pc EXCEPT ![r] = IF todo[r] = <<>> THEN "next" ELSE "ready"]
            /\ UNCHANGED <<chunk, todo>>
    /\ UNCHANGED <<prog, op, stamps, half>>

(* next_stamp, next_buffer and the loop condition of shm_cc_loop *)
NextChunk(r) ==
    /\ pc[r] = "next"
    /\ currStamp' = [currStamp EXCEPT ![r][local[r]] = (@ + 1) % StampMod]
    /\ mask' = [mask EXCEPT ![r][local[r]] = 1 - @]
    /\ IF chunk[r] < Now(r).chunks
       THEN /\ chunk' = [chunk EXCEPT ![r] = @ + 1]
            /\ StartChunk(r)
            /\ UNCHANGED op
       ELSE /\ chunk' = [chunk EXCEPT ![r] = 1]
            /\ op' = [op EXCEPT ![r] = @ + 1]
            /\ pc' = [pc EXCEPT ![r] = "op"]
            /\ UNCHANGED todo
    /\ UNCHANGED <<prog, reading, local, remote, readyStamp, half>>

-----------------------------------------------------------------------------
Step(r) ==
    \/ Collective(r) \/ Send(r) \/ Recv(r) \/ Skip(r)
    \/ NoConflict(r) \/ StartCopy(r) \/ EndCopy(r) \/ commit_ready_stamp(r)
    \/ StampReady(r) \/ EndRead(r) \/ NextChunk(r)

Next == \E r \in Rank : Step(r)

(* Every rank is a process of its own that keeps running. *)
Spec == Init /\ [][Next]_vars /\ \A r \in Rank : WF_vars(Step(r))

-----------------------------------------------------------------------------
(* Properties *)

(* Stamps stay within a char and every rank is at a chunk of its operation. *)
TypeOK ==
    /\ \A r \in Rank :
         /\ op[r] \in 1 .. Len(prog) + 1
         /\ pc[r] # "op" => chunk[r] \in 0 .. Now(r).chunks
         /\ local[r] \in Index /\ remote[r] \in Index
         /\ \A i \in Index : /\ currStamp[r][i] \in 0 .. StampMod - 1
                             /\ readyStamp[r][i] \in 0 .. StampMod - 1
                             /\ mask[r][i] \in Index
    /\ \A r \in Rank : reading[r] \subseteq Rank \ {r}

(* From the moment check_stamp_ready holds until the rank has read it, a peer's
   half contains the very chunk of the very operation the rank is in: complete,
   not of an older round, and not yet being overwritten by a rank that is
   ahead, although single-chunk operations never check for a conflict. *)
ReadStable ==
    \A r \in Rank : \A q \in reading[r] :
        half[q][Half(r)] = <<op[r], IF chunk[r] = 0 THEN 1 ELSE chunk[r]>>

(* Stamps and halves are well formed, and what a rank reads stays put. *)
BuffersSafe == TypeOK /\ ReadStable

(* No rank waits forever for a stamp that has already gone by. *)
OperationsComplete == <>(\A r \in Rank : Done(r))
=============================================================================
