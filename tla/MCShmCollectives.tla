------------------------- MODULE MCShmCollectives -------------------------
(* Programs for the shared-memory collectives.  A gather lets the ranks that
   send run ahead: here an operation of a single chunk, which does not look for
   conflicts, follows a gather only when that was the first chunk of all. *)
EXTENDS ShmCollectives

Op(k, n) == [kind |-> k, chunks |-> n, src |-> 0, dst |-> 0]
P2P(s, d, n) == [kind |-> "p2p", chunks |-> n, src |-> s, dst |-> d]

Symmetric == {Op(k, n) : k \in {"allreduce", "allgather"}, n \in 1 .. 2}

CollectivePrograms ==
    [1 .. 3 -> Symmetric] \cup
    {<<Op("gather", 1), a, Op("gather", 1)>> : a \in Symmetric} \cup
    {<<Op("gather", 3), a>> : a \in {b \in Symmetric : b.chunks = 2}}

PipelinePrograms ==
    {<<P2P(0, 1, m), P2P(1, 2, n), P2P(0, 1, n), P2P(1, 2, m), P2P(0, 1, m), P2P(2, 0, n)>> :
        m, n \in 1 .. 2}

MCPrograms == CollectivePrograms \cup PipelinePrograms
===========================================================================
