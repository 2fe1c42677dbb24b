----------------------------- MODULE FreeQueue -----------------------------
(***************************************************************************)
(* What BlockPool expects of its free list: a queue of distinct blocks,    *)
(* taken from the front, filled at both ends, from which any block can be  *)
(* taken out.  These are the operations that BlockPool.tla performs on     *)
(* p.free.  call is the last call with its argument or, for popleft_n, its *)
(* result: an implementation has to return the same blocks.                *)
(***************************************************************************)
EXTENDS Integers, Sequences, SequencesExt

CONSTANT Item    \* the blocks

VARIABLES
    queue,
    call

(* The lists of distinct blocks that are not in the queue. *)
Outside ==
    {s \in UNION {[1 .. n -> Item \ ToSet(queue)] : n \in 1 .. Cardinality(Item)} :
        IsInjective(s)}

Init ==
    /\ queue \in {s \in [1 .. Cardinality(Item) -> Item] : IsInjective(s)}
    /\ call = <<"init">>

PopN(n) ==
    /\ n <= Len(queue)
    /\ queue' = SubSeq(queue, n + 1, Len(queue))
    /\ call' = <<"popleft_n", SubSeq(queue, 1, n)>>

TakeOut(b) ==
    /\ \E i \in DOMAIN queue : queue[i] = b /\ queue' = RemoveAt(queue, i)
    /\ call' = <<"remove", b>>

PushBack(s) == queue' = queue \o s /\ call' = <<"append_n", s>>

PushFront(s) == queue' = s \o queue /\ call' = <<"prepend_n", s>>

Next ==
    \/ \E n \in 1 .. Len(queue) : PopN(n)
    \/ \E b \in Item : TakeOut(b)
    \/ \E s \in Outside : PushBack(s) \/ PushFront(s)

Spec == Init /\ [][Next]_<<queue, call>>
============================================================================
