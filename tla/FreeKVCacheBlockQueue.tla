------------------------ MODULE FreeKVCacheBlockQueue ------------------------
(***************************************************************************)
(* The free list of sonar/v1/core/kv_cache_utils.py: a doubly linked list  *)
(* threaded through the blocks, with a fake head and a fake tail, and a    *)
(* separate count.  It is shown to implement FreeQueue, which is how the   *)
(* rest of the project sees it.                                            *)
(***************************************************************************)
EXTENDS Integers, Sequences, SequencesExt

CONSTANTS
    Order,      \* the blocks given to the constructor
    Head0,      \* fake_free_list_head
    Tail0,      \* fake_free_list_tail
    None        \* a link that is None

Item == ToSet(Order)
Node == Item \cup {Head0, Tail0}

ASSUME OrderAssumption == Order \in Seq(Item) /\ IsInjective(Order)
ASSUME NodeAssumption == Cardinality({Head0, Tail0, None}) = 3 /\ {Head0, Tail0, None} \cap Item = {}

VARIABLES
    prev,   \* prev_free_block of every block
    next,   \* next_free_block of every block
    num,    \* num_free_blocks
    call    \* the last call, with its argument or its result

vars == <<prev, next, num, call>>

(* The two links that make y the successor of x, and the links of a block
   that is in no list. *)
Connect(l, x, y) == [next |-> [l.next EXCEPT ![x] = y], prev |-> [l.prev EXCEPT ![y] = x]]

Clear(l, bs) ==
    [next |-> [x \in Node |-> IF x \in bs THEN None ELSE l.next[x]],
     prev |-> [x \in Node |-> IF x \in bs THEN None ELSE l.prev[x]]]

(* The nodes x, those of s and y in a row, counted from 0. *)
Row(x, s, y) == [i \in 0 .. Len(s) + 1 |-> IF i = 0 THEN x ELSE IF i <= Len(s) THEN s[i] ELSE y]

(* The loop of append_n and prepend_n: the blocks of s in a row after x, and
   then y. *)
Splice(l, x, s, y) ==
    LET row == Row(x, s, y)
    IN  [next |-> [n \in Node |->
            IF \E i \in 0 .. Len(s) : row[i] = n
            THEN row[(CHOOSE i \in 0 .. Len(s) : row[i] = n) + 1] ELSE l.next[n]],
         prev |-> [n \in Node |->
            IF \E i \in 1 .. Len(s) + 1 : row[i] = n
            THEN row[(CHOOSE i \in 1 .. Len(s) + 1 : row[i] = n) - 1] ELSE l.prev[n]]]

Links == [next |-> next, prev |-> prev]

Become(l) == next' = l.next /\ prev' = l.prev

NoLinks == [x \in Node |-> None]

(* __init__ *)
Init ==
    /\ LET l == Splice([next |-> NoLinks, prev |-> NoLinks], Head0, Order, Tail0)
       IN  next = l.next /\ prev = l.prev
    /\ num = Len(Order)
    /\ call = <<"init">>

(* The n-th node on the way from the fake head along next. *)
Forward(l) ==
    LET walk[n \in 0 .. Len(Order) + 1] ==
            IF n = 0 THEN Head0
            ELSE IF walk[n - 1] \in Node THEN l.next[walk[n - 1]] ELSE None
    IN  walk

(* get_all_free_blocks: up to the node that has no successor. *)
FreeBlocksOf(l) ==
    LET walk == Forward(l)
        end == CHOOSE n \in 1 .. Len(Order) + 1 :
                   /\ walk[n] \in Node => l.next[walk[n]] = None
                   /\ \A i \in 1 .. n - 1 : walk[i] \in Node /\ l.next[walk[i]] # None
    IN  [i \in 1 .. end - 1 |-> walk[i]]

GetAllFreeBlocks == FreeBlocksOf(Links)

(* popleft_n; for n = 1 the code has a branch of its own that does the same,
   as has popleft. *)
PopleftN(n) ==
    /\ n <= num
    /\ LET walk == Forward(Links)
           ret  == [i \in 1 .. n |-> walk[i]]
           curr == walk[n + 1]
       IN  /\ Become(Connect(Clear(Links, ToSet(ret)), Head0, curr))
           /\ call' = <<"popleft_n", ret>>
    /\ num' = num - n

(* Bug: remove forgets to clear the links of the block it takes out. *)
RemoveBlockKeepsLinks(b) ==
    /\ prev[b] # None /\ next[b] # None
    /\ Become(Connect(Links, prev[b], next[b]))
    /\ num' = num - 1
    /\ call' = <<"remove", b>>

(* remove; the guard is the RuntimeError. *)
RemoveBlock(b) ==
    /\ prev[b] # None /\ next[b] # None
    /\ Become(Clear(Connect(Links, prev[b], next[b]), {b}))
    /\ num' = num - 1
    /\ call' = <<"remove", b>>

(* append, append_n *)
AppendN(s) ==
    /\ Become(Splice(Links, prev[Tail0], s, Tail0))
    /\ num' = num + Len(s)
    /\ call' = <<"append_n", s>>

(* Bug: prepend_n puts every block right behind the head, so they end up in
   the opposite order. *)
PrependNReversed(s) ==
    /\ Become(Splice(Links, Head0, Reverse(s), next[Head0]))
    /\ num' = num + Len(s)
    /\ call' = <<"prepend_n", s>>

(* prepend_n *)
PrependN(s) ==
    /\ Become(Splice(Links, Head0, s, next[Head0]))
    /\ num' = num + Len(s)
    /\ call' = <<"prepend_n", s>>

(* The callers free distinct blocks that are not free already. *)
Unlinked == {b \in Item : prev[b] = None /\ next[b] = None}

Freed == {s \in UNION {[1 .. n -> Unlinked] : n \in 1 .. Cardinality(Unlinked)} : IsInjective(s)}

Next ==
    \/ \E n \in 1 .. num : PopleftN(n)
    \/ \E b \in Item : RemoveBlock(b)
    \/ \E s \in Freed : AppendN(s) \/ PrependN(s)

Spec == Init /\ [][Next]_vars
----------------------------------------------------------------------------
Abstract == INSTANCE FreeQueue WITH queue <- GetAllFreeBlocks

(* Walking along the links gives a queue on which popleft_n, remove, append_n
   and prepend_n do what BlockPool expects of them, with the same arguments
   and results. *)
ImplementsFreeQueue == Abstract!Spec

(* The list is the same from both ends, the count is its length, and a block
   that is in no list has no links: remove relies on the last to refuse such a
   block, and the count is what allocation is decided on. *)
LinksConsistent ==
    /\ num = Len(GetAllFreeBlocks)
    /\ \A x, y \in Node : next[x] = y <=> prev[y] = x
    /\ \A b \in Item : b \in ToSet(GetAllFreeBlocks) <=> ~(prev[b] = None /\ next[b] = None)
    /\ next[Tail0] = None /\ prev[Head0] = None
============================================================================
