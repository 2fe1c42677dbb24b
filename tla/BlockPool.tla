----------------------------- MODULE BlockPool -----------------------------
(***************************************************************************)
(* The KV-cache block pool of sonar/v1/core/block_pool.py, as operations   *)
(* on a pool value.  A pool p is a record:                                 *)
(*                                                                         *)
(*   p.ref    ref_cnt of every block                                       *)
(*   p.key    block_hash of every block (NoKey: None)                      *)
(*   p.alias  cached_block_hashes_by_block                                 *)
(*   p.map    cached_block_hash_to_block, as the set of its <<key, block>> *)
(*            pairs                                                        *)
(*   p.free   free_block_queue, the next block to hand out first           *)
(*   p.watch  the blocks with an entry in _reuse_watchers                  *)
(*   p.pub    what a subscriber that counts BlockStored and BlockRemoved   *)
(*            events has counted for each key (AllBlocksCleared zeroes it) *)
(*                                                                         *)
(* The pool is only called from the engine-core thread, so each operation  *)
(* is one atomic function from pools to pools; the modules that use the    *)
(* pool decide when they are called.                                       *)
(***************************************************************************)
EXTENDS Integers, Sequences, FiniteSets, SequencesExt

CONSTANTS
    Block,          \* the KVCacheBlock objects, the null block included
    NullBlock,      \* block 0: a placeholder, never pooled or cached
    NoKey,          \* block_hash is None
    EnableCaching,  \* enable_caching
    EnableEvents    \* enable_kv_cache_events

ASSUME NullBlockAssumption == NullBlock \in Block
ASSUME BlockAssumption == IsFiniteSet(Block)
ASSUME FlagAssumption == EnableCaching \in BOOLEAN /\ EnableEvents \in BOOLEAN

RealBlock == Block \ {NullBlock}
----------------------------------------------------------------------------
(***************************************************************************)
(* Keep(s, X) is s without the elements outside X, in the order of s: the  *)
(* list comprehension [x for x in s if x in X].  The k-th element kept is  *)
(* the one at the k-th kept position; written with cardinalities, and not  *)
(* with SelectSeq, so that its properties can be proved (BlockPoolProofs). *)
(***************************************************************************)
Place(J, j) == Cardinality({i \in J : i <= j})

Nth(J, k) == CHOOSE j \in J : Place(J, j) = k

Kept(s, X) == {i \in DOMAIN s : s[i] \in X}

Keep(s, X) == [k \in 1 .. Cardinality(Kept(s, X)) |-> s[Nth(Kept(s, X), k)]]
----------------------------------------------------------------------------
(* BlockPool.__init__: every block but the null block is free, in the order
   of the block ids (order lists the real blocks); keys are the keys that
   events may mention. *)
NewPool(order, keys) ==
    [ref   |-> [b \in Block |-> 0],
     key   |-> [b \in Block |-> NoKey],
     alias |-> [b \in Block |-> {}],
     map   |-> {},
     free  |-> order,
     watch |-> {},
     pub   |-> [k \in keys |-> 0]]

NumFree(p) == Len(p.free)

(* The keys under which b can be found: its primary hash and its aliases. *)
KeysOf(p, b) == (IF p.key[b] = NoKey THEN {} ELSE {p.key[b]}) \cup p.alias[b]

(* BlockHashToBlockMap.get_one_block returns any of these. *)
CachedBlocks(p, k) == {b \in Block : <<k, b>> \in p.map}

(* The counts of a subscriber after the events for the stored and the
   removed entries. *)
Emit(pub, stored, removed) ==
    IF ~EnableEvents THEN pub
    ELSE [k \in DOMAIN pub |->
            pub[k] + Cardinality({e \in stored : e[1] = k})
                   - Cardinality({e \in removed : e[1] = k})]

(* Bug: only the primary hash of a block is popped, not its aliases. *)
EntriesOfPrimary(p, bs) == {e \in p.map : e[2] \in bs /\ e[1] = p.key[e[2]]}

(* The map entries that _remove_cached_block_hashes pops for the blocks bs. *)
Entries(p, bs) == {e \in p.map : e[2] \in bs /\ e[1] \in KeysOf(p, e[2])}

(* _remove_cached_block_hashes for every block of bs, with the removed
   events when emit says so. *)
RemoveHashes(p, bs, emit) ==
    [p EXCEPT !.key   = [b \in Block |-> IF b \in bs THEN NoKey ELSE p.key[b]],
              !.alias = [b \in Block |-> IF b \in bs THEN {} ELSE p.alias[b]],
              !.map   = p.map \ Entries(p, bs),
              !.pub   = IF emit THEN Emit(p.pub, {}, Entries(p, bs)) ELSE p.pub]

(* _insert_block_hash: the first key of a block is its primary hash, the
   later ones are aliases; a key it already has changes nothing. *)
InsertHash(p, b, k, emit) ==
    IF p.key[b] = k \/ <<k, b>> \in p.map THEN p
    ELSE [p EXCEPT !.key[b]   = IF p.key[b] = NoKey THEN k ELSE @,
                   !.alias[b] = IF p.key[b] = NoKey THEN @ ELSE @ \cup {k},
                   !.map      = @ \cup {<<k, b>>},
                   !.pub      = IF emit THEN Emit(@, {<<k, b>>}, {}) ELSE @]
----------------------------------------------------------------------------
(* get_new_blocks(n), for n <= NumFree(p): pop n blocks, tell the watchers of
   the popped blocks, drop the hashes they still have, count one reference. *)
NewBlocks(p, n) == SubSeq(p.free, 1, n)

(* Bug: the blocks handed out again keep their hashes. *)
GetNewBlocksKeepingHashes(p, n) ==
    LET new == ToSet(NewBlocks(p, n))
    IN  [p EXCEPT !.free  = SubSeq(p.free, n + 1, Len(p.free)),
                  !.watch = @ \ new,
                  !.ref   = [b \in Block |-> IF b \in new THEN @[b] + 1 ELSE @[b]]]

(* Bug: the watchers are told nothing. *)
GetNewBlocksSilently(p, n) ==
    LET new == ToSet(NewBlocks(p, n))
        q   == IF EnableCaching THEN RemoveHashes(p, new, TRUE) ELSE p
    IN  [q EXCEPT !.free = SubSeq(p.free, n + 1, Len(p.free)),
                  !.ref  = [b \in Block |-> IF b \in new THEN @[b] + 1 ELSE @[b]]]

GetNewBlocks(p, n) ==
    LET new == ToSet(NewBlocks(p, n))
        q   == IF EnableCaching THEN RemoveHashes(p, new, TRUE) ELSE p
    IN  [q EXCEPT !.free  = SubSeq(p.free, n + 1, Len(p.free)),
                  !.watch = @ \ new,
                  !.ref   = [b \in Block |-> IF b \in new THEN @[b] + 1 ELSE @[b]]]

(* Bug: a block of the hit stays in the free queue. *)
TouchLeavesQueued(p, bs) ==
    [p EXCEPT !.ref = [b \in Block |->
                         IF b \in bs \ {NullBlock} THEN @[b] + 1 ELSE @[b]]]

(* touch(bs): one more reference for every block of the set bs, which leaves
   the free queue if it was there. *)
Touch(p, bs) ==
    [p EXCEPT !.ref  = [b \in Block |->
                          IF b \in bs \ {NullBlock} THEN @[b] + 1 ELSE @[b]],
              !.free = Keep(@, Block \ {b \in bs : p.ref[b] = 0})]

(* The blocks of s whose last reference goes when s is freed. *)
Released(p, s) == {b \in ToSet(s) \ {NullBlock} : p.ref[b] = 1}

(* Bug: the placeholder is counted like any other block. *)
DecrementNullToo(p, s) ==
    [b \in Block |-> IF b \in ToSet(s) THEN p.ref[b] - 1 ELSE p.ref[b]]

(* ref_cnt -= 1 for every block of s but the null block *)
Decrement(p, s) ==
    [b \in Block |-> IF b \in ToSet(s) \ {NullBlock} THEN p.ref[b] - 1 ELSE p.ref[b]]

(* free_blocks(s), the blocks of s being distinct but for null blocks: a
   released block without a hash goes to the front of the free queue, one with
   a hash to the back, both in the order of s. *)
FreeBlocks(p, s) ==
    LET first == {b \in Released(p, s) : p.key[b] = NoKey \/ ~EnableCaching}
        last  == Released(p, s) \ first
    IN  [p EXCEPT !.ref  = Decrement(p, s),
                  !.free = Keep(s, first) \o @ \o Keep(s, last)]

(* unpin_blocks(s, on_reuse): a released block goes to the back of the queue
   whether or not it has a hash; every block of s gets a watcher. *)
UnpinBlocks(p, s) ==
    [p EXCEPT !.ref   = Decrement(p, s),
              !.watch = @ \cup ToSet(s),
              !.free  = @ \o Keep(s, Released(p, s))]

(* cache_full_blocks, f giving the new full blocks (neither null nor masked)
   their hashes: an earlier (partial) hash of a block is dropped first. *)
CacheFullBlocks(p, f) ==
    LET q   == RemoveHashes(p, DOMAIN f, TRUE)
        new == {<<f[b], b>> : b \in DOMAIN f}
    IN  [q EXCEPT !.key = [b \in Block |-> IF b \in DOMAIN f THEN f[b] ELSE @[b]],
                  !.map = @ \cup new,
                  !.pub = Emit(@, new, {})]

(* cache_partial_block(b, k, replace), with tokens[j] the number of tokens a
   key j stands for: the hashes of b are dropped when its contents were
   replaced or when its primary hash covers fewer tokens than k. *)
CachePartialBlock(p, b, k, replace, tokens) ==
    LET cached == p.key[b] = k \/ <<k, b>> \in p.map
        drop   == replace \/ (~cached /\ p.key[b] # NoKey /\ tokens[p.key[b]] < tokens[k])
    IN  IF b = NullBlock THEN p
        ELSE InsertHash(IF drop THEN RemoveHashes(p, {b}, TRUE) ELSE p, b, k, TRUE)

(* Bug: the entries of src are announced as removed, those of dst are not
   announced. *)
MoveBlockHashesLoud(p, src, dst) ==
    LET q == RemoveHashes(p, {src}, TRUE)
    IN  [q EXCEPT !.key[dst]   = p.key[src],
                  !.alias[dst] = p.alias[src],
                  !.map        = @ \cup {<<e[1], dst>> : e \in Entries(p, {src})}]

(* move_block_hashes(src, dst): the primary hash stays primary; no event. *)
MoveBlockHashes(p, src, dst) ==
    LET q == RemoveHashes(p, {src}, FALSE)
    IN  [q EXCEPT !.key[dst]   = p.key[src],
                  !.alias[dst] = p.alias[src],
                  !.map        = @ \cup {<<e[1], dst>> : e \in Entries(p, {src})}]

(* evict_blocks(bs): the blocks lose their hashes and stay where they are. *)
EvictBlocks(p, bs) == RemoveHashes(p, bs, TRUE)

(* reset_prefix_cache: refused while any block but the null block is used. *)
CanResetPrefixCache(p) == Cardinality(Block) - NumFree(p) = 1

ResetPrefixCache(p) ==
    [p EXCEPT !.key   = [b \in Block |-> NoKey],
              !.alias = [b \in Block |-> {}],
              !.map   = {},
              !.watch = {},
              !.pub   = IF EnableEvents THEN [k \in DOMAIN @ |-> 0] ELSE @]
============================================================================
