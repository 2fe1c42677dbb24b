--------------------------- MODULE KVCacheManager ---------------------------
(***************************************************************************)
(* The KV-cache manager of sonar/v1/core/kv_cache_manager.py over one      *)
(* full-attention group (UnitaryKVCacheCoordinator, FullAttentionManager,  *)
(* hash_block_size = block_size): which cached blocks a request can reuse, *)
(* whether it can be given slots, and the pool and the block table after.  *)
(*                                                                         *)
(* A block hash chains over the whole prefix that ends with the block, so  *)
(* it is modelled as that prefix: two hashes are equal exactly when the    *)
(* prefixes are (no collisions).                                           *)
(***************************************************************************)
EXTENDS BlockPool

CONSTANTS
    BlockSize,       \* tokens per block
    MaxModelLen,     \* max_model_len
    Watermark,       \* watermark_blocks
    ReserveFullISL   \* scheduler_reserve_full_isl

ASSUME BlockSizeAssumption == BlockSize \in Nat \ {0}
ASSUME LimitAssumption == MaxModelLen \in Nat \ {0} /\ Watermark \in Nat
ASSUME ReserveAssumption == ReserveFullISL \in BOOLEAN

(* cdiv(n, block_size) *)
NumBlocks(n) == (n + BlockSize - 1) \div BlockSize

(* The hash of block i of a request with these tokens. *)
BlockHash(tokens, i) == SubSeq(tokens, 1, i * BlockSize)

(* get_computed_blocks: at most num_tokens - 1 tokens are taken from the
   cache, because the last one must be computed to get logits; the walk stops
   at the first block without a cached copy, and takes any copy. *)
MaxHitBlocks(tokens) == IF EnableCaching THEN (Len(tokens) - 1) \div BlockSize ELSE 0

HitLen(p, tokens) ==
    Max({m \in 0 .. MaxHitBlocks(tokens) :
            \A i \in 1 .. m : CachedBlocks(p, BlockHash(tokens, i)) # {}})

ComputedBlocks(p, tokens) ==
    FoldLeft(LAMBDA hits, bs : {Append(s, b) : s \in hits, b \in bs}, {<<>>},
             [i \in 1 .. HitLen(p, tokens) |-> CachedBlocks(p, BlockHash(tokens, i))])

(* get_num_blocks_to_allocate: the new blocks for n tokens, and the hit blocks
   that leave the free queue when they are touched. *)
NumBlocksToAllocate(p, table, hit, n) ==
    Max({NumBlocks(n) - Len(table) - Len(hit), 0})
        + Cardinality({i \in DOMAIN hit : p.ref[hit[i]] = 0})

(* The capacity test of allocate_slots for slots up to n tokens; admitting is
   the case of a waiting or preempted request, with others already running or
   not. *)
HasSlots(p, table, hit, n, tokens, admitting, othersRunning) ==
    LET margin == IF admitting /\ othersRunning THEN Watermark ELSE 0
    IN  /\ admitting /\ ReserveFullISL =>
             NumBlocksToAllocate(p, table, hit, Min({Len(tokens), MaxModelLen}))
                 + margin <= NumFree(p)
        /\ NumBlocksToAllocate(p, table, hit, Min({n, MaxModelLen})) + margin <= NumFree(p)

(* allocate_new_computed_blocks touches the hit, so that the new blocks that
   allocate_new_blocks takes next cannot be the hit ones. *)
AllocateSlots(p, table, hit, n) ==
    LET q    == Touch(p, ToSet(hit))
        more == Max({NumBlocks(Min({n, MaxModelLen})) - Len(table) - Len(hit), 0})
    IN  [pool  |-> GetNewBlocks(q, more),
         table |-> table \o hit \o NewBlocks(q, more)]

(* cache_blocks: the blocks after the first `cached` ones that n tokens fill
   get their hashes. *)
NumFullBlocks(tokens, n) == Min({n, Len(tokens)}) \div BlockSize

CacheBlocks(p, table, cached, tokens, n) ==
    LET new == IF EnableCaching THEN cached + 1 .. NumFullBlocks(tokens, n) ELSE {}
    IN  CacheFullBlocks(p, [b \in {table[i] : i \in new} |->
                              BlockHash(tokens, CHOOSE i \in new : table[i] = b)])

NumCached(cached, tokens, n) ==
    IF EnableCaching THEN Max({cached, NumFullBlocks(tokens, n)}) ELSE cached

(* Bug: the blocks are freed from the first one on. *)
FreeTableFirstToLast(p, table) == FreeBlocks(p, table)

(* free: the table's blocks, last one first. *)
FreeTable(p, table) == FreeBlocks(p, Reverse(table))
============================================================================
