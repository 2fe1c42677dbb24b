-------------------------- MODULE BlockPoolClients --------------------------
(***************************************************************************)
(* The block pool in the hands of clients: the block tables that the       *)
(* single-type KV-cache managers keep per request                          *)
(* (single_type_kv_cache_manager.py).  Every way in which the managers     *)
(* call the pool is an action here, in any order and for any client, so    *)
(* that what is shown of the pool does not rest on one caller's habits.    *)
(***************************************************************************)
EXTENDS BlockPool

CONSTANTS
    Client,     \* requests that own a block table
    Copy,       \* copy-on-write copies that can be pending at a time
    Key,        \* block hashes with their group id
    KeyTokens,  \* the number of tokens a key stands for
    BlockOrder, \* the real blocks by block id
    MaxHit,     \* bound: blocks in one prefix-cache hit
    MaxTable    \* bound: entries of one block table

ASSUME ClientAssumption == IsFiniteSet(Client) /\ IsFiniteSet(Copy) /\ Client \cap Copy = {}
ASSUME KeyAssumption == NoKey \notin Key /\ KeyTokens \in [Key -> Nat]
ASSUME OrderAssumption ==
    /\ BlockOrder \in Seq(RealBlock)
    /\ ToSet(BlockOrder) = RealBlock
    /\ \A i, j \in DOMAIN BlockOrder : BlockOrder[i] = BlockOrder[j] => i = j
ASSUME BoundAssumption == MaxHit \in Nat /\ MaxTable \in Nat

VARIABLES
    pool,   \* the BlockPool
    held    \* held[c]: req_to_blocks[c], null blocks included; for a copy, the
            \* source and the destination that are kept until it has run

vars == <<pool, held>>

(* Whoever has references to blocks. *)
Holder == Client \cup Copy

Init ==
    /\ pool = NewPool(BlockOrder, Key)
    /\ held = [c \in Holder |-> <<>>]

(* The real blocks that c has. *)
Holds(c) == ToSet(held[c]) \ {NullBlock}

Injective(s) == \A i, j \in DOMAIN s : s[i] = s[j] => i = j

(* No real block is twice in the table s. *)
Distinct(s) == \A i, j \in DOMAIN s : s[i] = s[j] /\ s[i] # NullBlock => i = j
----------------------------------------------------------------------------
(* allocate_new_blocks, or allocate_external_computed_blocks: n new blocks at
   the end of c's table. *)
Allocate(c, n) ==
    /\ n <= NumFree(pool)
    /\ Len(held[c]) + n <= MaxTable
    /\ held' = [held EXCEPT ![c] = @ \o NewBlocks(pool, n)]
    /\ pool' = GetNewBlocks(pool, n)

(* add_local_computed_blocks: an empty table starts with the blocks s of a
   prefix-cache hit; the skipped ones are null blocks. *)
Hit(c, s) ==
    /\ EnableCaching
    /\ held[c] = <<>>
    /\ Distinct(s)
    /\ \A i \in DOMAIN s : s[i] = NullBlock \/ \E k \in Key : s[i] \in CachedBlocks(pool, k)
    /\ held' = [held EXCEPT ![c] = s]
    /\ pool' = Touch(pool, ToSet(s))

(* free: the whole table, last block first. *)
Free(c) ==
    /\ held[c] # <<>>
    /\ pool' = FreeBlocks(pool, Reverse(held[c]))
    /\ held' = [held EXCEPT ![c] = <<>>]

(* _remove_blocks_in_range for one block: it is freed and the table keeps a
   null block in its place. *)
RemoveSkipped(c, i) ==
    /\ held[c][i] # NullBlock
    /\ pool' = FreeBlocks(pool, <<held[c][i]>>)
    /\ held' = [held EXCEPT ![c][i] = NullBlock]

(* HiSparse's _unpin_page: the block stays readable until the pool hands it
   out again. *)
Unpin(c, i) ==
    /\ held[c][i] # NullBlock
    /\ pool' = UnpinBlocks(pool, <<held[c][i]>>)
    /\ held' = [held EXCEPT ![c][i] = NullBlock]

(* cache_full_blocks for the blocks DOMAIN f of c's table.  The guard is the
   assertion of the code: only a partial hash may be replaced by a full one. *)
CacheFull(c, f) ==
    /\ EnableCaching
    /\ \A b \in DOMAIN f :
          pool.key[b] # NoKey => KeyTokens[pool.key[b]] < KeyTokens[f[b]]
    /\ pool' = CacheFullBlocks(pool, f)
    /\ UNCHANGED held

(* cache_partial_block for entry i of c's table. *)
CachePartial(c, i, k, replace) ==
    /\ EnableCaching
    /\ pool' = CachePartialBlock(pool, held[c][i], k, replace, KeyTokens)
    /\ UNCHANGED held

(* Bug: the copy does not count as a user of the new block. *)
CopyOnWriteUncounted(c, d, i) ==
    /\ EnableCaching
    /\ held[d] = <<>>
    /\ held[c][i] # NullBlock
    /\ NumFree(pool) >= 1
    /\ LET cow == pool.free[1]
       IN  /\ held' = [held EXCEPT ![c][i] = cow, ![d] = <<held[c][i], cow>>]
           /\ pool' = GetNewBlocks(pool, 1)

(* allocate_new_blocks with _apply_cow, for a request that hit the partly
   filled block at entry i: it gets a new block in its place, and both blocks
   are kept for the copy d. *)
CopyOnWrite(c, d, i) ==
    /\ EnableCaching
    /\ held[d] = <<>>
    /\ held[c][i] # NullBlock
    /\ NumFree(pool) >= 1
    /\ LET cow == pool.free[1]
       IN  /\ held' = [held EXCEPT ![c][i] = cow, ![d] = <<held[c][i], cow>>]
           /\ pool' = Touch(GetNewBlocks(pool, 1), {cow})

(* MambaManager.allocate_new_blocks, for a request that is about to overwrite
   the state its own block at entry i was cached for: the entries go to the new
   block, which the state is copied to and which no table has. *)
CopyCached(c, d, i) ==
    /\ EnableCaching
    /\ held[d] = <<>>
    /\ held[c][i] # NullBlock
    /\ NumFree(pool) >= 1
    /\ LET src == held[c][i]
           cow == pool.free[1]
       IN  /\ held' = [held EXCEPT ![d] = <<src, cow>>]
           /\ pool' = Touch(MoveBlockHashes(GetNewBlocks(pool, 1), src, cow), {src})

(* _free_cow_retained_blocks: the step that copies is on its way or done.  The
   code frees the pairs of one step in one call. *)
FreeRetained(d) ==
    /\ held[d] # <<>>
    /\ pool' = FreeBlocks(pool, held[d])
    /\ held' = [held EXCEPT ![d] = <<>>]

(* KVCacheManager.evict_blocks, for blocks a worker reported as invalid. *)
Evict(bs) ==
    /\ pool' = EvictBlocks(pool, bs)
    /\ UNCHANGED held

Reset ==
    /\ CanResetPrefixCache(pool)
    /\ pool' = ResetPrefixCache(pool)
    /\ UNCHANGED held
----------------------------------------------------------------------------
HitSeqs == UNION {[1 .. n -> Block] : n \in 1 .. MaxHit}

ClientStep(c) ==
    \/ \E n \in 1 .. NumFree(pool) : Allocate(c, n)
    \/ \E s \in HitSeqs : Hit(c, s)
    \/ Free(c)
    \/ \E bs \in SUBSET Holds(c) : \E f \in [bs -> Key] : CacheFull(c, f)
    \/ \E i \in DOMAIN held[c] :
          \/ RemoveSkipped(c, i)
          \/ Unpin(c, i)
          \/ \E k \in Key, replace \in BOOLEAN : CachePartial(c, i, k, replace)
          \/ \E d \in Copy : CopyOnWrite(c, d, i) \/ CopyCached(c, d, i)

Next ==
    \/ \E c \in Client : ClientStep(c)
    \/ \E d \in Copy : FreeRetained(d)
    \/ \E bs \in SUBSET RealBlock : Evict(bs)
    \/ Reset

Spec == Init /\ [][Next]_vars
----------------------------------------------------------------------------
PoolType ==
    [ref : [Block -> Nat], key : [Block -> Key \cup {NoKey}],
     alias : [Block -> SUBSET Key], map : SUBSET (Key \X Block),
     free : Seq(RealBlock), watch : SUBSET RealBlock, pub : [Key -> Int]]

(* Reference counts are never negative, and the null block is never in the
   free queue. *)
TypeOK == pool \in PoolType /\ held \in [Holder -> Seq(Block)]

FreeMatchesRefs(p) ==
    /\ Injective(p.free)
    /\ \A b \in RealBlock : p.ref[b] = 0 <=> b \in ToSet(p.free)

(* A block is in the free queue exactly when nobody references it, and it is
   there once: free_blocks, touch and get_new_blocks keep the queue and the
   reference counts in step although each changes them separately. *)
FreeIsUnreferenced == FreeMatchesRefs(pool)

(* The reference count of a block is the number of block tables and pending
   copies it is in; none has it twice.  A count too low and the block is handed
   out while a request reads it; a count too high and it never comes back. *)
RefCountsHolders ==
    /\ \A b \in RealBlock : pool.ref[b] = Cardinality({c \in Holder : b \in Holds(c)})
    /\ \A c \in Holder : Distinct(held[c])

HashesMatchMap(p) ==
    /\ \A k \in Key, b \in Block : <<k, b>> \in p.map <=> k \in KeysOf(p, b)
    /\ \A b \in Block : /\ p.key[b] = NoKey => p.alias[b] = {}
                        /\ p.key[b] \notin p.alias[b]
    /\ p.key[NullBlock] = NoKey

(* The hash map has the entries of the hashes the blocks carry and no others,
   through promotion of a partial hash, aliases, moves, eviction and reuse: a
   leftover entry would be a hit on a block whose contents are gone. *)
MapMatchesBlocks == HashesMatchMap(pool)

(* A subscriber that counts BlockStored and BlockRemoved events per key knows
   at every moment how many blocks the map has for the key (in the incremental
   report mode: the full mode announces every hit again). *)
SubscriberAgrees ==
    EnableEvents => \A k \in Key : pool.pub[k] = Cardinality(CachedBlocks(pool, k))

(* A block that is still read after unpin_blocks is not overwritten silently:
   its watcher goes exactly when the block leaves the free queue as a new block
   or the whole cache is reset, and stays through hits, frees and evictions. *)
WatchersFireOnReuse ==
    [][\A b \in RealBlock :
          b \in pool.watch =>
             (b \notin pool'.watch <=>
                 \/ /\ b \in ToSet(pool.free) \ ToSet(pool'.free)
                    /\ ~\E c \in Client, s \in HitSeqs : Hit(c, s)
                 \/ Reset)]_vars
============================================================================
