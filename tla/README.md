# A TLA+ model of sonar's scheduling core, its processes and its collectives

sonar serves large language models.  Its throughput comes from continuous
batching with a paged, shared KV cache: blocks of attention state are counted,
hashed, shared between requests, freed lazily and handed out again, while the
scheduler runs ahead of the GPU.  Around that core (`core`, driven by
`engine/core.py`) are processes that must stay in step: data-parallel engines
and their coordinator, an executor with its workers, a lock-free ring of shared
memory between them, and collectives on CPUs and GPUs that synchronise with
flags, stamps or nothing but the data.  This project models these parts, checks
them with TLC and proves theorems about most of them with TLAPS, for every number of
blocks, processes, slots, messages and steps.  Paths below are relative to
`src/sonar/v1` unless they begin with `src/`.

## 1. Inventory

| component | state | operations | talks to |
|---|---|---|---|
| `core/block_pool.py` BlockPool | ref counts, hashes and aliases of blocks, hash map, free queue, reuse watchers, event queue | get_new_blocks, touch, free_blocks, unpin_blocks, cache_full_blocks, cache_partial_block, move_block_hashes, evict_blocks, reset_prefix_cache | called by every manager; events go to `src/sonar/distributed/kv_events.py` |
| `core/kv_cache_utils.py` FreeKVCacheBlockQueue | a doubly linked list through the blocks, a count | popleft(_n), remove, append(_n), prepend_n | the pool |
| `core/kv_cache_manager.py`, `kv_cache_coordinator.py`, `single_type_kv_cache_manager.py` | block tables, number of cached blocks, pending copies | get_computed_blocks, allocate_slots, cache_blocks, free, reset | scheduler above, pool below |
| `core/sched/scheduler.py`, `async_scheduler.py`, `request_queue.py` | running and waiting queues, Request counters, finished ids | add_request, finish_requests, schedule, update_from_output, reset_prefix_cache | engine loop, managers, connectors |
| `engine/core.py` | batch queue, input and abort queues, data-parallel wave | step, step_with_batch_queue, busy loop, pause, utility calls | scheduler, executor, front end, coordinator |
| `worker/gpu` | request tokens, block tables, the KV memory | execute_model, sample_tokens | executor |
| `core/encoder_cache_manager.py`, `worker/gpu/mm/encoder_runner.py` | references and lazily evicted encoder outputs; the outputs themselves in the worker | check_and_update_cache, can_allocate, allocate, free_encoder_input, free, get_freed_mm_hashes, reset | scheduler, worker |
| `phrase_guard`, `src/csrc/phrase_matcher.cpp` | automaton of banned phrases, journal of tokens held back, retries and rejected tokens | feed, rewind, retry mask | scheduler (subclassed), sampler, detokenizer |
| `src/sonar/distributed/kv_transfer`, scheduler's connector part | loads in flight, delayed frees, invalid blocks | matched tokens, recv/send finished, invalid blocks | scheduler, workers |
| `kv_offload`, `simple_kv_offload` | CPU chunks, tiers, jobs | prepare/complete load and store, promotion, poll thread | connectors |
| `engine/coordinator.py` and the DP engine core | wave number, running flag, pause state | start wave, wave complete, pause, resume | front end, engines |
| `executor/multiproc_executor.py` | queue of futures, one response queue per worker, is_failed | collective_rpc, FutureWrapper.result, worker busy loop, monitor, shutdown | engine core, workers |
| `src/sonar/distributed/device_communicators/shm_broadcast.py` | ring buffer with written/read flags, notification and overflow sockets | enqueue, dequeue, shutdown | executors and workers |
| `src/csrc/cpu/shm.cpp` | stamps and double buffers in shared memory | allreduce, gather, allgather, tensor lists | CPU workers |
| `src/csrc/custom_collective_common.cuh`, `custom_all_reduce.cuh`, `custom_all_gather_reduce_scatter.cuh` | barrier counters, temporary buffers; staged Lamport buffers with epochs | one- and two-stage kernels, Lamport all-gather and reduce-scatter | GPU workers |
| front end (`async_llm`, `core_client`, `output_processor`, `parallel_sampling`) | request states, output queues | generate, abort | engine core |
| `fault_tolerance`, `spec_decode`, `structured_output`, `hisparse`, eplb, elastic EP, weight transfer | various | various | various |
| models, kernels, quantization, entry points, metrics | (numerics, I/O) | | |

`PROJECT.json` lists each with its status.  What is hard:

* **run-ahead**: schedule() is called again before the previous step's output
  is known, so requests are preempted, aborted and reset while their output is
  in flight (`num_in_flight_tokens`, `num_stale_output_tokens`,
  `drop_stale_output`, `num_output_placeholders`);
* **lazy freeing**: a freed block keeps its hash and its contents until it is
  handed out; every path that hands it out must forget the hash first;
* **sharing**: reference counts and the free queue are changed by separate
  statements in six operations;
* **progress**: requests that do not fit together preempt one another;
* **lockstep**: every data-parallel engine must join every collective, while waves
  start and end on messages that cross one another;
* **memory without locks**: the ring, the CPU collectives and the GPU barriers rest on
  the order in which single stores become visible and on counters that wrap;
* **pairing by order**: answers of workers carry no call number;
* **taking text back**: the phrase guard rewinds a request whose later tokens are
  already in flight.

Correctness per component: the pool neither leaks nor doubly uses a block and its
map tells the truth; the free list is a queue; the manager never gives a request a
block with another text; the scheduler delivers each position once, in order, and
finishes every request; the loop never blocks with work left; the ring is a broadcast
queue; engines are in the same collective and serve every request; a call returns its
own answers; no collective reads data of another operation; no banned phrase leaves
the engine; the worker has every encoder output a step needs.

## 2. Modules

```
BlockPool              the pool as functions on a pool value
 |- BlockPoolClients   any number of block tables calling the pool in any order
 |   |- BlockPoolProofs     theorems
 |   `- MCBlockPool         instance
 `- KVCacheManager     lookup, capacity, allocation, caching, freeing
     `- Scheduler      scheduler + engine loop + worker
         `- MCScheduler     instances
FreeKVCacheBlockQueue  the linked list --implements--> FreeQueue
 |- MCFreeQueue        instance
 `- FreeQueueProofs    theorems
EncoderCache           encoder cache manager + its part of schedule() + worker
 |- MCEncoderCache     instance
 `- EncoderCacheProofs theorems
PhraseMatcher          the automaton, and what it should find
 `- PhraseGuard        journal + rewinding scheduler + sampler mask
     `- MCPhraseGuard  instance
ShmRingBuffer          flags, store buffer, sockets --implements--> BroadcastQueue
 |- MCShmRingBuffer    instance
 `- ShmRingBufferProofs     theorems
MultiprocExecutor      calls over queues as BroadcastQueue promises them
 |- MCMultiprocExecutor     instance
 `- MultiprocExecutorProofs theorem
DataParallelWaves      engines + coordinator + client
 |- MCDataParallelWaves     instance
 `- DataParallelWavesProofs theorems
ShmCollectives         CPU collectives
 |- MCShmCollectives   instance
 `- ShmCollectivesProofs    theorem
CustomAllreduce, LamportCollectives    GPU collectives with and without barriers
 `- MCGpuCollectives   extends the first, instantiates the second
     `- GpuCollectivesProofs    theorems about both and about the composition
FoldOnce               a left fold that TLC evaluates once per element
```

**BlockPool.**  A pool is a record: `ref` (ref_cnt), `key` (block_hash), `alias`
(cached_block_hashes_by_block), `map` (cached_block_hash_to_block as a set of
pairs; the code keeps one block or a dict of blocks per hash, and `get_one_block`
may return any of them), `free` (the queue), `watch` (_reuse_watchers) and `pub`
(what a subscriber knows after counting the stored and removed events; the events
of one call are counted together).  The pool is called from one thread only, so each
operation is a function from pools to pools.  Only free_blocks of one pool is
modelled (a block of another pool, `other_pools`, belongs to HiSparse).
`emit_cached_block_events` announces a hit again without a change of the map, for
requests with `kv_cache_report_mode` "full" (`core/kv_cache_manager.py:290`); it is not
modelled, so `SubscriberAgrees` is about the default, incremental mode.  `Keep`,
the list comprehension, is written with cardinalities because `SelectSeq` is
defined recursively and nothing can be proved of it.

**BlockPoolClients.**  Clients are requests with a block table (null blocks stand
for skipped entries), copies are pending copy-on-write copies, which keep their
source and destination (`_pending_cow_copies`, then `cow_retained_blocks`).  The
actions are the ways in which the managers and HiSparse call the pool: `Allocate`,
`Hit`, `Free`, `RemoveSkipped`, `Unpin`, `CacheFull`, `CachePartial`,
`CopyOnWrite`, `CopyCached` (Mamba), `FreeRetained`, `Evict`, `Reset`, in any order.
This over-approximates the managers (any cached block may be hit, any key given), so
what holds here holds for each.  `CacheFull` is guarded by the assertion of the
code: a block with a hash is cached again only to promote a partial hash.  The code
frees the pairs of all copies of a step in one call; the model frees pair by pair,
which can only differ in the order of those blocks in the free queue.

**FreeQueue, FreeKVCacheBlockQueue.**  `FreeQueue` is the sequence that BlockPool
works with.  `FreeKVCacheBlockQueue` has the links, the fake head and tail and the
separate count.  `popleft`, `append` and the n = 1 branch are the n-element
operations with n = 1.  `call` records each call with argument or result, so that
the refinement is about what callers see.

**KVCacheManager.**  One full-attention group (UnitaryKVCacheCoordinator,
FullAttentionManager, hash block = block).  A block hash chains over the prefix, so
it is the prefix: hash collisions are excluded.  `ComputedBlocks` is
get_computed_blocks with its `num_tokens - 1` limit; `HasSlots` the watermark, the
full-sequence reservation and the capacity test; `AllocateSlots` touches the hit
before it takes new blocks; `CacheBlocks` hashes the blocks that are full.

**Scheduler.**  Request fields: `computed` (num_computed_tokens), `inFlight`,
`stale`, `dropStale`, `placeholders`, and `hold` (calls until
next_decode_eligible_step).  The engine core is one thread; its long calls are cut at
the iterations of their loops and `pc` says where it is:

| actions | code |
|---|---|
| AddRequest, Abort | add_request; finish_requests, from the input queue or the aborts queue just before an output is processed |
| StartSchedule, SkipRunning, ScheduleRunning, PreemptForRunning, EndRunning | first loop of schedule() |
| SkipWaiting, Admit, EndWaiting | second loop |
| Commit | the rest of schedule(), _update_after_schedule (both schedulers), and step_with_batch_queue up to the decision to wait |
| Execute | execute_model and sample_tokens in the worker |
| StartPop, BeginUpdate, DropOutput, Deliver, EndUpdate | waiting for the oldest step, update_from_output |
| StartReset, ResetRunning, FinishReset | reset_prefix_cache with running requests |

The worker is concurrent, executes steps in the order they were sent (the executor's
guarantee, one stream), writes KV before it reads, and keeps the tokens it sampled.
`mem[b][i]` is the prefix whose KV is in slot i of block b, so reading another text's
KV is visible: `Result` yields no context then.  A sampled token is any token of
`Sampled`.  Scheduling reads nothing of the worker, so `Execute` is interleaved only
where the thread is between calls or waits.

The worker also forgets a preempted request; as it is sent again with all its tokens, the
model leaves the old ones in place, where nothing reads them.

Once a request is finished its fields are erased and outputs for it are dropped;
each request id arrives once.

**EncoderCache.**  `m` is the EncoderCacheManager (free and freeable slots, references per
hash, the order of freeable entries, the list of freed hashes); `Hash` stands for a
multimodal hash, `Items[r]` for the inputs of a request with their places in the prompt.
The two loops of schedule() are cut like those of `Scheduler`, only with what concerns
encoder inputs: `TryRunning`/`TryWaiting` are `_try_schedule_encoder_inputs`,
`Allocate...` the allocation afterwards, `Blocked...` and `PreemptForRunning` the cases
where KV blocks are lacking (an external choice).  A step sent to the worker carries the encoder runs,
the freed hashes and the inputs its tokens need; `Execute` applies them in the worker's
order.  `Update` frees the inputs that are fully computed; `Reset` is reset_encoder_cache.
The manager's methods take one input at a time.  A loop over inputs that only adds to counters and reference
sets (allocating what was scheduled, freeing what is passed, freeing a request) is one operator on the set of inputs;
`TrySchedule` goes through them one by one, because each decides with what the ones before left.  Entries that become
evictable in one such loop enter `freeable` in an order the model leaves open (`SetToSeq`).  The sum of the sizes of
a set of entries is the number of their embeddings (`SizeOf`).

**PhraseMatcher, PhraseGuard.**  The matcher is the trie with failure links of
`src/csrc/phrase_matcher.cpp` (byte by byte, positions relative to the data scanned), with
`ContainsPhrase` and `LivePrefix` as its specification.  The guard has one request: the
journal `pending` (PendingText), `schedule`, `execute` (any token that the mask allows),
`update_from_output` with the loop over the tokens of a frame (`TakeToken`), `preempt`,
`finish_requests` (abort).  A frame stands for the tokens of one step; a setup fixes phrases, vocabulary
and stop tokens, and two tokens ("lead", "tail") make one character between them, so that
decoding withholds text.

**ShmRingBuffer, BroadcastQueue.**  `BroadcastQueue` is what callers rely on.
In `ShmRingBuffer` the writer's stores sit in `stores` until `Commit` makes one visible;
a fence waits until it is empty.  The writer does `Enqueue`, `Fill` (flags tested, slot
filled, read flags cleared), `Publish`, `Advance`, `SendPayload` for a message too large,
`Notify`, or `WriteTimeout`; a reader tests its flags one load at a time, sleeps
(`WaitNotified`, `WaitTimedOut`, `WaitCancelled`), reads, marks the slot, and for a large
message waits for the payload (`RecvPayload`, `RecvTimeout`).  Notifications are kept at
most once and may be lost.

**MultiprocExecutor.**  `Call` is collective_rpc (blocking or not, answered by the output
rank or by all), `Result` FutureWrapper.result, `PopFuture`, `ReadResponse`, `ReadTimesOut`
(the deadline of the call), `ReadCancelled` (the queue was shut down) and `Return` the
steps of wait_for_response and get_response, `Dequeue`, `Execute`, `EnqueueOutput` the
busy loop and the output thread of a worker, `Die`, `MonitorSeesDeath`, `Shutdown` the
death of a worker and what follows.  Any method may raise and any wait may time out.  The
queues are those `ShmRingBuffer` is shown to give; where the engine thread would
block in enqueue on a full call queue (`executor/multiproc_executor.py:470`), `Call` is not
enabled, which is the same as long as the workers empty that queue, and with asynchronous output they do.

**DataParallelWaves.**  An engine goes through its busy loop (`LoopTop`, input,
`Step`, `EndStep`); `AllReduce` and `ResumeBarrier` are the collectives, which need all
engines.  `AddRequest`, `Pause`, `Resume`, `StartDPWave` handle messages, `NotifyIdle`,
`WaveComplete` and `StartWave` are the exchange with the coordinator, `SendAdd`, `SendPause`,
`SendResume`, `CallReturns` the client, whose knowledge of the wave may be any number
between the last it used and the coordinator's.  Channels are FIFO per pair.
The busy part of a request is the number of steps it needs.

**ShmCollectives.**  One thread context per rank: stamps (`currStamp`, `readyStamp`, modulo
`StampMod`), two halves of the buffer with a mask, the chunk loop and the two waits
`check_no_buffer_conflict` and `check_stamp_ready`, for all-reduce, all-gather, gather and tensor
lists between two ranks.  A half holds the chunk of the operation whose data it has.

**CustomAllreduce.**  Every thread of a barrier is a step of its own (`StoreFlag`,
`SeeFlag`); a kernel reads its peers' inputs between the barriers, the two-stage kernel
also their temporary buffers after the second.  `Rocm` chooses the barriers that wait for
"at least", `FlagMod` is where flags wrap.

**LamportCollectives.**  Stores land one at a time (`Land`), a block publishes, arrives,
clears the previous stage and waits until its cells are no longer the sentinel; the last
arrival updates the epochs.

Definitions commented `Bug:` or `Slip:` are not part of the models: each is a plausible
mistake in the definition after it, kept to show that a property would notice.

## 3. Runs

States are distinct states; times are for two workers.

| run | instance | what it checks and shows |
|---|---|---|
| block_pool | 2 clients, one pending copy, 3 real blocks and the null block, 2 keys (one partial, one full), hits of 1, tables of 2; 426,624 states, 1.5 min | `FreeIsUnreferenced`, `RefCountsHolders`, `MapMatchesBlocks`, `SubscriberAgrees`, `WatchersFireOnReuse`, types |
| free_queue | a list of 4 blocks; 653 states | the list is consistent from both ends and implements the queue |
| scheduler_pipeline | FCFS, synchronous and asynchronous, 2 requests with a common first block, batch queue 3, stagger 2, 3 blocks of 2, full-sequence reservation, reset; 1,274,090 states, 1 min | accounting, own KV, delivery in context and cache contents where several steps of a request are in flight when it is preempted |
| scheduler_liveness | asynchronous with PRIORITY and synchronous with FCFS, a prompt of 7 in chunks of 2 against a short one, 5 blocks of 2, batch queue 2, fairness; 25,102 states, 2 min | batch and queues consistent although a victim was in the batch, reachable cache, every request finishes |
| scheduler_priority_violation | PRIORITY, synchronous, 8 blocks of 1 | expected violation, section 6 |
| shm_ring_buffer | 2 slots, 3 messages of which two may be too large, a reader that may be shut down and one that times out, stores in order; 267,072 states, 2 min | the ring implements the broadcast queue, the writer gets on, a shutdown ends |
| dp_waves | 2 engines, all-reduce every second step, 2 requests, a pause (abort or keep) and a resume; 159,053 states, 2.5 min | one collective at a time, paused stays paused, agreement with the coordinator, progress |
| executor | 2 workers, queues of 1, 3 calls of which 2 may be pending, calls that fail or time out, a dying worker, fault tolerance on; 1,435,601 states, 3 min | whose answers a call gets, futures in order, results return |
| encoder_cache | 3 requests, one with an image twice, 3 images, 2 slots, 2 steps in flight, 1 preemption, 1 reset, FCFS; 1,661,323 states, 1 min | the manager's books, no cache miss, the worker's memory bound |
| phrase_guard | two lists of overlapping phrases with a token of two bytes and an omitted stop token; one with broken characters, frames of two tokens and an included stop token; 2 frames in flight, 1 preemption; 471,517 states, 2 min | nothing banned is sent, journal and automaton agree with the text, retries progress and end |
| shm_collectives | 3 ranks, all sequences of 3 symmetric collectives of 1 or 2 chunks, gathers around them, pipelines of tensor lists; stamps modulo 5; 346,459 states, 35 s | data read is of this operation, all operations end |
| gpu_collectives | 2 GPUs, up to 2 blocks: 3 kernels of one and two stages on CUDA (flags modulo 4) and ROCm (no wrap); 5 Lamport operations of different sizes, one with the sentinel as payload; 215,246 states, 2 min | no kernel reads or clears data of another operation, all end |

*Bounds.*  Two requests are enough for sharing, for one to preempt the other and for
each to take the other's blocks; the pools are chosen so that one request fits to the
end and two do not.  Blocks of 2 tokens have a partly filled block; MaxTokens 3 lets a request decode past a
block boundary.  A batch queue of 3 with two requests has up to two steps of one request pending at a preemption.
In the pool, three real blocks and two clients give sharing, aliasing and exhaustion, and the
theorems of section 5 cover all sizes.  Three messages on two slots use a slot again; two engines have one
that is ahead and one behind, which is all a lockstep protocol with all-to-all collectives has; two calls in
flight and queues of one make workers block on full queues.  Stamps modulo 5 (the code: 256) and flags modulo 4
(2^32) wrap within a run and are larger than the distance two ranks can have.  Three ranks are needed on the CPU, where
one rank may be ahead of the second while the third is behind.  Five Lamport operations use each of the three stages again
with a different size.  Named bounds: `MaxHit`, `MaxTable`, `MaxTokens`, `MaxModelLen`, `BatchQueueSize`, `MaxMsgs`,
`Large`, `MaxAdds`, `MaxCalls`, `MaxSteps`, `MaxPending`, `MaxPreemptions`, `MaxResets`, `Programs`, `LamportPrograms`, `Setups`; each request
arrives once.  Resets of the prefix cache are not bounded.

*Deadlock* is checked where the system always has a next step (the pools, the pipeline run with its resets, the ring, whose idle
readers poll).  It is switched off where the instance rightly comes to an end: all requests finished, all calls made, all
operations done.  There the liveness properties say that nobody stops early.

*Properties.*  Some are conjunctions of named parts, each commented where it is defined: `CountersAccounted` =
`TypeOK`, `BlocksAccounted`, `InFlightCounted`; `BatchConsistent` = `QueuesPartition`, `ScheduledIsRunning`; `RingSafe` = `TypeOK`,
`SlotNotOverwritten`; `Lockstep` = `TypeOK`, `CollectivesMatch`; `WavesProgress` = `NobodyLeftBehind`, `RequestsServed`;
`AnswersMatched` = `TypeOK`, `AnswersBelongToCall`, `FailureReadsAll`, `ResolvedInOrder`; `CacheAccounted` = `TypeOK`, `SlotsAccounted`,
`ReferencesMatchInputs`; `JournalSound` = `TypeOK`, `AutomatonFollowsText`, `JournalComplete`, `SentIsDecoded`; `BuffersSafe` = `TypeOK`, `ReadStable`;
`BuffersStable` = `TypeOK`, `InputStable`, `TmpStable`; `StagesSound` = `ReadsOwnOperation`, `CleanBeforeReuse`; `KernelsEnd` =
`KernelsComplete`, `OperationsEnd`.

`RefCountsHolders`/`BlocksAccounted`: no leak, no double use.
`MapMatchesBlocks`: no entry for a hash the block does not carry.  `SubscriberAgrees`:
events tell the map exactly.  `WatchersFireOnReuse`: a watched block is not reused in
silence, and the watcher stays through hits, frees and evictions.  `InFlightCounted`: the
counters equal the tokens of the steps really pending.  `StepReadsOwnKV`: attention reads
only the request's own text.  `DeliveredInContext`: a token is delivered only to exactly
the text it was computed from, so no position is sampled twice, lost or out of order.
`CachedContentsSound`: once the worker has caught up, a cached block holds what its
hash says.  `PrefixClosed`: every cached block can be reached by a lookup.
`ImplementsBroadcast`: each reader without a deadline takes every published message, once and in order, and
eventually.  `AnswersBelongToCall`: a call gets the answers to itself from a worker exactly when no earlier call left an answer of
that worker unread; `FailureReadsAll`: with fault tolerance a failed call leaves none, until a worker has died, from when
get_response stops at the first failure and the executor shuts down.  Each property has a mutant that changes the code's behaviour in a plausible way and breaks it.

## 4. Fairness

* `Scheduler!FairSpec`: weak fairness for `Schedule` and `Update` (the busy loop of
  `engine/core.py:1512` calls the step function as long as there is work, and a
  Python call that has begun goes on) and for `Work` (a step handed to the executor is
  executed; a worker that dies ends the engine).  Nothing is assumed of clients: no
  request need arrive or be aborted, and the run has no resets, because a client that
  resets for ever can starve everybody.
* `ShmRingBuffer`: the writer and every reader run, stores become visible, a shutdown that
  was begun sends its ping.  Wake-ups may be lost and timeouts need not happen, except that
  the bounded sleep of an idle reader ends (the poll has a time limit in the code).
* `DataParallelWaves`: engines, coordinator and collectives run (weak fairness); strong fairness of
  handling input, because an engine with work empties its input queue on every turn of its
  loop, though never within a step.
* `MultiprocExecutor`: the threads of executor, monitor and workers run; a reader of a queue
  that was shut down is woken.  No worker need die, no call need time out and no caller need ask for a result.
* `ShmCollectives`, `CustomAllreduce`, `LamportCollectives`: every rank, and every block of a
  grid, makes progress (grids are small enough to be resident as a whole), and stores land.
* `PhraseGuard`: steps are scheduled, executed and processed; preemptions are bounded.

## 5. Proofs

| theorem (module) | states | for |
|---|---|---|
| `TypeCorrect` (BlockPoolProofs) | `[]TypeOK` | all finite sets of blocks, clients and copies, all keys, flags and bounds |
| `FreeQueueCorrect` | `[]FreeIsUnreferenced` | " |
| `RefCountsCorrect` | `[]RefCountsHolders` | " |
| `CacheMapCorrect` | `[]MapMatchesBlocks` | " |
| `EventsCorrect` | `[]SubscriberAgrees` | " |
| `WatchersCorrect` | the action property `WatchersFireOnReuse` | " |
| `LinksAreConsistent` (FreeQueueProofs) | `[]LinksConsistent` | a list of any length, any calls |
| `LinkedListImplementsQueue` | `Spec => ImplementsFreeQueue`, the refinement of `FreeQueue` | " |
| `RingIsSafe` (ShmRingBufferProofs) | `[]RingSafe` | any number of slots and messages, any finite set of readers; `StoresInOrder` |
| `RingImplementsQueue` | `Spec => Broadcast!Safety` | " |
| `AnswersAreMatched` (MultiprocExecutorProofs) | `[]AnswersMatched` | any number of workers and calls, any capacity, in every mode (fault tolerance, asynchronous output, deaths), with failures and timeouts |
| `BuffersAreStable` (GpuCollectivesProofs) | `[]BuffersStable` | any number of GPUs and blocks, any set of programs; `FlagsDistinct` |
| `StagesNeverMix` | `[]StagesSound` | any number of GPUs, any set of programs of operations of any size |
| `LamportStagesSound` | the same for the instance inside `MCGpuCollectives`, whose runs check it | " |
| `EnginesInLockstep` (DataParallelWavesProofs) | `[]Lockstep` | any number of engines from 2, any sync interval, all pause modes, any number of requests and calls; `~RedundantResume` |
| `PauseHolds` | `[]PausedStaysPaused` | " |
| `CoordinatorCorrect` | `[]CoordinatorAgrees` | the same, without a condition on `RedundantResume` |
| `CollectivesSafe` (ShmCollectivesProofs) | `[]BuffersSafe` | any number of ranks, any sequence of all-reduces, all-gathers and gathers that is `Spaced`, stamps of at least 5 values |
| `CacheAlwaysAccounted` (EncoderCacheProofs) | `[]CacheAccounted` | any requests, inputs and sizes, both policies, any number of steps in flight, preemptions and resets |
| `WorkerAlwaysWithinCapacity` | `[]WorkerWithinCapacity` | " |
| `CacheNeverMissed` | `[]NoCacheMiss` | the same, but first come first served: `~Priority` |

Each proof has the named `ASSUME`s of its model, which TLC evaluates on every run, and
no other assumption but the conditions in the last column.  Those are not there for
the prover: section 6 has, for each of them, what goes wrong without it.

**Block pool.**  None of the first four is inductive alone: that `free_blocks` may decrement a
count needs the count to be positive, which holds because a table has the block
(`RefCountsHolders`); that a block put into the queue is not there already needs
`FreeIsUnreferenced`; the type of the counts needs both.  The inductive invariant is
`IInv == PoolGood(pool) /\ held typed /\ RefCountsHolders`, where `PoolGood` is type, free queue
and map together; `EventsInv` adds that the subscriber's counts are those of the map.
The argument has three layers: (1) facts on sequences and cardinalities (`Keep` is
injective when its argument is and has exactly the kept elements); (2) for each pool
operation, that it keeps `PoolGood` and what it does to `ref`, the map and the watchers;
(3) for each action, that the change of `ref` is the change of the number of
holders.  `WatchersCorrect` follows from `IInv` and the second layer.

**Free list.**  `ListInv` says that there is an injective sequence of blocks (`IsList`) such that the links are
exactly those of the row head, sequence, tail, that every other block has no links, and that the count is
the sequence's length.  `Forward`, the walk along `next`, is a recursive function: that it visits the row
in order is shown by the least position where it would not (lemma `LeastNat`, from the well-foundedness of
the naturals), which needs no induction rule.  Hence the walk gives the sequence, and each operation,
which changes a handful of links, gives the row of the sequence that `FreeQueue` has after the same call.

**Ring.**  `RingInv` says what the writer's stores in flight may be: only `acquire_write`
has any, they begin with `written := 0`, and until that one lands the slot is one
that everybody has read; a reader in a slot has seen `written` and not set its own
flag.  It implies `RingSafe`.  The refinement needs the history of the ring as
well: `QueueInv` relates every slot to the position in `log` of the message it holds
(`SlotsInv`), the read flags of a reader to the number of messages it has taken
(`PatientInv`), and the overflow socket to the large messages it has not taken
(`SocketInv`).  Readers with a deadline are left out of the queue as in the run.
`Broadcast!Safety` is the initial condition and the next-state relation of `BroadcastQueue`; its
fairness part stays with the run `shm_ring_buffer`.

**Executor.**  `MatchInv`: `futures_queue` holds the calls after the last popped
one in order; each worker has executed a prefix of the calls and has the rest in its
queue; the answers on their way from a worker are exactly those to calls it
has executed and the executor has not read, in order (`AnswersInv`).  How many answers of a worker the executor
has read says which call the next one belongs to; it lags behind the call that reads it exactly when some
call ended without reading this worker (`Behind`, `Unread`), and once it lags it never catches up, which is what makes the property an
equivalence.  `HeardInv` says this of what the calls have heard, `FailureInv` that with fault tolerance a
failure does not end a call early.  No mode and no fault is assumed away.

**Barriers.**  `BarrierInv` numbers the barriers of each block: a block is at most one
barrier ahead of the same block of a peer, and not ahead of a peer it has seen (`LeadInv`);
the numbers are what flags and counters stand for modulo `FlagMod` (`FlagInv`,
`CounterInv`).  Two flags that are compared are then at most two apart, which is why a
modulus of 3 is enough for the CUDA barriers (theirs is 2^32) and why the ROCm ones, which
compare with `<`, must not wrap.  `TmpInv` adds how long the temporary buffer is complete.

**Lamport collectives.**  There is no barrier to count: `LamportInv` says that a GPU is at most one
operation ahead of another, and if it is, has got all that the other one had to send
(`OrderInv`, from `WaitedInv`: a block leaves its wait only with the data); that a cell holds
data of the current, the next, or the previous operation, the last only until it is cleared
(`CellInv`); and that the epoch and the recorded sizes are those of the last completed operation
(`EpochInv`).  With three stages these three operations never share one.

**Data-parallel waves.**  The engines of a wave end the last step one after another, so the
invariants speak of what an engine will be when the step it is in has ended (`Runs`, `Pends`,
`Ignores`, `WaveOf`, `StepOf`).  `WavesInv`: all engines have the same `WaveOf`, those in a step are in the same one,
those outside have the same `StepOf`, one less; no message is about a later wave; if the coordinator has an
older wave then the notice of its end is due or on its way, and if it believes the
current wave is running some engine does run.  It is inductive by itself
and gives `CoordinatorCorrect`.  `ClientsInv` is the protocol of pausing: while a pause is under
way, an engine that has heard of it runs until all have (`PausingInv`), and either no engine has passed the
pause or all have, with the same result; this is where `pending_pause` is counted
in the all-reduce (the number of pausing engines is a multiple of `N` only if it is 0 or `N`,
lemma `AllOrNone`).  Once the pause has returned every engine is `Quiet`: without work, ignoring
START_DP_WAVE, not starting waves for requests.  Hence a resume finds all engines in their input queues, so
that nobody is in a step while another one is in the all-reduce of the resume.

**CPU collectives.**  A program is a sequence of chunks, `Following` the step from one to the next.
`ShmInv` says that two ranks are at the same chunk or one or two chunks apart, with stamps and
halves to match (`LeadInv`); that a rank that fills its half is at most one chunk ahead of
everybody, and one that has waited for a peer in an all-reduce or all-gather is not ahead of it
(`WaitInv`); and that a half holds the chunk last left, or the one the rank is at once that is filled
(`DataInv`, `PreviousInv`).  Five values tell leads of -2 to 2 apart, so
`check_no_buffer_conflict` rules out a lead of two and `check_stamp_ready` a peer that is behind.  A
single-chunk operation does not check: that its rank is at most one chunk ahead comes from the
operation before, in which it has waited for all; `Spaced` asks for this, and section 6 has what
happens otherwise.  `Spaced` also leaves out tensor lists between two ranks: they use the second pair of
stamps and are checked by the run only.

**Encoder cache.**  `Books`, what `CacheAccounted` says of the manager and that every input a request holds is cached, is
kept by each of the manager's operations on its own, provided that what is allocated is not cached and has room.  That is the
part of the loop: `LoopGood`, the invariant of `_try_schedule_encoder_inputs` over the inputs of a request, says that the
outputs to compute are not cached and fit into the free slots together, that they are paid from the budget, and that every input
the tokens left overlap is to be computed, repeats one that is, or is held; where the loop stops early it has cut the
tokens off before that input.  `TryInv` and `PlanInv` carry this over the actions of one
schedule() call: a request in the step holds all it needs, so eviction cannot take it, and no output is computed
for two requests.  `StepsInv` looks ahead in the worker: there are sets `F[done], ..., F[Len(steps)]`, what the worker holds now and after
each step in flight, none of them larger than the cache, the last one within what is cached or evicted since; first come
first served, each of them has what its step needs, and what is cached is in the last one or planned.  A victim that is the last running request
is not in the step yet, which is where the order of service matters; the table in section 6 has what happens under PRIORITY.
`Without`, `TrySchedule` (recursive functions) are handled like the walk along the free list, by the least position where a claim would fail.

**Only model-checked.**  Liveness (`ResultReturns`, `KernelsEnd`, `WavesProgress`, `CallsReturn`
and the others of section 3, the fairness part of the refinements): fairness and
ENABLED are beyond the prover.  `PhraseMatcher` and `PhraseGuard` use recursive operators, which the
prover does not support.  The scheduler's commit of an output and its counters are
written with folds; what these compute is known to the prover only by
induction, which it cannot do.  The invariants of `Scheduler` and tensor lists in
`ShmCollectives` are therefore checked on the instances of section 3 only.

## 6. Findings and limits found while modelling

**Run `scheduler_priority_violation`.**  With the PRIORITY policy a request can be scheduled and then preempted within one
schedule() call (`core/sched/scheduler.py:857`).  allocate_slots has already hashed its
new blocks (`core/kv_cache_manager.py:568-577`), the step never runs, and the
freed blocks stay in the prefix cache with contents nobody computed; the next request with
that prefix, usually the victim itself, hits them: `StepReadsOwnKV` is violated.  With FCFS the victim is the last running request,
which has not been scheduled yet in the call, and the property holds.

**Assumptions of the passing runs.**  The runs below pass under a condition that is a constant of the model; the code does not enforce
it.  Changing the constant makes TLC violate the property named.

| constant | property | what the code does without the condition |
|---|---|---|
| `ShmRingBuffer!StoresInOrder` = FALSE | `SlotNotOverwritten` | acquire_write clears the written flag (`shm_broadcast.py:749`), lets the buffer be filled and clears the read flags (759-761) with no fence between; the first is at 767.  Where stores may be reordered, a reader can see its cleared read flag while the written flag is still the 1 of the previous message. |
| `Hasty` readers held to `BroadcastQueue` too | `ImplementsBroadcast` | for a large message dequeue gives the slot back (875) before it waits for the payload (978); when that wait times out (990) the late payload is returned in the place of a later message.  The property is therefore about readers without a deadline. |
| `DataParallelWaves!RedundantResume` = TRUE | `CollectivesMatch` | resume_scheduler enters its all-reduce whenever it is called (`engine/core.py:2276`, "safe because engines are stopped"); a resume of engines that run is paired with the all-reduce of a step. |
| `ShmCollectives!Programs` with an operation of one chunk after a gather, as in all-reduce, gather, all-reduce or three gathers in a row | `ReadStable` | a rank that is not the destination leaves a gather without waiting for anybody, and an operation of a single chunk does not look for conflicts (`src/csrc/cpu/shm.cpp:586`): it can overwrite the half that a slower rank still reads for the operation before.  An operation of several chunks after the gather does look, and after the very first chunk there is nothing to overwrite; callers that synchronise otherwise (the next step is sent when the destination has finished) are not in the model. |
| `CustomAllreduce!Builds` with ROCm and `mod` 4 | `InputStable` | the ROCm barriers spin while the peer's flag is `<` the own one (`src/csrc/custom_collective_common.cuh:258-260`, 280-282), so at the wrap an old large flag passes; the comment at 48-49 says that overflow is fine, which holds for the CUDA barriers.  It takes 2^32 barriers. |
| `EncoderCache!Priority` = TRUE | `NoCacheMiss` | the encoder run of a victim scheduled in the same call is cancelled (`core/sched/scheduler.py:866`), its cache entry stays (1625), and a later step reads an output the worker never computed. |

**Answers left unread.**  Nothing in an answer names its call (`executor/multiproc_executor.py:476-518`) and nothing
empties the response queues, so a call that ends before it has read all of its workers shifts the answers of the others: each
later call gets the answer to an earlier one.  `AnswersBelongToCall` says exactly which calls are hit.  How
far the engine goes on from there depends on the mode:

* Fault tolerance off, the default: a call ends early at its first failed answer (487-499) or at a timeout
  (481-486).  Where that was a call of the step, the exception goes through the busy loop and
  `fault_tolerant_wrapper` raises it again (`fault_tolerance/engine_core_sentinel.py:480-482`), so that the engine core ends before the
  next call; an exception of a utility call (check_health has a timeout of 10 s, 608) is returned to the client, and the next
  call gets the shifted answers.
* Fault tolerance on: failed calls read all their workers (`FailureReadsAll`), timed-out ones do not, and every step call has
  a timeout (394, 407, 416, 424).  The wrapper catches the TimeoutError, `on_fault` asks the workers for their masks
  with another collective_rpc on the same queues (`_query_mask`, 238), and after a recovery the busy loop goes on.  Answers of the
  step that come late are read by that query, by the recovery's commands or by the next step in the place of their own.

## 7. Not modelled

Numerics, kernels other than the collectives above, model code, configuration and entry points: not protocols.
KV connectors, speculative tokens, structured output, LoRA, streaming sessions, prefill
throttling, pooling models and hybrid cache groups: part of the scheduler's code, left out of
`Scheduler` so far; with none of them configured the modelled code is what runs.  Pausing is modelled only as the
data-parallel engines see it.  Remote readers of the ring (TCP), the Ray executor, start-up handshakes, elastic
scaling, load statistics.  Multimem kernels, the Lamport all-reduce and buffer registration.  Case folding and
log-probabilities in the phrase guard.  The adaptive long-prefill threshold (`core/sched/scheduler.py:687-690`; the fixed one is modelled), the
rejection of an encoder input whose number of embeddings does not match its cached one (1926-1949: a size is a function of the hash in
`EncoderCache`), the truncation of block_hashes when the phrase guard rewinds (`phrase_guard/scheduler.py:242-245`: no property of
`PhraseGuard` is about KV contents) and its preemption in drop mode by reset_prefix_cache (`core/sched/scheduler.py:2880`).  Crashes beyond the death of a worker: the
engine keeps nothing on disk, and a failed worker ends the process.
Most of the lines under `src/csrc` are generated kernels in array form and numerical kernels without state between
launches; nothing in them is a protocol to model.

## 8. Plan

1. Done: pool, free list, manager, scheduler with loop and worker; data-parallel waves,
   broadcast ring with its abstract queue, executor, encoder cache, phrase guard, CPU and GPU collectives;
   theorems about the pool, the free list, the ring, the executor, the CPU and GPU collectives, the waves
   and the encoder cache.
2. Scheduler's connector side: asynchronous loads, deferred frees and their fences,
   delayed frees on abort, invalid blocks; pause states.
3. CPU offload manager with LRU/ARC; tiering with its poll thread; output processor with parallel
   sampling; sentinel; the two-shot Lamport all-reduce.
4. Sliding-window and hybrid managers; speculative look-ahead.
5. Theorems, beyond section 5: QueuesPartition, BlocksAccounted and BatchConsistent of the scheduler;
   tensor lists in the CPU collectives.
