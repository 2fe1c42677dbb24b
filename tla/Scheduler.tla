----------------------------- MODULE Scheduler -----------------------------
(***************************************************************************)
(* Continuous batching: the scheduler (sonar/v1/core/sched/scheduler.py,   *)
(* async_scheduler.py) with its KV-cache manager, driven by the busy loop  *)
(* of the engine core (engine/core.py: step, step_with_batch_queue), and   *)
(* the model worker that executes the scheduled steps in order.            *)
(*                                                                         *)
(* The engine core is one thread.  Its calls are long, so they are cut     *)
(* into the iterations of their loops; pc says where the thread is, and no *)
(* other call of the thread can begin before it is back at "idle":         *)
(*                                                                         *)
(*   idle -> running -> waiting -> commit -> idle    schedule              *)
(*                                  |                                      *)
(*   idle ------------------------> pop -> update -> idle                  *)
(*                                                   update_from_output    *)
(*   idle -> reset -> idle                           reset_prefix_cache    *)
(*                                                                         *)
(* The worker (Execute) is concurrent.  The scheduler reads nothing of the *)
(* worker's state, so it is enough to let the worker take its step between *)
(* two calls or while the thread waits for it.                             *)
(*                                                                         *)
(* Not in this module: KV and encoder connectors, speculative decoding,    *)
(* encoder inputs, LoRA, structured output, streaming sessions, pausing.   *)
(***************************************************************************)
EXTENDS KVCacheManager

CONSTANTS
    Req,            \* requests; each arrives at most once
    Token, Eos,     \* the tokens; Eos stops a request
    Sampled,        \* the tokens that the model may sample
    NoToken,        \* no token was sampled (a prefill chunk)
    Prompt,         \* Prompt[r]: the prompt's tokens
    MaxTokens,      \* max_tokens of every request
    TokenBudget,    \* max_num_scheduled_tokens
    LongPrefill,    \* long_prefill_token_threshold (0: none)
    MaxSeqs,        \* max_num_active_reqs
    BatchQueueSize, \* max_concurrent_batches
    DecodeStagger,  \* decode_stagger, the number of pipeline stages
    Modes,          \* the kinds of scheduler to look at, see mode
    Rank,           \* Rank[r]: place of r in the order (priority, arrival time)
    AllowReset,     \* whether clients call reset_prefix_cache
    BlockOrder      \* the real blocks by block id

ASSUME RequestAssumption ==
    /\ Eos \in Token /\ NoToken \notin Token /\ Sampled \subseteq Token
    /\ Prompt \in [Req -> Seq(Token) \ {<<>>}]
    /\ \A r \in Req : Len(Prompt[r]) < MaxModelLen
    /\ Rank \in [Req -> Nat]
    /\ \A r, s \in Req : Rank[r] = Rank[s] => r = s
ASSUME ConfigAssumption ==
    /\ MaxTokens \in Nat \ {0} /\ TokenBudget \in Nat \ {0} /\ LongPrefill \in Nat
    /\ MaxSeqs \in Nat \ {0} /\ BatchQueueSize \in Nat \ {0}
    /\ DecodeStagger \in Nat \ {0}
    /\ Modes \subseteq [async : BOOLEAN, priority : BOOLEAN] /\ AllowReset \in BOOLEAN

VARIABLES
    mode,      \* scheduler_cls and policy, fixed when the engine starts
    pc,        \* where the engine-core thread is
    req,       \* req[r]: the Request object
    running,   \* Scheduler.running
    waiting,   \* Scheduler.waiting, the next to admit first
    finished,  \* finished_req_ids
    pool,      \* the BlockPool
    table,     \* table[r]: req_to_blocks
    cached,    \* cached[r]: num_cached_block
    sch,       \* locals of schedule()
    batches,   \* batch_queue, the oldest step first
    update,    \* the items of the step update_from_output has not done yet
    wtok,      \* wtok[r]: the tokens of r that the worker knows
    mem        \* mem[b][i]: the prefix whose KV is in slot i of block b

kv == <<pool, table, cached>>
worker == <<wtok, mem>>
vars == <<mode, pc, req, running, waiting, finished, pool, table, cached, sch,
          batches, update, wtok, mem>>

Async == mode.async         \* AsyncScheduler (TRUE) or Scheduler
Priority == mode.priority   \* SchedulingPolicy.PRIORITY (TRUE) or FCFS

(* A Request that does not exist (yet, or any more: the object is gone once
   its id is in finished_req_ids).  hold counts the calls of schedule() until
   next_decode_eligible_step. *)
NoRequest(status) ==
    [status |-> status, tokens |-> <<>>, computed |-> 0, inFlight |-> 0,
     stale |-> 0, dropStale |-> FALSE, placeholders |-> 0, hold |-> 0]

IdleSch == [budget |-> 0, cap |-> 0, idx |-> 1, want |-> 0, items |-> <<>>,
            preempted |-> FALSE, skipped |-> <<>>]

Init ==
    /\ mode \in Modes
    /\ pc = "idle"
    /\ req = [r \in Req |-> NoRequest("NONE")]
    /\ running = <<>> /\ waiting = <<>> /\ finished = {}
    /\ pool = NewPool(BlockOrder, {})
    /\ table = [r \in Req |-> <<>>]
    /\ cached = [r \in Req |-> 0]
    /\ sch = IdleSch
    /\ batches = <<>> /\ update = <<>>
    /\ wtok = [r \in Req |-> <<>>]
    /\ mem = [b \in Block |-> [i \in 1 .. BlockSize |-> <<>>]]

Live(r) == req[r].status \in {"WAITING", "RUNNING", "PREEMPTED"}
----------------------------------------------------------------------------
(* RequestQueue.  The FCFS queue is a deque; the priority queue is a heap, so
   wherever a request is put in, the one with the least rank comes out. *)
Without(q, rs) == SelectSeq(q, LAMBDA r : r \notin rs)

InOrder(q, r) ==
    SelectSeq(q, LAMBDA s : Rank[s] < Rank[r]) \o <<r>>
        \o SelectSeq(q, LAMBDA s : Rank[s] > Rank[r])

AddRequestTo(q, r) == IF Priority THEN InOrder(q, r) ELSE Append(q, r)

PrependRequest(q, r) == IF Priority THEN InOrder(q, r) ELSE <<r>> \o q

(* prepend_requests of the requests skipped in this pass, which were collected
   so that their order does not change. *)
PrependRequests(q, rs) == IF Priority THEN FoldLeft(InOrder, q, rs) ELSE rs \o q
----------------------------------------------------------------------------
(* add_request, for a new id *)
AddRequest(r) ==
    /\ pc = "idle"
    /\ req[r].status = "NONE"
    /\ req' = [req EXCEPT ![r] = [NoRequest("WAITING") EXCEPT !.tokens = Prompt[r]]]
    /\ waiting' = AddRequestTo(waiting, r)
    /\ UNCHANGED <<pc, running, finished, kv, sch, batches, update, worker>>

(* Bug: the blocks of a request with output in flight are left for a later
   step that does not know the request any more. *)
AbortLeaksBlocks(r) ==
    /\ pc \in {"idle", "pop"}
    /\ Live(r)
    /\ running' = Without(running, {r})
    /\ waiting' = Without(waiting, {r})
    /\ req' = [req EXCEPT ![r] = NoRequest("FINISHED")]
    /\ finished' = finished \cup {r}
    /\ pool' = IF req[r].inFlight > 0 THEN pool ELSE FreeTable(pool, table[r])
    /\ table' = [table EXCEPT ![r] = <<>>]
    /\ cached' = [cached EXCEPT ![r] = 0]
    /\ UNCHANGED <<pc, sch, batches, update, worker>>

(* finish_requests(r, FINISHED_ABORTED), from the input queue between two
   calls or from the aborts queue just before an output is processed. *)
Abort(r) ==
    /\ pc \in {"idle", "pop"}
    /\ Live(r)
    /\ running' = Without(running, {r})
    /\ waiting' = Without(waiting, {r})
    /\ req' = [req EXCEPT ![r] = NoRequest("FINISHED")]
    /\ finished' = finished \cup {r}
    /\ pool' = FreeTable(pool, table[r])
    /\ table' = [table EXCEPT ![r] = <<>>]
    /\ cached' = [cached EXCEPT ![r] = 0]
    /\ UNCHANGED <<pc, sch, batches, update, worker>>

(* Bug: the stale output of two preemptions in a row is added up. *)
PreemptedAccumulates(q, drop) ==
    [q EXCEPT !.status = "PREEMPTED",
              !.computed = 0,
              !.dropStale = drop \/ (q.dropStale /\ q.stale > 0),
              !.stale = @ + q.inFlight,
              !.placeholders = 0]

(* _preempt_request: what happens to the Request.  All the output in flight is
   stale from now on; it is still delivered unless drop says otherwise, or it
   was already to be dropped. *)
Preempted(q, drop) ==
    [q EXCEPT !.status = "PREEMPTED",
              !.computed = 0,
              !.dropStale = drop \/ (q.dropStale /\ q.stale > 0),
              !.stale = q.inFlight,
              !.placeholders = 0]

(* _preempt_request: the blocks go back to the pool, the request to the front
   of the waiting queue. *)
Preempt(r, drop) ==
    /\ req' = [req EXCEPT ![r] = Preempted(@, drop)]
    /\ waiting' = PrependRequest(waiting, r)
    /\ pool' = FreeTable(pool, table[r])
    /\ table' = [table EXCEPT ![r] = <<>>]
    /\ cached' = [cached EXCEPT ![r] = 0]
----------------------------------------------------------------------------
(* Scheduler.has_requests *)
HasRequests == running # <<>> \/ waiting # <<>> \/ finished # {}

(* step, step_with_batch_queue: schedule when there is anything to schedule,
   wait for the oldest step otherwise. *)
StartSchedule ==
    /\ pc = "idle"
    /\ HasRequests
    /\ Len(batches) < BatchQueueSize
    /\ pc' = "running"
    /\ sch' = [IdleSch EXCEPT !.budget = TokenBudget,
                              !.cap = IF Len(running) + Len(waiting) > 1
                                      THEN LongPrefill ELSE 0]
    /\ UNCHANGED <<req, running, waiting, finished, kv, batches, update, worker>>

StartPop ==
    /\ pc = "idle"
    /\ ~HasRequests
    /\ batches # <<>>
    /\ pc' = "pop"
    /\ UNCHANGED <<req, running, waiting, finished, kv, sch, batches, update, worker>>
----------------------------------------------------------------------------
(* First, the running requests, in order.  The loop may stop before the end
   of the list when the budget is used up. *)
InRunningLoop == pc = "running" /\ sch.idx <= Len(running) /\ sch.budget > 0

(* The step in flight is already known to be the last one of q. *)
ReachesMaxTokens(r, q) ==
    /\ q.placeholders > 0
    /\ q.computed + 2 - q.placeholders >= Len(Prompt[r]) + MaxTokens

(* At most the long-prefill threshold, when there is one in this call.  Only
   the fixed threshold: the adaptive one is left out. *)
Capped(n) == IF sch.cap > 0 THEN Min({n, sch.cap}) ELSE n

NumNewTokens(q) ==
    Min({Capped(Len(q.tokens) + q.placeholders - q.computed), sch.budget,
         MaxModelLen - q.computed - 1})

(* The tokens asked for, which are not computed again after a preemption has
   made room: want is 0 until the first attempt for this request has failed. *)
Want(q) == IF sch.want > 0 THEN sch.want ELSE NumNewTokens(q)

Item(r, start, n, tokens, blocks) ==
    [r |-> r, start |-> start, n |-> n, tokens |-> tokens, blocks |-> blocks]

SkipRunning ==
    /\ InRunningLoop
    /\ LET r == running[sch.idx]
       IN  /\ sch.want = 0
           /\ \/ ReachesMaxTokens(r, req[r])
              \/ req[r].hold > 0
              \/ NumNewTokens(req[r]) = 0
    /\ sch' = [sch EXCEPT !.idx = @ + 1]
    /\ UNCHANGED <<pc, req, running, waiting, finished, kv, batches, update, worker>>

(* allocate_slots succeeds for r, up to n tokens, the first of them in the
   blocks hit: the pool, the table and the hashes of the blocks that are full
   once the tokens known so far are computed. *)
GiveSlots(r, hit, n) ==
    LET slots == AllocateSlots(pool, table[r], hit, n)
        c     == cached[r] + Len(hit)
    IN  /\ pool' = CacheBlocks(slots.pool, slots.table, c, req[r].tokens, n)
        /\ table' = [table EXCEPT ![r] = slots.table]
        /\ cached' = [cached EXCEPT ![r] = NumCached(c, req[r].tokens, n)]

ScheduleRunning ==
    /\ InRunningLoop
    /\ LET r == running[sch.idx]
           q == req[r]
           n == Want(q)
       IN  /\ n # 0
           /\ ~ReachesMaxTokens(r, q) /\ q.hold = 0
           /\ HasSlots(pool, table[r], <<>>, q.computed + n, q.tokens, FALSE, TRUE)
           /\ GiveSlots(r, <<>>, q.computed + n)
           /\ sch' = [sch EXCEPT !.budget = @ - n, !.idx = @ + 1, !.want = 0,
                                 !.items = Append(@, Item(r, q.computed, n, <<>>, table'[r]))]
    /\ UNCHANGED <<pc, req, running, waiting, finished, batches, update, worker>>

(* The request to preempt: the last one, or the one with the least priority,
   which may have been scheduled earlier in this very call. *)
Victim ==
    IF Priority
    THEN CHOOSE v \in ToSet(running) : \A s \in ToSet(running) : Rank[s] <= Rank[v]
    ELSE Last(running)

(* Bug: the victim stays in the batch that schedule() has begun to collect. *)
PreemptForRunningKeepsItem ==
    /\ InRunningLoop
    /\ LET r    == running[sch.idx]
           q    == req[r]
           n    == Want(q)
           v    == Victim
           before == \E i \in 1 .. sch.idx - 1 : running[i] = v
       IN  /\ n # 0
           /\ ~ReachesMaxTokens(r, q) /\ q.hold = 0
           /\ ~HasSlots(pool, table[r], <<>>, q.computed + n, q.tokens, FALSE, TRUE)
           /\ running' = Without(running, {v})
           /\ Preempt(v, FALSE)
           /\ sch' = [sch EXCEPT !.preempted = TRUE,
                                 !.idx = IF before THEN @ - 1 ELSE @,
                                 !.want = IF v = r THEN 0 ELSE n]
           /\ pc' = IF v = r /\ ~Priority THEN "commit" ELSE pc
    /\ UNCHANGED <<finished, batches, update, worker>>

(* allocate_slots fails for the request at hand: one request is preempted; a
   victim that was scheduled before gives its share of the budget back. *)
PreemptForRunning ==
    /\ InRunningLoop
    /\ LET r    == running[sch.idx]
           q    == req[r]
           n    == Want(q)
           v    == Victim
           mine == SelectSeq(sch.items, LAMBDA i : i.r = v)
           back == IF mine = <<>> THEN 0 ELSE mine[1].n
           before == \E i \in 1 .. sch.idx - 1 : running[i] = v
       IN  /\ n # 0
           /\ ~ReachesMaxTokens(r, q) /\ q.hold = 0
           /\ ~HasSlots(pool, table[r], <<>>, q.computed + n, q.tokens, FALSE, TRUE)
           /\ running' = Without(running, {v})
           /\ Preempt(v, FALSE)
           /\ sch' = [sch EXCEPT !.preempted = TRUE,
                                 !.idx = IF before THEN @ - 1 ELSE @,
                                 !.want = IF v = r THEN 0 ELSE n,
                                 !.budget = @ + back,
                                 !.items = SelectSeq(@, LAMBDA i : i.r # v)]
           /\ pc' = IF v = r /\ ~Priority THEN "commit" ELSE pc
    /\ UNCHANGED <<finished, batches, update, worker>>

EndRunning ==
    /\ pc = "running"
    /\ ~InRunningLoop
    /\ pc' = IF sch.preempted THEN "commit" ELSE "waiting"
    /\ UNCHANGED <<req, running, waiting, finished, kv, sch, batches, update, worker>>
----------------------------------------------------------------------------
(* Next, the waiting requests, unless something was preempted. *)
InWaitingLoop ==
    /\ pc = "waiting"
    /\ sch.budget > 0
    /\ waiting # <<>>
    /\ Len(running) < MaxSeqs

(* Bug: a preempted request is resumed at once. *)
MustDrainNever(q) == FALSE

(* Output of r that will be delivered is still in flight: resuming now could
   sample the same position again. *)
MustDrain(q) == q.stale > 0 /\ ~q.dropStale

SkipWaiting ==
    /\ InWaitingLoop
    /\ MustDrain(req[Head(waiting)])
    /\ waiting' = Tail(waiting)
    /\ sch' = [sch EXCEPT !.skipped = Append(@, Head(waiting))]
    /\ UNCHANGED <<pc, req, running, finished, kv, batches, update, worker>>

(* The tokens to schedule for an admission that finds the blocks hit. *)
AdmitTokens(q, hit) ==
    Min({Capped(Len(q.tokens) - Len(hit) * BlockSize), sch.budget})

CanAdmit(r, hit) ==
    HasSlots(pool, table[r], hit, Len(hit) * BlockSize + AdmitTokens(req[r], hit),
             req[r].tokens, TRUE, running # <<>>)

Admit(hit) ==
    /\ InWaitingLoop
    /\ LET r == Head(waiting)
           q == req[r]
           c == Len(hit) * BlockSize
           n == AdmitTokens(q, hit)
       IN  /\ ~MustDrain(q)
           /\ hit \in ComputedBlocks(pool, q.tokens)
           /\ CanAdmit(r, hit)
           /\ GiveSlots(r, hit, c + n)
           /\ waiting' = Tail(waiting)
           /\ running' = Append(running, r)
           /\ req' = [req EXCEPT ![r].status = "RUNNING", ![r].computed = c]
           /\ sch' = [sch EXCEPT !.budget = @ - n,
                                 !.items = Append(@, Item(r, c, n, q.tokens, table'[r]))]
    /\ UNCHANGED <<pc, finished, batches, update, worker>>

(* The loop ends, also when the first request in the queue does not fit; the
   skipped requests go back to the front. *)
EndWaiting ==
    /\ pc = "waiting"
    /\ \/ ~InWaitingLoop
       \/ /\ InWaitingLoop
          /\ ~MustDrain(req[Head(waiting)])
          /\ \E hit \in ComputedBlocks(pool, req[Head(waiting)].tokens) :
                ~CanAdmit(Head(waiting), hit)
    /\ waiting' = PrependRequests(waiting, sch.skipped)
    /\ pc' = "commit"
    /\ sch' = [sch EXCEPT !.skipped = <<>>]
    /\ UNCHANGED <<req, running, finished, kv, batches, update, worker>>
----------------------------------------------------------------------------
(* Scheduler._update_after_schedule *)
CountScheduled(q, n) == [q EXCEPT !.computed = @ + n, !.inFlight = @ + n]

(* AsyncScheduler._update_after_schedule: a request that samples in this step
   gets a placeholder for the token, and sits out the calls until the token has
   gone round the pipeline. *)
Advanced(q, n) ==
    LET sampling == Async /\ q.computed + n >= Len(q.tokens) + q.placeholders
    IN  [CountScheduled(q, n) EXCEPT
            !.placeholders = IF sampling THEN @ + 1 ELSE @,
            !.hold = IF sampling THEN DecodeStagger - 1 ELSE @]

(* current_step is one more for the next call. *)
Held(q) == [q EXCEPT !.hold = Max({@ - 1, 0})]

(* The end of schedule and of the first half of the step: the batch goes to
   the worker; the thread waits for a result if the batch queue is full or
   nothing is left to schedule. *)
Commit ==
    /\ pc = "commit"
    /\ req' = FoldLeft(LAMBDA f, i : [f EXCEPT ![i.r] = Advanced(@, i.n)],
                       [r \in Req |-> Held(req[r])], sch.items)
    /\ batches' = Append(batches, [items |-> sch.items, finished |-> finished,
                                   done |-> FALSE])
    /\ finished' = {}
    /\ sch' = IdleSch
    /\ pc' = IF /\ Len(batches') < BatchQueueSize
                /\ sch.items # <<>> \/ running # <<>> \/ waiting # <<>>
             THEN "idle" ELSE "pop"
    /\ UNCHANGED <<running, waiting, kv, update, worker>>
----------------------------------------------------------------------------
(* The worker.  It keeps the tokens of a request from the step that admits it,
   and adds the ones it samples itself. *)
Base(i) == IF i.tokens # <<>> THEN i.tokens ELSE wtok[i.r]

(* The positions that a step computes, and where the KV of one of them goes. *)
Positions(i) == i.start + 1 .. i.start + i.n

Slot(i, p) == <<i.blocks[((p - 1) \div BlockSize) + 1], ((p - 1) % BlockSize) + 1>>

(* The KV that the items write: slot, and the prefix it is the KV of. *)
Writes(items) ==
    UNION {{<<Slot(items[j], p), SubSeq(Base(items[j]), 1, p)>> : p \in Positions(items[j])} :
           j \in DOMAIN items}

(* The memory after the writes ws. *)
Written(m, ws) ==
    [b \in Block |-> [s \in 1 .. BlockSize |->
        IF \E w \in ws : w[1] = <<b, s>>
        THEN (CHOOSE w \in ws : w[1] = <<b, s>>)[2] ELSE m[b][s]]]

(* finish_requests: the worker drops what it knows of finished requests.  It
   also drops preempted ones, which come back with all their tokens: what it
   knew of them is not read again, and stays here. *)
Forget(known, ids) == [r \in Req |-> IF r \in ids THEN <<>> ELSE known[r]]

(* postprocess_sampled: a token that was sampled is one more known token. *)
WithSample(i, t) == IF t = NoToken THEN Base(i) ELSE Append(Base(i), t)

(* The result of an item whose step sampled t, the KV being m when attention
   runs: ctx is the text t was computed from, <<>> if the KV in some slot is
   that of another text. *)
Result(i, m, t) ==
    LET end  == i.start + i.n
        mine == \A p \in 1 .. end : m[Slot(i, p)[1]][Slot(i, p)[2]] = SubSeq(Base(i), 1, p)
    IN  [r |-> i.r, n |-> i.n,
         ctx   |-> IF mine THEN SubSeq(Base(i), 1, end) ELSE <<>>,
         token |-> IF end = Len(Base(i)) THEN t ELSE NoToken]

(* execute_model and sample_tokens for the oldest step not executed yet: a
   step writes its KV before it reads; ts has a sample for each item. *)
Execute(j, ts) ==
    /\ pc \in {"idle", "pop"}
    /\ ~batches[j].done
    /\ \A k \in 1 .. j - 1 : batches[k].done
    /\ LET items == batches[j].items
           item(r) == {k \in DOMAIN items : items[k].r = r}
           result(k) == Result(items[k], mem', ts[k])
       IN  /\ ts \in [DOMAIN items -> Sampled]
           /\ mem' = Written(mem, Writes(items))
           /\ wtok' = [r \in Req |->
                IF item(r) = {} THEN Forget(wtok, batches[j].finished)[r]
                ELSE LET k == CHOOSE k \in item(r) : TRUE
                     IN  WithSample(items[k], result(k).token)]
           /\ batches' = [batches EXCEPT ![j].done = TRUE,
                                         ![j].finished = {},
                                         ![j].items = [k \in DOMAIN items |-> result(k)]]
    /\ UNCHANGED <<pc, req, running, waiting, finished, kv, sch, update>>
----------------------------------------------------------------------------
(* update_from_output, item by item *)
BeginUpdate ==
    /\ pc = "pop"
    /\ Head(batches).done
    /\ update' = Head(batches).items
    /\ batches' = Tail(batches)
    /\ pc' = "update"
    /\ UNCHANGED <<req, running, waiting, finished, kv, sch, worker>>

(* Bug: the stale share is not counted down. *)
DrainedKeepsStale(q, n) == [q EXCEPT !.inFlight = @ - n]

(* num_in_flight_tokens and num_stale_output_tokens go down by the tokens of
   the step. *)
Drained(q, n) ==
    [q EXCEPT !.inFlight = @ - n, !.stale = IF @ > 0 THEN @ - n ELSE @]

(* The output of item i is for the request: it has a token, the request still
   exists and the output is not to be dropped. *)
Delivers(i) ==
    /\ Live(i.r)
    /\ i.token # NoToken
    /\ ~(req[i.r].stale > 0 /\ req[i.r].dropStale)

DropOutput ==
    /\ pc = "update" /\ update # <<>>
    /\ LET i == Head(update)
       IN  /\ ~Delivers(i)
           /\ req' = [req EXCEPT ![i.r] = IF Live(i.r) THEN Drained(@, i.n) ELSE @]
    /\ update' = Tail(update)
    /\ UNCHANGED <<pc, running, waiting, finished, kv, sch, batches, worker>>

(* _update_request_with_output.  Stale output is appended but does not touch
   the counters that the preemption has reset. *)
Appended(q, i) ==
    [Drained(q, i.n) EXCEPT !.tokens = Append(@, i.token),
                            !.placeholders = IF q.stale = 0 /\ @ > 0 THEN @ - 1 ELSE @]

(* check_stop *)
Stops(r, tokens) ==
    \/ Last(tokens) = Eos
    \/ Len(tokens) >= MaxModelLen
    \/ Len(tokens) - Len(Prompt[r]) >= MaxTokens

(* The number of cached blocks once the token that the placeholder stood for
   is known, and the pool with them. *)
CachesOutput(q) == q.stale = 0 /\ q.status = "RUNNING" /\ q.placeholders > 0

Deliver ==
    /\ pc = "update" /\ update # <<>>
    /\ LET i == Head(update)
           r == i.r
           q == req[r]
           new == Appended(q, i)
           known == IF CachesOutput(q) THEN new.computed - new.inFlight ELSE 0
           p == CacheBlocks(pool, table[r], cached[r], new.tokens, known)
       IN  /\ Delivers(i)
           /\ \/ /\ ~Stops(r, new.tokens)
                 /\ req' = [req EXCEPT ![r] = new]
                 /\ pool' = p
                 /\ cached' = [cached EXCEPT ![r] = NumCached(@, new.tokens, known)]
                 /\ UNCHANGED <<table, finished>>
              \/ /\ Stops(r, new.tokens)
                 /\ req' = [req EXCEPT ![r] = NoRequest("FINISHED")]
                 /\ finished' = finished \cup {r}
                 /\ pool' = FreeTable(p, table[r])
                 /\ table' = [table EXCEPT ![r] = <<>>]
                 /\ cached' = [cached EXCEPT ![r] = 0]
    /\ update' = Tail(update)
    /\ UNCHANGED <<pc, running, waiting, sch, batches, worker>>

(* The stopped requests leave their queues, wherever a preemption put them. *)
EndUpdate ==
    /\ pc = "update"
    /\ update = <<>>
    /\ running' = Without(running, finished)
    /\ waiting' = Without(waiting, finished)
    /\ pc' = "idle"
    /\ UNCHANGED <<req, finished, kv, sch, batches, update, worker>>
----------------------------------------------------------------------------
(* reset_prefix_cache(reset_running_requests = True) preempts everything that
   runs, the last one first, and drops what is in flight. *)
StartReset ==
    /\ AllowReset
    /\ pc = "idle"
    /\ pc' = "reset"
    /\ UNCHANGED <<req, running, waiting, finished, kv, sch, batches, update, worker>>

ResetRunning ==
    /\ pc = "reset"
    /\ running # <<>>
    /\ running' = Front(running)
    /\ Preempt(Last(running), TRUE)
    /\ UNCHANGED <<pc, finished, sch, batches, update, worker>>

(* RuntimeError if the pool refuses: see ResetSucceeds. *)
FinishReset ==
    /\ pc = "reset"
    /\ running = <<>>
    /\ CanResetPrefixCache(pool)
    /\ pool' = ResetPrefixCache(pool)
    /\ pc' = "idle"
    /\ UNCHANGED <<req, running, waiting, finished, table, cached, sch, batches,
                   update, worker>>
----------------------------------------------------------------------------
Schedule ==
    \/ StartSchedule
    \/ SkipRunning \/ ScheduleRunning \/ PreemptForRunning \/ EndRunning
    \/ SkipWaiting
    \/ InWaitingLoop /\ \E hit \in ComputedBlocks(pool, req[Head(waiting)].tokens) : Admit(hit)
    \/ EndWaiting
    \/ Commit

Update == StartPop \/ BeginUpdate \/ DropOutput \/ Deliver \/ EndUpdate

Reset == StartReset \/ ResetRunning \/ FinishReset

Work == \E j \in DOMAIN batches : \E ts \in [DOMAIN batches[j].items -> Sampled] : Execute(j, ts)

Next ==
    /\ \/ \E r \in Req : AddRequest(r) \/ Abort(r)
       \/ Schedule
       \/ Update
       \/ Reset
       \/ Work
    /\ UNCHANGED mode

Spec == Init /\ [][Next]_vars

(* The engine-core thread goes on with what it has begun and runs its loop
   while there is work; a step that the worker was given is executed.  Nobody
   is obliged to send or to abort a request. *)
FairSpec ==
    /\ Spec
    /\ WF_vars(Schedule /\ UNCHANGED mode)
    /\ WF_vars(Update /\ UNCHANGED mode)
    /\ WF_vars(Work /\ UNCHANGED mode)
----------------------------------------------------------------------------
RequestType ==
    [status : {"NONE", "WAITING", "RUNNING", "PREEMPTED", "FINISHED"},
     tokens : Seq(Token), computed : Nat, inFlight : Nat, stale : Nat,
     dropStale : BOOLEAN, placeholders : Nat, hold : Nat]

(* The types; the counters are natural numbers, as the assertions of the code
   demand (num_stale_output_tokens, num_output_placeholders, token_budget), and
   the number of new tokens is never negative (the code only tests for 0). *)
TypeOK ==
    /\ pc \in {"idle", "running", "waiting", "commit", "pop", "update", "reset"}
    /\ req \in [Req -> RequestType]
    /\ running \in Seq(Req) /\ waiting \in Seq(Req) /\ finished \in SUBSET Req
    /\ Len(running) <= MaxSeqs
    /\ table \in [Req -> Seq(RealBlock)] /\ cached \in [Req -> Nat]
    /\ sch.budget \in Nat /\ sch.want \in Nat /\ sch.idx \in Nat \ {0}
    /\ \A i \in ToSet(sch.items) : i.n > 0
    /\ Len(batches) <= BatchQueueSize

(* Between two calls every unfinished request is in exactly one queue, once,
   and its status says which; nothing else is queued. *)
QueuesPartition ==
    pc \in {"idle", "pop"} =>
        /\ ToSet(running) = {r \in Req : req[r].status = "RUNNING"}
        /\ ToSet(waiting) = {r \in Req : req[r].status \in {"WAITING", "PREEMPTED"}}
        /\ Len(running) = Cardinality(ToSet(running))
        /\ Len(waiting) = Cardinality(ToSet(waiting))

(* Every block has one reference per table it is in and is free when it is in
   none; only running requests have blocks. *)
BlocksAccounted ==
    /\ \A b \in RealBlock :
          /\ pool.ref[b] = Cardinality({r \in Req : b \in ToSet(table[r])})
          /\ pool.ref[b] = 0 <=> b \in ToSet(pool.free)
    /\ Len(pool.free) = Cardinality(ToSet(pool.free))
    /\ \A r \in Req : table[r] # <<>> => req[r].status = "RUNNING"

(* num_in_flight_tokens counts the tokens of the steps not yet processed, and
   the stale share is the part that was scheduled before a preemption. *)
TokensOf(items, r) ==
    FoldLeft(LAMBDA n, i : IF i.r = r THEN n + i.n ELSE n, 0, items)

InFlightCounted ==
    \A r \in Req : Live(r) =>
        /\ req[r].inFlight =
              TokensOf(update, r)
                + FoldLeft(LAMBDA n, b : n + TokensOf(b.items, r), 0, batches)
        /\ req[r].stale <= req[r].inFlight

(* Counters, references and queues of blocks tell what is really held and what
   is really in flight, after every step of every loop. *)
CountersAccounted == TypeOK /\ BlocksAccounted /\ InFlightCounted

(* What schedule() hands to the worker: each scheduled request once, all of
   them still running, and the budget accounts for their tokens, whoever was
   preempted on the way (a victim may have been scheduled before). *)
ScheduledIsRunning ==
    pc \in {"running", "waiting", "commit"} =>
        LET rs == [k \in DOMAIN sch.items |-> sch.items[k].r]
        IN  /\ IsInjective(rs)
            /\ ToSet(rs) \subseteq ToSet(running)
            /\ sch.budget + FoldLeft(LAMBDA n, i : n + i.n, 0, sch.items) = TokenBudget
            /\ \A i \in ToSet(sch.items) : i.blocks = table[i.r]

(* Queues and the batch that is put together agree on who is running. *)
BatchConsistent == QueuesPartition /\ ScheduledIsRunning

(* Attention never reads the KV of another text: whatever is shared, freed,
   handed out again or still in flight, each slot a step reads holds the KV of
   the very prefix the request has there. *)
StepReadsOwnKV ==
    \A b \in ToSet(batches) : b.done => \A i \in ToSet(b.items) : i.ctx # <<>>

(* A token is delivered to a request only if it was computed from exactly the
   text the request has at that moment: no position is sampled twice, none is
   lost, and no output of before a preemption comes out of order. *)
DeliveredInContext ==
    pc = "update" /\ update # <<>> /\ Delivers(Head(update)) =>
        Head(update).ctx = req[Head(update).r].tokens

(* When the worker has caught up, a block in the prefix cache holds the KV of
   the text its hash stands for. *)
CachedContentsSound ==
    pc = "idle" /\ (\A j \in DOMAIN batches : batches[j].done) =>
        \A e \in pool.map : \A s \in 1 .. BlockSize :
            mem[e[2]][s] = SubSeq(e[1], 1, Len(e[1]) - BlockSize + s)

(* A cached block can be reached: the hash of the block before it is cached
   too.  A table is freed last block first, so that the pool takes away the
   end of a prefix before its beginning. *)
PrefixClosed ==
    \A e \in pool.map :
        Len(e[1]) > BlockSize =>
            CachedBlocks(pool, SubSeq(e[1], 1, Len(e[1]) - BlockSize)) # {}

(* Once the running requests are preempted the pool accepts the reset: no
   block is still held by anybody. *)
ResetSucceeds ==
    pc = "reset" /\ running = <<>> => CanResetPrefixCache(pool)

(* Every request that was added is finished, however often it is preempted. *)
RequestsFinish ==
    \A r \in Req : Live(r) ~> req[r].status = "FINISHED"
============================================================================
