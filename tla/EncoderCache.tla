---------------------------- MODULE EncoderCache ----------------------------
(***************************************************************************)
(* The cache of encoder outputs (core/encoder_cache_manager.py) with the   *)
(* part of schedule() that uses it and the worker that holds the outputs.  *)
(*                                                                         *)
(* The manager decides which outputs exist; the worker computes those that *)
(* a step schedules, drops those the step lists as freed, and fails on an  *)
(* input of the step whose output it does not have.  Steps are queued for  *)
(* the worker.                                                             *)
(*                                                                         *)
(* schedule() is one call: its loop is several actions, and only they can  *)
(* happen until it ends.  KV block allocation may fail whenever it is      *)
(* tried; prefix caching may have computed any part of a prompt.  Decoding *)
(* needs no encoder output, so a request ends with its prompt.             *)
(***************************************************************************)
EXTENDS Integers, FiniteSets, SequencesExt

CONSTANTS
    NumReqs,       \* requests, numbered by priority (1 is served first)
    Items,         \* Items[r]: multimodal inputs in order, [hash, start, len]
    Size,          \* Size[h]: encoder embeddings
    Prompt,        \* Prompt[r]: prompt tokens
    CacheSize, Budget,   \* encoder_cache_size, max_num_encoder_input_tokens
    Priority,            \* scheduling policy: priority, or first come first served
    disable_chunked_mm_input,
    Depth,         \* steps in flight
    MaxPreemptions, MaxResets   \* bounds

Req == 1 .. NumReqs
Hash == DOMAIN Size
Inputs(r) == DOMAIN Items[r]

(* The inputs of a request are sorted by position and do not overlap; one that
   is larger than the cache is rejected before it gets here. *)
ASSUME EncoderAssumption ==
    /\ NumReqs \in Nat /\ CacheSize \in Nat /\ Budget \in Nat
    /\ Priority \in BOOLEAN /\ disable_chunked_mm_input \in BOOLEAN
    /\ IsFiniteSet(Hash) /\ Size \in [Hash -> 1 .. CacheSize]
    /\ Prompt \in [Req -> Nat]
    /\ \A r \in Req :
          /\ Items[r] \in Seq([hash : Hash, start : Nat, len : Nat])
          /\ \A i, j \in Inputs(r) : i < j => Items[r][i].start + Items[r][i].len <= Items[r][j].start

VARIABLES
    m,          \* the EncoderCacheManager
    arrived, running, waiting,   \* requests seen; the two queues
    computed,   \* num_computed_tokens
    drop,       \* requests with drop_stale_output
    phase, cur, \* where schedule() is, and its position in the queue
    try,        \* the request being scheduled: its tokens and encoder inputs
    plan, budget, preempted,     \* the step that is put together
    steps,      \* steps that the worker has not returned, oldest first
    done,       \* how many of them it has executed
    wcache,     \* the worker's outputs
    preemptions, resets

queues == <<arrived, running, waiting>>
loop == <<phase, cur, try, plan, budget, preempted>>
worker == <<steps, done, wcache>>
bounds == <<preemptions, resets>>
vars == <<m, queues, computed, drop, loop, worker, bounds>>

NoTry == [n |-> 0]
EmptyCache == [free |-> CacheSize, freeable_slots |-> CacheSize, cached |-> <<>>,
               freeable |-> <<>>, freed |-> {}, ids |-> [r \in Req |-> {}]]

Init ==
    /\ m = EmptyCache
    /\ arrived = {} /\ running = <<>> /\ waiting = <<>>
    /\ computed = [r \in Req |-> 0] /\ drop = {}
    /\ phase = "idle" /\ cur = 1 /\ try = NoTry /\ plan = <<>> /\ budget = Budget /\ preempted = FALSE
    /\ steps = <<>> /\ done = 0 /\ wcache = {}
    /\ preemptions = 0 /\ resets = 0

-----------------------------------------------------------------------------
(* The manager *)

HashOf(r, i) == Items[r][i].hash
Hashes(r, inputs) == {HashOf(r, i) : i \in inputs}

(* The embeddings of the outputs with these hashes, and their number. *)
Embeddings(hashes) == UNION {{h} \X (1 .. Size[h]) : h \in hashes}
SizeOf(hashes) == Cardinality(Embeddings(hashes))

(* s without the elements of X. *)
Without(s, X) ==
    LET kept[k \in 0 .. Len(s)] ==
            IF k = 0 THEN <<>>
            ELSE IF s[k] \in X THEN kept[k - 1] ELSE Append(kept[k - 1], s[k])
    IN  kept[Len(s)]

(* check_and_update_cache for inputs whose outputs are cached. *)
check_and_update_cache(c, r, inputs) ==
    LET hashes == Hashes(r, inputs)
        orphans == {h \in hashes : c.cached[h] = {}}
    IN  [c EXCEPT !.cached = [h \in DOMAIN @ |-> IF h \in hashes THEN @[h] \cup {r} ELSE @[h]],
                  !.ids[r] = @ \cup inputs,
                  !.freeable = Without(@, orphans),
                  !.freeable_slots = @ - SizeOf(orphans)]

can_allocate(c, h, compute, scheduled) ==
    /\ Size[h] <= compute
    /\ Size[h] + scheduled <= c.free \/ Size[h] + scheduled <= c.freeable_slots

(* can_allocate evicts the oldest unreferenced entries until there is room. *)
Oldest(c, j) == Range(SubSeq(c.freeable, 1, j))

Evict(c, need) ==
    LET k == Min({j \in 0 .. Len(c.freeable) : c.free + SizeOf(Oldest(c, j)) >= need})
    IN  [c EXCEPT !.free = @ + SizeOf(Oldest(c, k)), !.freed = @ \cup Oldest(c, k),
                  !.freeable = SubSeq(@, k + 1, Len(@)),
                  !.cached = [h \in DOMAIN @ \ Oldest(c, k) |-> @[h]]]

(* allocate for inputs with different hashes. *)
allocate(c, r, inputs) ==
    LET hashes == Hashes(r, inputs)
        refs(h) == IF h \in DOMAIN c.cached THEN c.cached[h] ELSE {}
    IN  [c EXCEPT !.cached = [h \in DOMAIN @ \cup hashes |->
                                 IF h \in hashes THEN refs(h) \cup {r} ELSE @[h]],
                  !.ids[r] = @ \cup inputs,
                  !.free = @ - SizeOf(hashes), !.freeable_slots = @ - SizeOf(hashes)]

(* Slip: the reference is dropped at the first of several occurrences. *)
AnotherOccurrenceNever(ids, r, h) == FALSE
AnotherOccurrence(ids, r, h) == \E i \in ids[r] : HashOf(r, i) = h

(* free_encoder_input for the inputs[r] of every request r, which has them
   cached: an entry loses the requests without another occurrence of it, and
   becomes evictable when it has no request left (several, in some order). *)
free_encoder_inputs(c, inputs) ==
    LET ids == [r \in Req |-> c.ids[r] \ inputs[r]]
        leaving(h) == {r \in Req : h \in Hashes(r, inputs[r]) /\ ~AnotherOccurrence(ids, r, h)}
        orphans == {h \in DOMAIN c.cached : c.cached[h] # {} /\ c.cached[h] \subseteq leaving(h)}
    IN  [c EXCEPT !.ids = ids,
                  !.cached = [h \in DOMAIN @ |-> @[h] \ leaving(h)],
                  !.freeable = @ \o SetToSeq(orphans),
                  !.freeable_slots = @ + SizeOf(orphans)]

free(c, R) == free_encoder_inputs(c, [r \in Req |-> IF r \in R THEN c.ids[r] ELSE {}])

(* Slip: the list is cleared before it is read. *)
FreedForgotten(c) == {}
get_freed_mm_hashes(c) == c.freed \ DOMAIN c.cached

-----------------------------------------------------------------------------
(* _try_schedule_encoder_inputs: one input after the other *)

Overlaps(item, from, to) == item.start + item.len > from /\ item.start < to
Window(r, from, to) == {i \in Inputs(r) : Overlaps(Items[r][i], from, to)}

(* Left out: the rejection of an input whose number of embeddings differs from
   the cached one, since Size is a function of the hash; and the `continue` for
   an input without embeddings in the range, after can_allocate may have
   evicted, which the worker skips too. *)
TryInput(acc, i) ==
    LET item == Items[acc.r][i]
        h == item.hash
        scheduled == Hashes(acc.r, acc.enc)
    IN  IF acc.stop \/ ~Overlaps(item, acc.from, acc.end) THEN acc
        ELSE IF /\ disable_chunked_mm_input /\ acc.from <= item.start
                /\ acc.from + acc.n < item.start + item.len
        THEN [acc EXCEPT !.n = Max({0, item.start - acc.from}), !.stop = TRUE]
        ELSE IF h \in scheduled THEN [acc EXCEPT !.dup = @ \cup {i}]
        ELSE IF h \in DOMAIN acc.m.cached
        THEN [acc EXCEPT !.m = check_and_update_cache(@, acc.r, {i})]
        ELSE IF ~can_allocate(acc.m, h, acc.budget, SizeOf(scheduled))
        THEN [acc EXCEPT !.n = IF acc.from < item.start THEN Min({@, item.start - acc.from}) ELSE 0,
                         !.stop = TRUE]
        ELSE [acc EXCEPT !.m = Evict(@, Size[h] + SizeOf(scheduled)),
                         !.budget = @ - Size[h], !.enc = @ \cup {i}]

TryStart(r, from, n) ==
    [r |-> r, from |-> from, n |-> n, end |-> from + n, m |-> m, budget |-> budget,
     enc |-> {}, dup |-> {}, stop |-> FALSE]

TrySchedule(r, from, n) ==
    LET tried[k \in 0 .. Len(Items[r])] ==
            IF k = 0 THEN TryStart(r, from, n) ELSE TryInput(tried[k - 1], k)
    IN  tried[Len(Items[r])]

Kept(t) == [r |-> t.r, from |-> t.from, n |-> t.n, budget |-> t.budget, enc |-> t.enc, dup |-> t.dup]

(* The cache with the inputs of try allocated (_allocate_encoder_inputs). *)
Allocated(c) ==
    IF try.enc = {} THEN c
    ELSE check_and_update_cache(allocate(c, try.r, try.enc), try.r, try.dup)

(* The requests R in front of the queue, in their order; a priority queue is
   sorted. *)
Sorted(R) == Without([k \in 1 .. NumReqs |-> k], Req \ R)
Enter(R, queue) == IF Priority THEN Sorted(Range(R) \cup Range(queue)) ELSE R \o queue

Stale(r) == \E k \in DOMAIN steps : \E x \in steps[k].items : x.r = r /\ ~x.live

-----------------------------------------------------------------------------
(* schedule() *)

Arrive(r) ==
    /\ phase = "idle" /\ r \notin arrived
    /\ arrived' = arrived \cup {r}
    /\ waiting' = IF Priority THEN Enter(<<r>>, waiting) ELSE Append(waiting, r)
    /\ UNCHANGED <<m, running, computed, drop, loop, worker, bounds>>

BeginSchedule ==
    /\ phase = "idle" /\ Len(steps) < Depth /\ running \o waiting # <<>>
    /\ phase' = "running" /\ cur' = 1 /\ plan' = <<>> /\ budget' = Budget /\ preempted' = FALSE
    /\ UNCHANGED <<m, queues, computed, drop, try, worker, bounds>>

(* The next running request: its tokens and encoder inputs.  Without tokens
   left after the inputs were tried, it is passed over. *)
TryRunning ==
    /\ phase = "running" /\ try = NoTry /\ cur <= Len(running)
    /\ LET r == running[cur]
       IN  IF computed[r] = Prompt[r] THEN cur' = cur + 1 /\ UNCHANGED <<m, try>>
           ELSE \E n \in 1 .. Prompt[r] - computed[r] : \E t \in {TrySchedule(r, computed[r], n)} :
                   /\ m' = t.m
                   /\ IF t.n = 0 THEN cur' = cur + 1 /\ UNCHANGED try
                      ELSE try' = Kept(t) /\ UNCHANGED cur
    /\ UNCHANGED <<queues, computed, drop, phase, plan, budget, preempted, worker, bounds>>

Planned ==
    [r \in DOMAIN plan \cup {try.r} |->
        IF r = try.r THEN [from |-> try.from, n |-> try.n, enc |-> try.enc] ELSE plan[r]]

AllocateRunning ==
    /\ phase = "running" /\ try # NoTry
    /\ m' = Allocated(m)
    /\ plan' = Planned
    /\ budget' = IF try.enc = {} THEN budget ELSE try.budget
    /\ cur' = cur + 1 /\ try' = NoTry
    /\ UNCHANGED <<queues, computed, drop, phase, preempted, worker, bounds>>

Victim == IF Priority THEN Max(Range(running)) ELSE Last(running)

(* _preempt_request *)
MarkStale(r) ==
    [k \in DOMAIN steps |->
        [steps[k] EXCEPT !.items = {IF x.r = r THEN [x EXCEPT !.live = FALSE] ELSE x : x \in @}]]

Preempt(v) ==
    /\ waiting' = Enter(<<v>>, waiting)
    /\ computed' = [computed EXCEPT ![v] = 0]
    /\ drop' = IF Stale(v) THEN drop ELSE drop \ {v}
    /\ steps' = MarkStale(v)
    /\ m' = free(m, {v})

(* No KV blocks: the victim is preempted, also when this step has already
   scheduled it; its place in the step is given up. *)
PreemptForRunning ==
    /\ phase = "running" /\ try # NoTry /\ preemptions < MaxPreemptions
    /\ LET v == Victim
           index == CHOOSE k \in DOMAIN running : running[k] = v
       IN  /\ Preempt(v) /\ running' = RemoveAt(running, index)
           /\ plan' = [r \in DOMAIN plan \ {v} |-> plan[r]]
           /\ budget' = IF v \in DOMAIN plan
                        THEN budget + SizeOf(Hashes(v, plan[v].enc))
                        ELSE budget
           /\ cur' = IF index < cur THEN cur - 1 ELSE cur
           /\ try' = IF v = try.r THEN NoTry ELSE try
           /\ phase' = IF v = try.r /\ ~Priority THEN "waiting" ELSE phase
    /\ preempted' = TRUE /\ preemptions' = preemptions + 1
    /\ UNCHANGED <<arrived, done, wcache, resets>>

(* Slip: the encoder inputs are entered before the KV blocks are there. *)
BlockedRunningEntered ==
    /\ phase = "running" /\ try # NoTry
    /\ try' = NoTry /\ phase' = "waiting" /\ cur' = 1
    /\ m' = Allocated(m)
    /\ UNCHANGED <<queues, computed, drop, plan, budget, preempted, worker, bounds>>

(* The victim's blocks cannot be freed now: the loop ends. *)
BlockedRunning ==
    /\ phase = "running" /\ try # NoTry
    /\ try' = NoTry /\ phase' = "waiting" /\ cur' = 1
    /\ UNCHANGED <<m, queues, computed, drop, plan, budget, preempted, worker, bounds>>

EndRunning ==
    /\ phase = "running" /\ try = NoTry /\ cur > Len(running)
    /\ phase' = "waiting" /\ cur' = 1
    /\ UNCHANGED <<m, queues, computed, drop, try, plan, budget, preempted, worker, bounds>>

(* The next waiting request, after a hit of any length in the prefix cache. *)
TryWaiting ==
    /\ phase = "waiting" /\ try = NoTry /\ ~preempted /\ cur <= Len(waiting)
    /\ LET r == waiting[cur]
       IN  IF Stale(r) /\ r \notin drop THEN cur' = cur + 1 /\ UNCHANGED <<m, try>>
           ELSE \E from \in 0 .. Prompt[r] - 1 : \E n \in 1 .. Prompt[r] - from :
                \E t \in {TrySchedule(r, from, n)} :
                   /\ m' = t.m
                   /\ IF t.n = 0 THEN cur' = cur + 1 /\ UNCHANGED try
                      ELSE try' = Kept(t) /\ UNCHANGED cur
    /\ UNCHANGED <<queues, computed, drop, phase, plan, budget, preempted, worker, bounds>>

AllocateWaiting ==
    /\ phase = "waiting" /\ try # NoTry
    /\ m' = Allocated(m)
    /\ plan' = Planned
    /\ budget' = IF try.enc = {} THEN budget ELSE try.budget
    /\ computed' = [computed EXCEPT ![try.r] = try.from]
    /\ running' = Append(running, try.r) /\ waiting' = Without(waiting, {try.r})
    /\ try' = NoTry
    /\ UNCHANGED <<arrived, drop, phase, cur, preempted, worker, bounds>>

PlannedHashes == UNION {Hashes(r, plan[r].enc) : r \in DOMAIN plan}

Finish(c, freed) ==
    /\ phase' = "idle" /\ cur' = 1 /\ try' = NoTry /\ plan' = <<>> /\ budget' = Budget
    /\ preempted' = FALSE
    /\ computed' = [r \in Req |-> IF r \in DOMAIN plan THEN computed[r] + plan[r].n ELSE computed[r]]
    /\ steps' = Append(steps,
           [items |-> {[r |-> r, live |-> TRUE,
                        need |-> Hashes(r, Window(r, plan[r].from, plan[r].from + plan[r].n))]
                       : r \in DOMAIN plan},
            enc |-> PlannedHashes,
            freed |-> freed, reset |-> FALSE])
    /\ m' = [c EXCEPT !.freed = {}]
    /\ UNCHANGED <<queues, drop, done, wcache, bounds>>

(* No KV blocks for a waiting request: its references are given back and the
   loop ends. *)
BlockedWaiting ==
    /\ phase = "waiting" /\ try # NoTry
    /\ LET c == free(m, {try.r}) IN Finish(c, get_freed_mm_hashes(c))

EndSchedule ==
    /\ phase = "waiting" /\ try = NoTry
    /\ Finish(m, get_freed_mm_hashes(m))

-----------------------------------------------------------------------------
(* The worker and its results *)

After(step, outputs) ==
    IF step.reset THEN {} ELSE (outputs \ step.freed) \cup step.enc

Execute ==
    /\ done < Len(steps)
    /\ wcache' = After(steps[done + 1], wcache) /\ done' = done + 1
    /\ UNCHANGED <<m, queues, computed, drop, loop, steps, bounds>>

(* update_from_output: inputs that lie before the computed tokens are freed,
   requests at the end of their prompt leave. *)
Passed(r) == {i \in m.ids[r] : Items[r][i].start + Items[r][i].len <= computed[r]}

Update ==
    /\ phase = "idle" /\ done > 0
    /\ LET live == {x.r : x \in {y \in Head(steps).items : y.live}}
           ends == {r \in live : /\ computed[r] = Prompt[r]
                                 /\ ~\E k \in 2 .. Len(steps) : \E x \in steps[k].items : x.r = r}
       IN  /\ m' = free_encoder_inputs(m, [r \in Req |-> IF r \in ends THEN m.ids[r]
                                                         ELSE IF r \in live THEN Passed(r) ELSE {}])
           /\ running' = Without(running, ends)
    /\ steps' = Tail(steps) /\ done' = done - 1
    /\ UNCHANGED <<arrived, waiting, computed, drop, loop, wcache, bounds>>

(* The client goes away. *)
Abort(r) ==
    /\ phase = "idle" /\ r \in Range(running \o waiting)
    /\ running' = Without(running, {r})
    /\ waiting' = Without(waiting, {r})
    /\ m' = free(m, {r}) /\ steps' = MarkStale(r)
    /\ UNCHANGED <<arrived, computed, drop, loop, done, wcache, bounds>>

(* _reset_caches: every running request is preempted in drop mode, then the
   manager and, after the steps it still has, the worker forget everything. *)
Reset ==
    /\ phase = "idle" /\ resets < MaxResets /\ Len(steps) < Depth
    /\ resets' = resets + 1
    /\ m' = EmptyCache
    /\ running' = <<>>
    /\ waiting' = Enter(running, waiting)
    /\ computed' = [r \in Req |-> 0]
    /\ drop' = drop \cup Range(running)
    /\ steps' = Append([k \in DOMAIN steps |->
                           [steps[k] EXCEPT !.items = {[x EXCEPT !.live = FALSE] : x \in @}]],
                       [items |-> {}, enc |-> {}, freed |-> {}, reset |-> TRUE])
    /\ UNCHANGED <<arrived, loop, done, wcache, preemptions>>

Schedule ==
    \/ BeginSchedule \/ TryRunning \/ AllocateRunning \/ PreemptForRunning \/ BlockedRunning
    \/ EndRunning \/ TryWaiting \/ AllocateWaiting \/ BlockedWaiting \/ EndSchedule

Next ==
    \/ Schedule \/ Execute \/ Update \/ Reset
    \/ \E r \in Req : Arrive(r) \/ Abort(r)

Spec == Init /\ [][Next]_vars

-----------------------------------------------------------------------------
(* Properties *)

(* Free and reclaimable slots stay between none and all of the cache, and the
   encoder budget of a step is never overdrawn. *)
TypeOK ==
    /\ m.free \in 0 .. CacheSize /\ m.freeable_slots \in 0 .. CacheSize
    /\ DOMAIN m.cached \subseteq Hash /\ \A h \in DOMAIN m.cached : m.cached[h] \subseteq Req
    /\ budget \in 0 .. Budget /\ done \in 0 .. Len(steps) /\ wcache \subseteq Hash

(* The counters are those of the entries: free space, what could be evicted,
   and the evictable entries are the unreferenced ones. *)
SlotsAccounted ==
    /\ m.free = CacheSize - SizeOf(DOMAIN m.cached)
    /\ m.freeable_slots = m.free + SizeOf(Range(m.freeable))
    /\ Range(m.freeable) = {h \in DOMAIN m.cached : m.cached[h] = {}}
    /\ IsInjective(m.freeable)

(* A request refers to an entry as long as one of its inputs does, however
   often the item is repeated. *)
ReferencesMatchInputs ==
    \A h \in DOMAIN m.cached : m.cached[h] = {r \in Req : \E i \in m.ids[r] : HashOf(r, i) = h}

(* The manager's books: slots, evictable entries and references agree with
   the inputs that the requests hold. *)
CacheAccounted == TypeOK /\ SlotsAccounted /\ ReferencesMatchInputs

(* "Encoder cache miss" is never raised: the worker has, or computes in this
   step, every output that the step's tokens need. *)
NoCacheMiss ==
    done < Len(steps) =>
        LET step == steps[done + 1]
        IN  UNION {x.need : x \in step.items} \subseteq After(step, wcache)

(* The outputs the worker holds fit into the space that the manager counts. *)
WorkerWithinCapacity == SizeOf(wcache) <= CacheSize
=============================================================================
