------------------------- MODULE MultiprocExecutor -------------------------
(***************************************************************************)
(* Calls of the engine core to its worker processes                        *)
(* (v1/executor/multiproc_executor.py).  collective_rpc broadcasts a call  *)
(* to all workers and reads the answers from one response queue per        *)
(* worker.  Nothing in an answer says which call it belongs to: answers    *)
(* are matched to calls by their order alone.  Non-blocking calls return a *)
(* future; the futures are resolved in the order of the calls.             *)
(*                                                                         *)
(* The queues are the broadcast queues of ShmRingBuffer.tla, used here by  *)
(* what BroadcastQueue.tla promises: bounded, complete and in order.       *)
(***************************************************************************)
EXTENDS Integers, Sequences, FiniteSets

CONSTANTS
    W,               \* number of workers; ranks are 0 .. W - 1
    OutputRank,      \* output_rank: the worker that answers for all of them
    Capacity,        \* max_chunks of the queues
    AsyncOutput,     \* workers answer from a separate thread
    FaultTolerance,  \* enable_fault_tolerance
    Deaths,          \* a worker process may die
    MaxCalls,        \* bound: calls
    MaxPending       \* futures that the engine core leaves unresolved

Rank == 0 .. W - 1
AllRanks == W   \* no unique_reply_rank: every worker answers

ASSUME ExecutorAssumption ==
    /\ W \in Nat \ {0} /\ OutputRank \in Rank /\ Capacity \in Nat \ {0}
    /\ {AsyncOutput, FaultTolerance, Deaths} \subseteq BOOLEAN
    /\ MaxCalls \in Nat /\ MaxPending \in Nat

VARIABLES
    reply,      \* reply[k]: OutputRank, or AllRanks, for call k
    rpc,        \* rpc[w]: calls on their way to worker w
    running,    \* running[w]: the call that worker w executes, or 0
    output,     \* output[w]: async_output_queue of worker w
    response,   \* response[w]: worker_response_mq, read by the executor
    dead,       \* workers that died
    isFailed,   \* is_failed
    cancelled,  \* the response queues were shut down
    futures,    \* futures_queue, oldest first
    future,     \* future[k]: state of the future of call k
    awaited,    \* the call whose result() the engine core is in, or 0
    cur         \* the future whose answers are being read

vars == <<reply, rpc, running, output, response, dead, isFailed, cancelled, futures,
          future, awaited, cur>>
workerVars == <<rpc, running, output, response, dead>>

Nobody == [k |-> 0, todo |-> <<>>, got |-> <<>>, failed |-> FALSE]

Init ==
    /\ reply = <<>>
    /\ rpc = [w \in Rank |-> <<>>]
    /\ running = [w \in Rank |-> 0]
    /\ output = [w \in Rank |-> <<>>]
    /\ response = [w \in Rank |-> <<>>]
    /\ dead = {} /\ isFailed = FALSE /\ cancelled = FALSE
    /\ futures = <<>> /\ future = <<>> /\ awaited = 0 /\ cur = Nobody

-----------------------------------------------------------------------------
(* The executor, called by the engine-core thread *)

(* collective_rpc: broadcast, then append a future and wait for it unless
   non_block.  The code blocks in enqueue while the queue is full; here the
   call is made when there is room. *)
Call(r, block) ==
    /\ awaited = 0 /\ ~isFailed /\ Len(reply) < MaxCalls
    /\ block \/ Len(futures) < MaxPending
    /\ \A w \in Rank : Len(rpc[w]) < Capacity
    /\ LET k == Len(reply) + 1
       IN  /\ reply' = Append(reply, r)
           /\ rpc' = [w \in Rank |-> Append(rpc[w], k)]
           /\ futures' = Append(futures, k)
           /\ future' = Append(future, [state |-> "pending", got |-> <<>>])
           /\ awaited' = IF block THEN k ELSE 0
    /\ UNCHANGED <<running, output, response, dead, isFailed, cancelled, cur>>

Result(k) ==
    /\ awaited = 0 /\ k \in DOMAIN future /\ future[k].state = "pending"
    /\ awaited' = k
    /\ UNCHANGED <<reply, workerVars, isFailed, cancelled, futures, future, cur>>

(* FutureWrapper.result: resolve the futures ahead of this one first. *)
RanksOf(k) == IF reply[k] = AllRanks THEN [i \in 1 .. W |-> i - 1] ELSE <<reply[k]>>

PopFuture ==
    /\ awaited # 0 /\ cur = Nobody
    /\ future[awaited].state = "pending"
    /\ cur' = [Nobody EXCEPT !.k = Head(futures), !.todo = RanksOf(Head(futures))]
    /\ futures' = Tail(futures)
    /\ UNCHANGED <<reply, workerVars, isFailed, cancelled, future, awaited>>

Return ==
    /\ awaited # 0 /\ cur = Nobody
    /\ future[awaited].state # "pending"
    /\ awaited' = 0
    /\ UNCHANGED <<reply, workerVars, isFailed, cancelled, futures, future, cur>>

Resolve(state, got) ==
    /\ future' = [future EXCEPT ![cur.k] = [state |-> state, got |-> got]]
    /\ cur' = Nobody

(* Slip: raise at the first failure with fault tolerance too. *)
EndsAtFirstFailure(answer) == ~answer.ok

(* get_response reads one answer per rank.  A failed one ends it at once,
   except with fault tolerance, which reads the rest first. *)
EndsNow(answer) == ~answer.ok /\ (~FaultTolerance \/ isFailed)

ReadResponse ==
    /\ cur # Nobody /\ cur.todo # <<>>
    /\ LET w == Head(cur.todo)
           answer == Head(response[w])
           got == Append(cur.got, answer.k)
           failed == cur.failed \/ ~answer.ok
       IN  /\ response[w] # <<>>
           /\ response' = [response EXCEPT ![w] = Tail(@)]
           /\ IF EndsNow(answer) THEN Resolve("error", got)
              ELSE IF Len(cur.todo) = 1 THEN Resolve(IF failed THEN "error" ELSE "result", got)
              ELSE /\ cur' = [cur EXCEPT !.todo = Tail(@), !.got = got, !.failed = failed]
                   /\ UNCHANGED future
    /\ UNCHANGED <<reply, rpc, running, output, dead, isFailed, cancelled, futures, awaited>>

(* The deadline of the call passes before the next answer is there.  The
   answers that were not read stay behind in the queues. *)
ReadTimesOut ==
    /\ cur # Nobody /\ cur.todo # <<>>
    /\ response[Head(cur.todo)] = <<>>
    /\ Resolve("timeout", cur.got)
    /\ UNCHANGED <<reply, workerVars, isFailed, cancelled, futures, awaited>>

(* The queue was shut down while the thread waits on it. *)
ReadCancelled ==
    /\ cur # Nobody /\ cur.todo # <<>>
    /\ response[Head(cur.todo)] = <<>> /\ cancelled
    /\ Resolve("error", cur.got)
    /\ UNCHANGED <<reply, workerVars, isFailed, cancelled, futures, awaited>>

(* MultiprocWorkerMonitor: a worker died, so the executor shuts down. *)
MonitorSeesDeath ==
    /\ dead # {} /\ ~isFailed
    /\ isFailed' = TRUE
    /\ UNCHANGED <<reply, workerVars, cancelled, futures, future, awaited, cur>>

(* Slip: the response queues are dropped without being shut down. *)
ShutdownWithoutCancel ==
    /\ isFailed /\ ~cancelled
    /\ dead' = Rank
    /\ UNCHANGED <<reply, rpc, running, output, response, isFailed, cancelled, futures,
                   future, awaited, cur>>

(* shutdown: the remaining workers are stopped first, then the queues. *)
Shutdown ==
    /\ isFailed /\ ~cancelled
    /\ dead' = Rank /\ cancelled' = TRUE
    /\ UNCHANGED <<reply, rpc, running, output, response, isFailed, futures, future,
                   awaited, cur>>

-----------------------------------------------------------------------------
(* A worker: worker_busy_loop, _execute_worker_rpc and handle_output *)

Replies(w, k) == reply[k] \in {AllRanks, w}

Dequeue(w) ==
    /\ w \notin dead /\ running[w] = 0 /\ rpc[w] # <<>>
    /\ running' = [running EXCEPT ![w] = Head(rpc[w])]
    /\ rpc' = [rpc EXCEPT ![w] = Tail(@)]
    /\ UNCHANGED <<reply, output, response, dead, isFailed, cancelled, futures, future,
                   awaited, cur>>

(* The method returned or raised: answer, if this rank is to answer. *)
Execute(w) ==
    /\ w \notin dead /\ running[w] # 0
    /\ \E ok \in BOOLEAN :
         LET answer == [k |-> running[w], ok |-> ok]
         IN  IF ~Replies(w, running[w]) THEN UNCHANGED <<output, response>>
             ELSE IF AsyncOutput
             THEN /\ output' = [output EXCEPT ![w] = Append(@, answer)]
                  /\ UNCHANGED response
             ELSE /\ Len(response[w]) < Capacity
                  /\ response' = [response EXCEPT ![w] = Append(@, answer)]
                  /\ UNCHANGED output
    /\ running' = [running EXCEPT ![w] = 0]
    /\ UNCHANGED <<reply, rpc, dead, isFailed, cancelled, futures, future, awaited, cur>>

(* async_output_busy_loop *)
EnqueueOutput(w) ==
    /\ w \notin dead /\ output[w] # <<>> /\ Len(response[w]) < Capacity
    /\ response' = [response EXCEPT ![w] = Append(@, Head(output[w]))]
    /\ output' = [output EXCEPT ![w] = Tail(@)]
    /\ UNCHANGED <<reply, rpc, running, dead, isFailed, cancelled, futures, future,
                   awaited, cur>>

Die(w) ==
    /\ Deaths /\ dead = {}
    /\ dead' = {w}
    /\ UNCHANGED <<reply, rpc, running, output, response, isFailed, cancelled, futures, future,
                   awaited, cur>>

-----------------------------------------------------------------------------
Executor == PopFuture \/ Return \/ ReadResponse

Next ==
    \/ \E r \in {OutputRank, AllRanks}, block \in BOOLEAN : Call(r, block)
    \/ \E k \in 1 .. MaxCalls : Result(k)
    \/ Executor \/ ReadTimesOut \/ ReadCancelled
    \/ MonitorSeesDeath \/ Shutdown
    \/ \E w \in Rank : Dequeue(w) \/ Execute(w) \/ EnqueueOutput(w) \/ Die(w)

(* Threads run, and a reader of a queue that was shut down is woken. *)
Fairness ==
    /\ WF_vars(Executor) /\ WF_vars(ReadCancelled)
    /\ WF_vars(MonitorSeesDeath) /\ WF_vars(Shutdown)
    /\ \A w \in Rank : WF_vars(Dequeue(w)) /\ WF_vars(Execute(w)) /\ WF_vars(EnqueueOutput(w))

Spec == Init /\ [][Next]_vars /\ Fairness

-----------------------------------------------------------------------------
(* Properties *)

(* Every call has its future, and no queue holds more than max_chunks. *)
TypeOK ==
    /\ \A k \in DOMAIN reply : reply[k] \in Rank \cup {AllRanks}
    /\ DOMAIN future = DOMAIN reply
    /\ \A w \in Rank : Len(rpc[w]) <= Capacity /\ Len(response[w]) <= Capacity
    /\ dead \subseteq Rank /\ awaited \in 0 .. Len(reply) /\ cur.k \in 0 .. Len(reply)

(* Call k ended without reading the answer of w to it. *)
LeftUnread(k, w) ==
    /\ future[k].state # "pending"
    /\ \E i \in Len(future[k].got) + 1 .. Len(RanksOf(k)) : RanksOf(k)[i] = w

(* A call before call k did. *)
Skipped(k, w) == \E j \in 1 .. k - 1 : LeftUnread(j, w)

(* "A list containing the results from each worker" (Executor.collective_rpc):
   a call that returns has heard all of its workers, and what it heard from one
   is the answer to this very call exactly as long as no earlier call left an
   answer of that worker behind.  From then on every answer of this worker goes
   to a later call than its own. *)
AnswersBelongToCall ==
    \A k \in DOMAIN future :
        /\ future[k].state = "result" => Len(future[k].got) = Len(RanksOf(k))
        /\ \A i \in DOMAIN future[k].got :
              future[k].got[i] = k <=> ~Skipped(k, RanksOf(k)[i])

(* With fault tolerance get_response reads the other workers' answers although
   one has failed: until a worker dies only a timeout leaves answers behind. *)
FailureReadsAll ==
    \A k \in DOMAIN future :
        FaultTolerance /\ ~isFailed /\ future[k].state = "error" =>
            Len(future[k].got) = Len(RanksOf(k))

(* Whatever order result() is called in, FutureWrapper resolves the calls in
   the order they were made: the queues hold the answers in that order. *)
ResolvedInOrder ==
    \A j, k \in DOMAIN future :
        j < k /\ future[j].state = "pending" => future[k].state = "pending"

(* Answers are paired with calls by order alone: futures are resolved in call
   order, each gets the answers to its own call until an answer was left
   behind, and with fault tolerance a failure leaves none behind. *)
AnswersMatched == TypeOK /\ AnswersBelongToCall /\ FailureReadsAll /\ ResolvedInOrder

(* result() comes back, also when a worker dies while it waits: the engine
   core does not wait for a worker that waits for the engine core. *)
ResultReturns == awaited # 0 ~> awaited = 0
=============================================================================
