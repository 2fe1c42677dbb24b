----------------------- MODULE MultiprocExecutorProofs -----------------------
(***************************************************************************)
(* Proofs about the calls to worker processes, for any number of workers,  *)
(* calls and pending futures and any capacity of the queues.               *)
(***************************************************************************)
EXTENDS MultiprocExecutor, SequenceTheorems, TLAPS

Answer == [k : Nat, ok : BOOLEAN]
Outcome == [state : {"pending", "result", "error", "timeout"}, got : Seq(Nat)]
Calls == 1 .. Len(reply)

(* What the variables may hold. *)
TypeInv ==
    /\ reply \in Seq(Rank \cup {AllRanks})
    /\ rpc \in [Rank -> Seq(Nat)] /\ running \in [Rank -> Nat]
    /\ output \in [Rank -> Seq(Answer)] /\ response \in [Rank -> Seq(Answer)]
    /\ \A w \in Rank : Len(rpc[w]) <= Capacity /\ Len(response[w]) <= Capacity
    /\ \A w \in Rank : AsyncOutput \/ output[w] = <<>>
    /\ dead \subseteq Rank /\ isFailed \in BOOLEAN /\ cancelled \in BOOLEAN
    /\ futures \in Seq(Nat) /\ future \in Seq(Outcome)
    /\ awaited \in 0 .. Len(reply)
    /\ cur \in [k : Nat, todo : Seq(Rank), got : Seq(Nat), failed : BOOLEAN]
    /\ cancelled => isFailed

(* The last call whose future has left futures_queue. *)
Popped == Len(reply) - Len(futures)

(* futures_queue holds the calls after Popped, in order; they and the call
   whose answers are being read are the ones that are not resolved. *)
FuturesInv ==
    /\ Popped >= 0 /\ Len(future) = Len(reply)
    /\ \A i \in 1 .. Len(futures) : futures[i] = Popped + i
    /\ \A k \in Calls :
          future[k].state = "pending" <=> k > Popped \/ (cur # Nobody /\ k = Popped)
    /\ cur # Nobody => cur.k = Popped /\ Popped > 0 /\ cur.todo # <<>> /\ awaited # 0

(* The ranks that the executor still has to hear are the last ones of the
   ranks that answer the call. *)
ReadingInv ==
    cur # Nobody =>
        /\ Len(cur.got) + Len(cur.todo) = Len(RanksOf(Popped))
        /\ \A i \in 1 .. Len(cur.todo) : cur.todo[i] = RanksOf(Popped)[Len(cur.got) + i]

(* What the executor has heard: the answers to the call, except from workers
   of which an earlier call left an answer behind. *)
HeardInv ==
    /\ cur # Nobody =>
          \A i \in 1 .. Len(cur.got) : cur.got[i] = Popped <=> ~Skipped(Popped, RanksOf(Popped)[i])
    /\ \A k \in Calls :
          /\ future[k].state = "pending" => future[k].got = <<>>
          /\ future[k].state = "result" => Len(future[k].got) = Len(RanksOf(k))
          /\ \A i \in 1 .. Len(future[k].got) : future[k].got[i] = k <=> ~Skipped(k, RanksOf(k)[i])

(* With fault tolerance a failure does not leave answers behind. *)
FailureInv ==
    FaultTolerance /\ ~isFailed =>
        \A k \in Calls : future[k].state = "error" => Len(future[k].got) = Len(RanksOf(k))

(* A worker gets the calls in order: it has executed all up to Executed(w),
   is executing at most the next one, and the others are in its queue. *)
Dequeued(w) == Len(reply) - Len(rpc[w])
Executed(w) == Dequeued(w) - (IF running[w] # 0 THEN 1 ELSE 0)

CallsInv(w) ==
    /\ Executed(w) >= 0
    /\ \A i \in 1 .. Len(rpc[w]) : rpc[w][i] = Dequeued(w) + i
    /\ running[w] \in {0, Dequeued(w)}

(* The last call that the executor is done with as far as w is concerned. *)
IsAwaited(w) == cur # Nobody /\ \E i \in 1 .. Len(cur.todo) : cur.todo[i] = w
Read(w) == Popped - (IF IsAwaited(w) THEN 1 ELSE 0)

InFlight(w) == response[w] \o output[w]

(* The executor has not heard the answer of w to call k, although w has given
   it or is going to, unless it dies. *)
Unread(w, k) ==
    Replies(w, k) /\ (k > Executed(w) \/ \E i \in 1 .. Len(InFlight(w)) : InFlight(w)[i].k = k)

(* Some call left an answer of w behind. *)
Behind(w) == \E j \in Calls : LeftUnread(j, w)

(* On their way are answers to calls that w has executed, in the order of the
   calls, among them all that answer a call the executor has not asked w about.
   There are answers to earlier calls exactly if one was left behind. *)
AnswersInv(w) ==
    /\ \A i, j \in 1 .. Len(InFlight(w)) : i < j => InFlight(w)[i].k < InFlight(w)[j].k
    /\ \A i \in 1 .. Len(InFlight(w)) :
          /\ InFlight(w)[i].k \in Calls /\ Replies(w, InFlight(w)[i].k)
          /\ InFlight(w)[i].k <= Executed(w)
    /\ \A k \in Calls :
          Replies(w, k) /\ Read(w) < k /\ k <= Executed(w) =>
              \E i \in 1 .. Len(InFlight(w)) : InFlight(w)[i].k = k
    /\ Behind(w) <=> \E k \in Calls : k <= Read(w) /\ Unread(w, k)

MatchInv ==
    /\ TypeInv /\ FuturesInv /\ ReadingInv /\ HeardInv /\ FailureInv
    /\ \A w \in Rank : CallsInv(w) /\ AnswersInv(w)
-----------------------------------------------------------------------------
(* Putting an answer at the end of a worker's answers, moving one from the
   output queue to the response queue, and taking the first one away. *)
LEMMA ConcatAdd ==
    ASSUME NEW S, NEW r \in Seq(S), NEW o \in Seq(S), NEW a \in S
    PROVE  /\ Len(r \o Append(o, a)) = Len(r \o o) + 1
           /\ \A i \in 1 .. Len(r \o o) : (r \o Append(o, a))[i] = (r \o o)[i]
           /\ (r \o Append(o, a))[Len(r \o o) + 1] = a
<1> DEFINE t == Append(o, a)
<1>1. /\ t \in Seq(S) /\ Len(t) = Len(o) + 1
      /\ \A i \in 1 .. Len(o) : t[i] = o[i]
      /\ t[Len(o) + 1] = a
  BY AppendProperties
<1> HIDE DEF t
<1>2. Len(r) \in Nat /\ Len(o) \in Nat
  OBVIOUS
<1>3. /\ Len(r \o o) = Len(r) + Len(o)
      /\ \A i \in 1 .. Len(r) + Len(o) : (r \o o)[i] = IF i <= Len(r) THEN r[i] ELSE o[i - Len(r)]
  BY ConcatProperties
<1>4. /\ Len(r \o t) = Len(r) + Len(t)
      /\ \A i \in 1 .. Len(r) + Len(t) : (r \o t)[i] = IF i <= Len(r) THEN r[i] ELSE t[i - Len(r)]
  BY <1>1, ConcatProperties
<1>5. ASSUME NEW i \in 1 .. Len(r \o o)
      PROVE  (r \o t)[i] = (r \o o)[i]
  <2>1. i \in 1 .. Len(r) + Len(o) /\ i \in 1 .. Len(r) + Len(t)
    BY <1>1, <1>2, <1>3
  <2>2. ~(i <= Len(r)) => i - Len(r) \in 1 .. Len(o)
    BY <1>2, <2>1
  <2> QED BY <1>1, <1>3, <1>4, <2>1, <2>2
<1>6. (r \o t)[Len(r \o o) + 1] = a
  <2> DEFINE n == Len(r) + Len(t)
  <2>1. n \in 1 .. Len(r) + Len(t) /\ ~(n <= Len(r)) /\ n - Len(r) = Len(o) + 1 /\ n = Len(r \o o) + 1
    BY <1>1, <1>2, <1>3
  <2> HIDE DEF n
  <2> QED BY <1>1, <1>4, <2>1
<1>7. Len(r \o t) = Len(r \o o) + 1
  BY <1>1, <1>2, <1>3, <1>4
<1> QED BY <1>5, <1>6, <1>7 DEF t

LEMMA ConcatMove ==
    ASSUME NEW S, NEW r \in Seq(S), NEW o \in Seq(S), o # <<>>
    PROVE  Append(r, Head(o)) \o Tail(o) = r \o o
<1> DEFINE t == Append(r, Head(o))
           u == Tail(o)
<1>1. /\ Head(o) \in S /\ Head(o) = o[1] /\ u \in Seq(S) /\ Len(u) = Len(o) - 1
      /\ \A i \in 1 .. Len(u) : u[i] = o[i + 1]
  BY HeadTailProperties
<1>2. /\ t \in Seq(S) /\ Len(t) = Len(r) + 1
      /\ \A i \in 1 .. Len(r) : t[i] = r[i]
      /\ t[Len(r) + 1] = o[1]
  BY <1>1, AppendProperties
<1> HIDE DEF t, u
<1>3. Len(r) \in Nat /\ Len(o) \in Nat /\ Len(o) > 0
  OBVIOUS
<1>4. /\ r \o o \in Seq(S) /\ Len(r \o o) = Len(r) + Len(o)
      /\ \A i \in 1 .. Len(r) + Len(o) : (r \o o)[i] = IF i <= Len(r) THEN r[i] ELSE o[i - Len(r)]
  BY ConcatProperties
<1>5. /\ t \o u \in Seq(S) /\ Len(t \o u) = Len(t) + Len(u)
      /\ \A i \in 1 .. Len(t) + Len(u) : (t \o u)[i] = IF i <= Len(t) THEN t[i] ELSE u[i - Len(t)]
  BY <1>1, <1>2, ConcatProperties
<1>6. Len(t \o u) = Len(r \o o)
  BY <1>1, <1>2, <1>3, <1>4, <1>5
<1>7. ASSUME NEW i \in 1 .. Len(r \o o)
      PROVE  (t \o u)[i] = (r \o o)[i]
  <2>1. i \in 1 .. Len(r) + Len(o) /\ i \in 1 .. Len(t) + Len(u)
    BY <1>4, <1>5, <1>6
  <2>2. CASE i <= Len(r)
    <3>1. i <= Len(t) /\ i \in 1 .. Len(r)
      BY <1>2, <1>3, <2>1, <2>2
    <3> QED BY <1>2, <1>4, <1>5, <2>1, <2>2, <3>1
  <2>3. CASE i = Len(r) + 1
    <3>1. i <= Len(t) /\ ~(i <= Len(r)) /\ i - Len(r) = 1
      BY <1>2, <1>3, <2>1, <2>3
    <3> QED BY <1>2, <1>4, <1>5, <2>1, <2>3, <3>1
  <2>4. CASE i > Len(r) + 1
    <3>1. ~(i <= Len(t)) /\ ~(i <= Len(r)) /\ i - Len(t) \in 1 .. Len(u) /\ (i - Len(t)) + 1 = i - Len(r)
      BY <1>1, <1>2, <1>3, <2>1, <2>4
    <3>2. u[i - Len(t)] = o[i - Len(r)]
      BY <1>1, <3>1
    <3> QED BY <1>4, <1>5, <2>1, <3>1, <3>2
  <2> QED BY <1>3, <2>1, <2>2, <2>3, <2>4
<1>8. t \o u = r \o o
  BY <1>4, <1>5, <1>6, <1>7, SeqEqual
<1> QED BY <1>8 DEF t, u

LEMMA ConcatTake ==
    ASSUME NEW S, NEW r \in Seq(S), NEW o \in Seq(S), r # <<>>
    PROVE  /\ Len(r \o o) > 0 /\ Head(r) = (r \o o)[1] /\ Head(r) \in S
           /\ Len(Tail(r) \o o) = Len(r \o o) - 1
           /\ \A i \in 1 .. Len(r \o o) - 1 : (Tail(r) \o o)[i] = (r \o o)[i + 1]
<1> DEFINE t == Tail(r)
<1>1. /\ Head(r) \in S /\ Head(r) = r[1] /\ t \in Seq(S) /\ Len(t) = Len(r) - 1
      /\ \A i \in 1 .. Len(t) : t[i] = r[i + 1]
  BY HeadTailProperties
<1> HIDE DEF t
<1>2. Len(r) \in Nat /\ Len(o) \in Nat /\ Len(r) > 0
  OBVIOUS
<1>3. /\ Len(r \o o) = Len(r) + Len(o)
      /\ \A i \in 1 .. Len(r) + Len(o) : (r \o o)[i] = IF i <= Len(r) THEN r[i] ELSE o[i - Len(r)]
  BY ConcatProperties
<1>4. /\ Len(t \o o) = Len(t) + Len(o)
      /\ \A i \in 1 .. Len(t) + Len(o) : (t \o o)[i] = IF i <= Len(t) THEN t[i] ELSE o[i - Len(t)]
  BY <1>1, ConcatProperties
<1>5. Len(r \o o) > 0 /\ Len(t \o o) = Len(r \o o) - 1
  BY <1>1, <1>2, <1>3, <1>4
<1>6. Head(r) = (r \o o)[1]
  <2>1. 1 \in 1 .. Len(r) + Len(o) /\ 1 <= Len(r)
    BY <1>2
  <2> QED BY <1>1, <1>3, <2>1
<1>7. ASSUME NEW i \in 1 .. Len(r \o o) - 1
      PROVE  (t \o o)[i] = (r \o o)[i + 1]
  <2>1. i \in 1 .. Len(t) + Len(o) /\ i + 1 \in 1 .. Len(r) + Len(o)
    BY <1>1, <1>2, <1>3
  <2>2. CASE i <= Len(t)
    <3>1. i \in 1 .. Len(t) /\ i + 1 <= Len(r)
      BY <1>1, <1>2, <2>1, <2>2
    <3> QED BY <1>1, <1>3, <1>4, <2>1, <2>2, <3>1
  <2>3. CASE ~(i <= Len(t))
    <3>1. ~(i + 1 <= Len(r)) /\ i - Len(t) = (i + 1) - Len(r)
      BY <1>1, <1>2, <2>1, <2>3
    <3> QED BY <1>3, <1>4, <2>1, <2>3, <3>1
  <2> QED BY <2>2, <2>3
<1> QED BY <1>1, <1>5, <1>6, <1>7 DEF t
-----------------------------------------------------------------------------
(* The quantities of the invariant are numbers and sequences. *)
LEMMA MatchTypes ==
    ASSUME MatchInv
    PROVE  /\ Len(reply) \in Nat /\ Len(futures) \in Nat /\ Popped \in Nat /\ Popped <= Len(reply)
           /\ Len(futures) = Len(reply) - Popped
           /\ \A w \in Rank :
                /\ Len(rpc[w]) \in Nat /\ Dequeued(w) \in Nat /\ Executed(w) \in Nat
                /\ Executed(w) <= Dequeued(w) /\ Dequeued(w) <= Len(reply)
                /\ Len(rpc[w]) = Len(reply) - Dequeued(w)
                /\ Read(w) \in Int /\ Read(w) <= Popped
                /\ InFlight(w) \in Seq(Answer)
                /\ \A i \in 1 .. Len(InFlight(w)) :
                      InFlight(w)[i].k \in Nat /\ InFlight(w)[i].ok \in BOOLEAN
<1>1. /\ reply \in Seq(Rank \cup {AllRanks}) /\ futures \in Seq(Nat) /\ Popped >= 0
      /\ rpc \in [Rank -> Seq(Nat)]
      /\ output \in [Rank -> Seq(Answer)] /\ response \in [Rank -> Seq(Answer)]
      /\ \A w \in Rank : Executed(w) >= 0
  BY DEF MatchInv, TypeInv, FuturesInv, CallsInv
<1>2. /\ Len(reply) \in Nat /\ Len(futures) \in Nat /\ Popped \in Nat /\ Popped <= Len(reply)
      /\ Len(futures) = Len(reply) - Popped
  BY <1>1 DEF Popped
<1>3. ASSUME NEW w \in Rank
      PROVE  /\ Len(rpc[w]) \in Nat /\ Dequeued(w) \in Nat /\ Executed(w) \in Nat
             /\ Executed(w) <= Dequeued(w) /\ Dequeued(w) <= Len(reply)
             /\ Len(rpc[w]) = Len(reply) - Dequeued(w)
  <2>1. Len(rpc[w]) \in Nat
    BY <1>1
  <2>2. Dequeued(w) \in Int /\ Dequeued(w) <= Len(reply) /\ Len(rpc[w]) = Len(reply) - Dequeued(w)
    BY <1>2, <2>1 DEF Dequeued
  <2>3. Executed(w) \in Int /\ Executed(w) <= Dequeued(w)
    BY <2>2 DEF Executed
  <2> QED BY <1>1, <2>1, <2>2, <2>3
<1>4. ASSUME NEW w \in Rank
      PROVE  Read(w) \in Int /\ Read(w) <= Popped
  BY <1>2 DEF Read
<1>5. ASSUME NEW w \in Rank
      PROVE  InFlight(w) \in Seq(Answer)
  BY <1>1, ConcatProperties DEF InFlight
<1>6. ASSUME NEW w \in Rank, NEW i \in 1 .. Len(InFlight(w))
      PROVE  InFlight(w)[i].k \in Nat /\ InFlight(w)[i].ok \in BOOLEAN
  <2>1. InFlight(w)[i] \in Answer
    BY <1>5, ElementOfSeq
  <2> QED BY <2>1 DEF Answer
<1> QED BY <1>2, <1>3, <1>4, <1>5, <1>6

(* get_response reads the ranks that answer the call, each once. *)
LEMMA RanksOfProperties ==
    ASSUME TypeInv, NEW k \in Calls
    PROVE  /\ RanksOf(k) \in Seq(Rank) /\ Len(RanksOf(k)) \in Nat /\ RanksOf(k) # <<>>
           /\ Len(RanksOf(k)) > 0
           /\ \A i, j \in 1 .. Len(RanksOf(k)) : RanksOf(k)[i] = RanksOf(k)[j] => i = j
           /\ \A w \in Rank : Replies(w, k) <=> \E i \in 1 .. Len(RanksOf(k)) : RanksOf(k)[i] = w
<1>1. reply[k] \in Rank \cup {AllRanks}
  <2>1. reply \in Seq(Rank \cup {AllRanks})
    BY DEF TypeInv
  <2> QED BY <2>1, ElementOfSeq DEF Calls
<1> USE ExecutorAssumption DEF Rank, AllRanks
<1>2. CASE reply[k] = AllRanks
  <2> DEFINE s == [i \in 1 .. W |-> i - 1]
  <2>1. RanksOf(k) = s
    BY <1>2 DEF RanksOf
  <2>2. s \in Seq(Rank) /\ Len(s) = W /\ \A i \in 1 .. W : s[i] = i - 1
    <3>1. \A i \in 1 .. W : i - 1 \in Rank
      OBVIOUS
    <3> QED BY <3>1
  <2> HIDE DEF s
  <2>3. \A w \in Rank : w + 1 \in 1 .. W /\ s[w + 1] = w
    BY <2>2
  <2>4. \A i, j \in 1 .. W : s[i] = s[j] => i = j
    BY <2>2
  <2>5. \A w \in Rank : Replies(w, k)
    BY <1>2 DEF Replies
  <2>6. s # <<>>
    BY <2>2
  <2> QED BY <2>1, <2>2, <2>3, <2>4, <2>5, <2>6
<1>3. CASE reply[k] # AllRanks
  <2>1. RanksOf(k) = <<reply[k]>> /\ reply[k] \in Rank
    BY <1>1, <1>3 DEF RanksOf
  <2>2. \A w \in Rank : Replies(w, k) <=> reply[k] = w
    BY <1>3 DEF Replies
  <2>3. Len(<<reply[k]>>) = 1 /\ <<reply[k]>>[1] = reply[k] /\ <<reply[k]>> \in Seq(Rank)
    BY <2>1
  <2> QED BY <2>1, <2>2, <2>3
<1> QED BY <1>2, <1>3

(* What was left behind is a matter of the futures. *)
LEMMA LeftFrame ==
    ASSUME UNCHANGED <<reply, future>>
    PROVE  /\ \A j, w : LeftUnread(j, w)' <=> LeftUnread(j, w)
           /\ \A k, w : Skipped(k, w)' <=> Skipped(k, w)
           /\ \A w : Behind(w)' <=> Behind(w)
<1>1. \A j, w : LeftUnread(j, w)' <=> LeftUnread(j, w)
  BY DEF LeftUnread, RanksOf
<1>2. Calls' = Calls
  BY DEF Calls
<1>3. \A k, w : Skipped(k, w)' <=> Skipped(k, w)
  BY <1>1 DEF Skipped
<1>4. \A w : Behind(w)' <=> Behind(w)
  BY <1>1, <1>2 DEF Behind
<1> QED BY <1>1, <1>3, <1>4

(* A step of a worker leaves the executor's side as it is ... *)
LEMMA ExecutorFrame ==
    ASSUME MatchInv, UNCHANGED <<reply, futures, future, cur>>, awaited # 0 => awaited' # 0,
           isFailed => isFailed', isFailed' \in BOOLEAN
    PROVE  /\ FuturesInv' /\ ReadingInv' /\ HeardInv' /\ FailureInv'
           /\ \A w \in Rank : Read(w)' = Read(w)
<1>1. Popped' = Popped /\ Calls' = Calls /\ \A k : RanksOf(k)' = RanksOf(k)
  BY DEF Popped, Calls, RanksOf
<1>2. FuturesInv'
  BY <1>1 DEF MatchInv, FuturesInv, Nobody
<1>3. ReadingInv'
  BY <1>1 DEF MatchInv, ReadingInv, Nobody
<1>4. HeardInv'
  <2>1. \A k, w : Skipped(k, w)' <=> Skipped(k, w)
    BY LeftFrame
  <2> QED BY <1>1, <2>1 DEF MatchInv, HeardInv, Nobody
<1>5. FailureInv'
  BY <1>1 DEF MatchInv, FailureInv
<1>6. \A w \in Rank : Read(w)' = Read(w)
  BY <1>1 DEF Read, IsAwaited, Nobody
<1> QED BY <1>2, <1>3, <1>4, <1>5, <1>6

(* ... and a step of the executor the calls that are on their way. *)
LEMMA WorkerFrame ==
    ASSUME NEW w, CallsInv(w), UNCHANGED reply, rpc'[w] = rpc[w], running'[w] = running[w]
    PROVE  CallsInv(w)' /\ Executed(w)' = Executed(w)
<1>1. Dequeued(w)' = Dequeued(w)
  BY DEF Dequeued
<1>2. Executed(w)' = Executed(w)
  BY <1>1 DEF Executed
<1> QED BY <1>1, <1>2 DEF CallsInv

LEMMA AnswersFrame ==
    ASSUME NEW w, AnswersInv(w), UNCHANGED reply, InFlight(w)' = InFlight(w),
           Read(w)' = Read(w), Executed(w)' = Executed(w), Behind(w)' <=> Behind(w)
    PROVE  AnswersInv(w)'
<1>1. Calls' = Calls /\ \A k : Replies(w, k)' <=> Replies(w, k)
  BY DEF Calls, Replies
<1>2. \A k : Unread(w, k)' <=> Unread(w, k)
  BY <1>1 DEF Unread
<1>3. \A i \in 1 .. Len(InFlight(w)) :
         InFlight(w)[i].k \in Calls' /\ reply'[InFlight(w)[i].k] \in {AllRanks, w}
  BY <1>1 DEF AnswersInv, Replies
<1> QED BY <1>1, <1>2, <1>3 DEF AnswersInv, Replies

LEMMA MatchInit == Init => MatchInv
<1> SUFFICES ASSUME Init PROVE MatchInv
  OBVIOUS
<1> USE ExecutorAssumption DEF Init
<1>1. Len(reply) = 0 /\ Len(futures) = 0 /\ Popped = 0 /\ Calls = {}
  BY DEF Popped, Calls
<1>2. TypeInv
  <2>1. Nobody \in [k : Nat, todo : Seq(Rank), got : Seq(Nat), failed : BOOLEAN]
    BY DEF Nobody
  <2>2. /\ rpc \in [Rank -> Seq(Nat)] /\ running \in [Rank -> Nat]
        /\ output \in [Rank -> Seq(Answer)] /\ response \in [Rank -> Seq(Answer)]
    OBVIOUS
  <2>3. \A w \in Rank : Len(rpc[w]) <= Capacity /\ Len(response[w]) <= Capacity /\ output[w] = <<>>
    OBVIOUS
  <2>4. reply \in Seq(Rank \cup {AllRanks}) /\ futures \in Seq(Nat) /\ future \in Seq(Outcome)
    OBVIOUS
  <2>5. awaited \in 0 .. Len(reply) /\ dead \subseteq Rank
    BY <1>1
  <2>6. isFailed \in BOOLEAN /\ cancelled \in BOOLEAN /\ (cancelled => isFailed)
    OBVIOUS
  <2>7. cur \in [k : Nat, todo : Seq(Rank), got : Seq(Nat), failed : BOOLEAN]
    BY <2>1
  <2> HIDE DEF Init
  <2> QED BY <2>2, <2>3, <2>4, <2>5, <2>6, <2>7 DEF TypeInv
<1>3. FuturesInv /\ ReadingInv /\ HeardInv /\ FailureInv
  BY <1>1 DEF FuturesInv, ReadingInv, HeardInv, FailureInv
<1>4. ASSUME NEW w \in Rank
      PROVE  CallsInv(w) /\ AnswersInv(w)
  <2>1. Dequeued(w) = 0 /\ Executed(w) = 0 /\ Len(rpc[w]) = 0 /\ running[w] = 0
    BY <1>1 DEF Dequeued, Executed
  <2>2. InFlight(w) = <<>>
    <3>1. response[w] = <<>> /\ output[w] = <<>>
      OBVIOUS
    <3>2. <<>> \o <<>> = <<>>
      BY ConcatEmptySeq, EmptySeq
    <3> QED BY <3>1, <3>2 DEF InFlight
  <2> QED BY <1>1, <2>1, <2>2 DEF CallsInv, AnswersInv, Behind
<1> QED BY <1>2, <1>3, <1>4 DEF MatchInv
-----------------------------------------------------------------------------
(* collective_rpc: the call goes to the end of everything. *)
LEMMA MatchCall ==
    ASSUME MatchInv, NEW r \in {OutputRank, AllRanks}, NEW block \in BOOLEAN, Call(r, block)
    PROVE  MatchInv'
<1> DEFINE n == Len(reply)
           pend == [state |-> "pending", got |-> <<>>]
<1>1. /\ awaited = 0 /\ ~isFailed /\ \A w \in Rank : Len(rpc[w]) < Capacity
      /\ reply' = Append(reply, r) /\ rpc' = [w \in Rank |-> Append(rpc[w], n + 1)]
      /\ futures' = Append(futures, n + 1) /\ future' = Append(future, pend)
      /\ awaited' = IF block THEN n + 1 ELSE 0
      /\ UNCHANGED <<running, output, response, dead, isFailed, cancelled, cur>>
  BY DEF Call
<1>2. /\ reply \in Seq(Rank \cup {AllRanks}) /\ futures \in Seq(Nat) /\ future \in Seq(Outcome)
      /\ rpc \in [Rank -> Seq(Nat)] /\ n \in Nat /\ n + 1 \in Nat /\ pend \in Outcome
      /\ Len(future) = n
  <2>1. pend \in Outcome
    BY EmptySeq DEF Outcome
  <2>2. n \in Nat /\ n + 1 \in Nat
    BY MatchTypes
  <2> HIDE DEF pend
  <2> QED BY <2>1, <2>2 DEF MatchInv, TypeInv, FuturesInv
<1>3. /\ reply' \in Seq(Rank \cup {AllRanks}) /\ Len(reply') = n + 1
      /\ \A k \in 1 .. n : reply'[k] = reply[k]
  <2>1. r \in Rank \cup {AllRanks}
    BY ExecutorAssumption
  <2> QED BY <1>1, <1>2, <2>1, AppendProperties
<1>4. /\ futures' \in Seq(Nat) /\ Len(futures') = Len(futures) + 1
      /\ \A i \in 1 .. Len(futures) : futures'[i] = futures[i]
      /\ futures'[Len(futures) + 1] = n + 1
  BY <1>1, <1>2, AppendProperties
<1>5. /\ future' \in Seq(Outcome) /\ Len(future') = n + 1
      /\ \A k \in 1 .. n : future'[k] = future[k]
      /\ future'[n + 1] = pend
  BY <1>1, <1>2, AppendProperties
<1>6. ASSUME NEW w \in Rank
      PROVE  /\ rpc'[w] \in Seq(Nat) /\ Len(rpc'[w]) = Len(rpc[w]) + 1
             /\ \A i \in 1 .. Len(rpc[w]) : rpc'[w][i] = rpc[w][i]
             /\ rpc'[w][Len(rpc[w]) + 1] = n + 1
  <2>1. rpc[w] \in Seq(Nat) /\ rpc'[w] = Append(rpc[w], n + 1)
    BY <1>1, <1>2
  <2> QED BY <1>2, <2>1, AppendProperties
<1>7. Calls' = Calls \cup {n + 1} /\ Calls = 1 .. n
  BY <1>2, <1>3 DEF Calls
<1> HIDE DEF n, pend
<1>8. Len(futures) \in Nat /\ Popped \in Nat /\ Popped <= n /\ Len(futures) = n - Popped /\ n = Len(reply)
  BY MatchTypes DEF n
<1>9. Popped' = Popped
  BY <1>2, <1>3, <1>4, <1>8 DEF Popped
<1>10. cur = Nobody
  BY <1>1 DEF MatchInv, FuturesInv
<1>11. TypeInv'
  <2>1. rpc' \in [Rank -> Seq(Nat)]
    BY <1>1, <1>6
  <2>2. \A w \in Rank : Len(rpc'[w]) <= Capacity
    <3> TAKE w \in Rank
    <3>1. Len(rpc[w]) \in Nat /\ Len(rpc[w]) < Capacity /\ Capacity \in Nat
      BY <1>1, MatchTypes, ExecutorAssumption
    <3> QED BY <1>6, <3>1
  <2>3. awaited' \in 0 .. Len(reply')
    BY <1>1, <1>2, <1>3 DEF n
  <2> QED BY <1>1, <1>3, <1>4, <1>5, <2>1, <2>2, <2>3 DEF MatchInv, TypeInv
<1>12. FuturesInv'
  <2>1. ASSUME NEW i \in 1 .. Len(futures') PROVE futures'[i] = Popped + i
    <3>1. i \in 1 .. Len(futures) \/ i = Len(futures) + 1
      BY <1>4, <1>8
    <3>2. i \in 1 .. Len(futures) => futures[i] = Popped + i
      BY DEF MatchInv, FuturesInv
    <3> QED BY <1>2, <1>4, <1>8, <3>1, <3>2
  <2>2. ASSUME NEW k \in Calls'
        PROVE  future'[k].state = "pending" <=> k > Popped \/ (cur' # Nobody /\ k = Popped)
    <3>1. CASE k \in Calls
      BY <1>1, <1>5, <1>7, <1>10, <3>1 DEF MatchInv, FuturesInv
    <3>2. CASE k = n + 1
      BY <1>2, <1>5, <1>8, <3>2 DEF pend
    <3> QED BY <1>7, <3>1, <3>2
  <2>3. cur' = Nobody /\ Len(future') = Len(reply') /\ Popped' >= 0
    BY <1>1, <1>3, <1>5, <1>8, <1>9, <1>10
  <2> QED BY <1>9, <2>1, <2>2, <2>3 DEF FuturesInv
<1>13. \A k \in Calls : RanksOf(k)' = RanksOf(k) /\ \A w \in Rank : Replies(w, k)' <=> Replies(w, k)
  BY <1>3, <1>7 DEF RanksOf, Replies
<1>14. ReadingInv'
  BY <1>1, <1>10 DEF ReadingInv, Nobody
<1>15. /\ \A j \in Calls : \A w : LeftUnread(j, w)' <=> LeftUnread(j, w)
       /\ \A j, w : j = n + 1 => ~LeftUnread(j, w)'
       /\ \A k \in Calls' : \A w : Skipped(k, w)' <=> Skipped(k, w)
       /\ \A w : Behind(w)' <=> Behind(w)
  <2>1. \A j \in Calls : \A w : LeftUnread(j, w)' <=> LeftUnread(j, w)
    BY <1>5, <1>7, <1>13 DEF LeftUnread
  <2>2. \A j, w : j = n + 1 => ~LeftUnread(j, w)'
    BY <1>5 DEF LeftUnread, pend
  <2>3. ASSUME NEW k \in Calls' PROVE \A j \in 1 .. k - 1 : j \in Calls
    BY <1>2, <1>7
  <2>4. \A k \in Calls' : \A w : Skipped(k, w)' <=> Skipped(k, w)
    BY <2>1, <2>3 DEF Skipped
  <2>5. \A w : Behind(w)' <=> Behind(w)
    BY <1>7, <2>1, <2>2 DEF Behind
  <2> QED BY <2>1, <2>2, <2>4, <2>5
<1>17. HeardInv'
  <2>1. HeardInv
    BY DEF MatchInv
  <2>2. ASSUME NEW k \in Calls'
        PROVE  /\ future'[k].state = "pending" => future'[k].got = <<>>
               /\ future'[k].state = "result" => Len(future'[k].got) = Len(RanksOf(k)')
               /\ \A i \in 1 .. Len(future'[k].got) :
                     future'[k].got[i] = k <=> ~Skipped(k, RanksOf(k)[i])'
    <3>1. CASE k \in Calls
      <4>1. future'[k] = future[k] /\ RanksOf(k)' = RanksOf(k)
        BY <1>5, <1>7, <1>13, <3>1
      <4>2. \A i : Skipped(k, RanksOf(k)[i])' <=> Skipped(k, RanksOf(k)[i])
        BY <1>15, <4>1
      <4> QED BY <2>1, <3>1, <4>1, <4>2 DEF HeardInv
    <3>2. CASE k = n + 1
      <4>1. future'[k].state = "pending" /\ future'[k].got = <<>>
        BY <1>5, <3>2 DEF pend
      <4> QED BY <4>1
    <3> QED BY <1>7, <3>1, <3>2
  <2>3. cur' = Nobody
    BY <1>1, <1>10
  <2> QED BY <2>2, <2>3 DEF HeardInv
<1>18. FailureInv'
  <2>1. FailureInv
    BY DEF MatchInv
  <2>2. \A k \in Calls' : k \in Calls \/ future'[k].state = "pending"
    BY <1>5, <1>7 DEF pend
  <2>3. \A k \in Calls : future'[k] = future[k] /\ RanksOf(k)' = RanksOf(k)
    BY <1>5, <1>7, <1>13
  <2> QED BY <1>1, <2>1, <2>2, <2>3 DEF FailureInv
<1>16. ASSUME NEW w \in Rank
       PROVE  CallsInv(w)' /\ AnswersInv(w)'
  <2>1. /\ Len(rpc[w]) \in Nat /\ Dequeued(w) \in Nat /\ Executed(w) \in Nat /\ Dequeued(w) <= n
        /\ Executed(w) <= Dequeued(w) /\ Len(rpc[w]) = n - Dequeued(w) /\ Read(w) \in Int /\ Read(w) <= Popped
    BY MatchTypes DEF n
  <2>2. Dequeued(w)' = Dequeued(w)
    <3>1. Len(rpc'[w]) = Len(rpc[w]) + 1 /\ Len(reply') = n + 1 /\ Len(reply) = n
      BY <1>3, <1>6, <1>8
    <3> QED BY <1>2, <2>1, <3>1 DEF Dequeued
  <2>3. Executed(w)' = Executed(w)
    BY <1>1, <2>2 DEF Executed
  <2>4. ASSUME NEW i \in 1 .. Len(rpc'[w]) PROVE rpc'[w][i] = Dequeued(w) + i
    <3>1. i \in 1 .. Len(rpc[w]) \/ i = Len(rpc[w]) + 1
      BY <1>6, <2>1
    <3>2. i \in 1 .. Len(rpc[w]) => rpc[w][i] = Dequeued(w) + i
      BY DEF MatchInv, CallsInv
    <3> QED BY <1>2, <1>6, <2>1, <3>1, <3>2, SMTT(30)
  <2>5. CallsInv(w)'
    BY <1>1, <2>2, <2>3, <2>4 DEF MatchInv, CallsInv
  <2>6. InFlight(w)' = InFlight(w) /\ Read(w)' = Read(w)
    BY <1>1, <1>9 DEF InFlight, Read, IsAwaited, Nobody
  <2>7. AnswersInv(w)
    BY DEF MatchInv
  <2>8. ASSUME NEW k \in Calls', Replies(w, k)', Read(w) < k, k <= Executed(w)
        PROVE  \E i \in 1 .. Len(InFlight(w)) : InFlight(w)[i].k = k
    <3>1. k \in Calls
      BY <1>2, <1>7, <2>1, <2>8
    <3> QED BY <1>13, <2>7, <2>8, <3>1 DEF AnswersInv
  <2>9. (\E k \in Calls' : k <= Read(w) /\ Unread(w, k)') <=> \E k \in Calls : k <= Read(w) /\ Unread(w, k)
    <3>1. \A k \in Calls : Unread(w, k)' <=> Unread(w, k)
      BY <1>13, <2>3, <2>6 DEF Unread
    <3>2. ~(n + 1 <= Read(w))
      BY <1>2, <1>8, <2>1
    <3> QED BY <1>7, <3>1, <3>2
  <2>10. \A i \in 1 .. Len(InFlight(w)) :
            InFlight(w)[i].k \in Calls' /\ reply'[InFlight(w)[i].k] \in {AllRanks, w}
    BY <1>3, <1>7, <2>7 DEF AnswersInv, Replies
  <2>11. AnswersInv(w)'
    BY <1>15, <2>3, <2>6, <2>7, <2>8, <2>9, <2>10 DEF AnswersInv, Replies
  <2> QED BY <2>5, <2>11
<1> QED BY <1>11, <1>12, <1>14, <1>16, <1>17, <1>18 DEF MatchInv

(* Waiting for a future, coming back from it, and what happens around the
   executor: none of it touches a queue. *)
LEMMA MatchQuiet ==
    ASSUME MatchInv,
           \/ \E k \in 1 .. MaxCalls : Result(k)
           \/ Return \/ MonitorSeesDeath \/ Shutdown \/ \E w \in Rank : Die(w)
    PROVE  MatchInv'
<1>1. /\ UNCHANGED <<reply, rpc, running, output, response, futures, future, cur>>
      /\ awaited' \in 0 .. Len(reply) /\ dead' \subseteq Rank
      /\ isFailed' \in BOOLEAN /\ cancelled' \in BOOLEAN /\ (isFailed => isFailed')
      /\ (cancelled' => isFailed')
  <2>1. /\ awaited \in 0 .. Len(reply) /\ dead \subseteq Rank /\ isFailed \in BOOLEAN
        /\ cancelled \in BOOLEAN /\ (cancelled => isFailed) /\ DOMAIN future = 1 .. Len(reply)
        /\ Len(reply) \in Nat
    BY MatchTypes DEF MatchInv, TypeInv, FuturesInv
  <2>2. CASE \E k \in 1 .. MaxCalls : Result(k)
    BY <2>1, <2>2 DEF Result, workerVars
  <2>3. CASE Return
    BY <2>1, <2>3 DEF Return, workerVars
  <2>4. CASE MonitorSeesDeath
    BY <2>1, <2>4 DEF MonitorSeesDeath, workerVars
  <2>5. CASE Shutdown
    BY <2>1, <2>5 DEF Shutdown
  <2>6. CASE \E w \in Rank : Die(w)
    BY <2>1, <2>6 DEF Die
  <2> QED BY <2>2, <2>3, <2>4, <2>5, <2>6
<1>2. cur # Nobody => awaited' # 0
  <2>1. cur # Nobody => awaited # 0
    BY DEF MatchInv, FuturesInv
  <2> QED BY <2>1, ExecutorAssumption DEF Result, Return, MonitorSeesDeath, Shutdown, Die
<1>3. Popped' = Popped /\ Calls' = Calls /\ \A k : RanksOf(k)' = RanksOf(k)
  BY <1>1 DEF Popped, Calls, RanksOf
<1>4. TypeInv'
  BY <1>1 DEF MatchInv, TypeInv
<1>5. FuturesInv'
  BY <1>1, <1>2, <1>3 DEF MatchInv, FuturesInv, Nobody
<1>6. /\ \A k, w : Skipped(k, w)' <=> Skipped(k, w)
      /\ \A w : Behind(w)' <=> Behind(w)
  BY <1>1, LeftFrame
<1>7. ReadingInv' /\ HeardInv' /\ FailureInv'
  <2>1. ReadingInv'
    BY <1>1, <1>3 DEF MatchInv, ReadingInv, Nobody
  <2>2. HeardInv'
    BY <1>1, <1>3, <1>6 DEF MatchInv, HeardInv, Nobody
  <2>3. FailureInv'
    BY <1>1, <1>3 DEF MatchInv, FailureInv
  <2> QED BY <2>1, <2>2, <2>3
<1>8. ASSUME NEW w \in Rank
      PROVE  CallsInv(w)' /\ AnswersInv(w)'
  <2>1. CallsInv(w)' /\ Executed(w)' = Executed(w)
    BY <1>1, WorkerFrame DEF MatchInv
  <2>2. InFlight(w)' = InFlight(w) /\ Read(w)' = Read(w)
    BY <1>1, <1>3 DEF InFlight, Read, IsAwaited, Nobody
  <2>3. AnswersInv(w)
    BY DEF MatchInv
  <2> QED BY <1>1, <1>6, <2>1, <2>2, <2>3, AnswersFrame
<1> QED BY <1>4, <1>5, <1>7, <1>8 DEF MatchInv

(* FutureWrapper.result takes the oldest future. *)
LEMMA MatchPop ==
    ASSUME MatchInv, PopFuture PROVE MatchInv'
<1> DEFINE k == Popped + 1
<1>1. /\ awaited # 0 /\ cur = Nobody /\ future[awaited].state = "pending"
      /\ cur' = [k |-> Head(futures), todo |-> RanksOf(Head(futures)), got |-> <<>>, failed |-> FALSE]
      /\ futures' = Tail(futures)
      /\ UNCHANGED <<reply, rpc, running, output, response, dead, isFailed, cancelled, future, awaited>>
  BY DEF PopFuture, Nobody, workerVars
<1>2. /\ Len(reply) \in Nat /\ Len(futures) \in Nat /\ Popped \in Nat /\ Len(futures) = Len(reply) - Popped
      /\ futures \in Seq(Nat) /\ awaited \in 0 .. Len(reply)
  BY MatchTypes DEF MatchInv, TypeInv
<1>3. awaited \in Calls /\ awaited > Popped
  BY <1>1, <1>2 DEF MatchInv, FuturesInv, Calls
<1>4. /\ Len(futures) > 0 /\ futures # <<>> /\ Head(futures) = k /\ k \in Calls
  <2>1. Len(futures) > 0 /\ k \in Calls
    BY <1>2, <1>3 DEF Calls
  <2>2. 1 \in 1 .. Len(futures)
    BY <1>2, <2>1
  <2>3. futures[1] = k
    BY <2>2 DEF MatchInv, FuturesInv
  <2> QED BY <1>2, <2>1, <2>3
<1>5. /\ futures' \in Seq(Nat) /\ Len(futures') = Len(futures) - 1
      /\ \A i \in 1 .. Len(futures') : futures'[i] = futures[i + 1]
  BY <1>1, <1>2, <1>4, HeadTailProperties
<1>6. /\ RanksOf(k) \in Seq(Rank) /\ Len(RanksOf(k)) \in Nat /\ RanksOf(k) # <<>>
      /\ \A w \in Rank : Replies(w, k) <=> \E i \in 1 .. Len(RanksOf(k)) : RanksOf(k)[i] = w
  BY <1>4, RanksOfProperties DEF MatchInv
<1>7. \A j : RanksOf(j)' = RanksOf(j)
  BY <1>1 DEF RanksOf
<1> HIDE DEF k
<1>8. k = Popped + 1 /\ k \in Nat /\ Popped' = k /\ k > 0
  BY <1>1, <1>2, <1>5 DEF Popped, k
<1>9. cur'.k = k /\ cur'.todo = RanksOf(k) /\ cur'.got = <<>> /\ cur' # Nobody /\ Calls' = Calls
  BY <1>1, <1>4, <1>8 DEF Nobody, Calls
<1>10. TypeInv'
  <2>1. cur' \in [k : Nat, todo : Seq(Rank), got : Seq(Nat), failed : BOOLEAN]
    BY <1>1, <1>4, <1>6, <1>8, EmptySeq
  <2> QED BY <1>1, <1>5, <2>1 DEF MatchInv, TypeInv
<1>11. FuturesInv'
  <2>1. \A i \in 1 .. Len(futures') : futures'[i] = k + i
    <3> TAKE i \in 1 .. Len(futures')
    <3>1. i + 1 \in 1 .. Len(futures)
      BY <1>2, <1>5
    <3>2. futures[i + 1] = Popped + (i + 1)
      BY <3>1 DEF MatchInv, FuturesInv
    <3> QED BY <1>2, <1>5, <1>8, <3>2
  <2>2. \A j \in Calls : future[j].state = "pending" <=> j > k \/ j = k
    <3> TAKE j \in Calls
    <3>1. j \in Nat /\ (j > Popped <=> j > k \/ j = k)
      BY <1>2, <1>8 DEF Calls
    <3> QED BY <1>1, <3>1 DEF MatchInv, FuturesInv
  <2>3. Len(future) = Len(reply)
    BY DEF MatchInv, FuturesInv
  <2> QED BY <1>1, <1>6, <1>8, <1>9, <2>1, <2>2, <2>3 DEF FuturesInv
<1>12. ReadingInv'
  <2>1. Len(<<>>) = 0 /\ \A i \in 1 .. Len(RanksOf(k)) : 0 + i = i
    BY <1>6
  <2> QED BY <1>6, <1>7, <1>8, <1>9, <2>1 DEF ReadingInv
<1>13. HeardInv' /\ FailureInv'
  <2>1. \A j, w : Skipped(j, w)' <=> Skipped(j, w)
    BY <1>1, LeftFrame
  <2>2. HeardInv'
    BY <1>1, <1>7, <1>9, <2>1 DEF MatchInv, HeardInv
  <2>3. FailureInv'
    BY <1>1, <1>7, <1>9 DEF MatchInv, FailureInv
  <2> QED BY <2>2, <2>3
<1>14. ASSUME NEW w \in Rank
       PROVE  CallsInv(w)' /\ AnswersInv(w)'
  <2>0. AnswersInv(w) /\ (Behind(w)' <=> Behind(w))
    BY <1>1, LeftFrame DEF MatchInv
  <2>1. CallsInv(w)' /\ Executed(w)' = Executed(w)
    BY <1>1, WorkerFrame DEF MatchInv
  <2>2. InFlight(w)' = InFlight(w)
    BY <1>1 DEF InFlight
  <2>3. IsAwaited(w)' <=> Replies(w, k)
    BY <1>6, <1>9 DEF IsAwaited
  <2>4. Read(w) = Popped
    BY <1>1, <1>2 DEF Read, IsAwaited
  <2>5. CASE Replies(w, k)
    <3>1. Read(w)' = Read(w)
      BY <1>2, <1>8, <2>3, <2>4, <2>5 DEF Read
    <3> QED BY <1>1, <2>0, <2>1, <2>2, <3>1, AnswersFrame
  <2>6. CASE ~Replies(w, k)
    <3>1. Read(w)' = k
      BY <1>8, <2>3, <2>6 DEF Read
    <3>2. \A j \in Calls : k < j => Read(w) < j
      <4> TAKE j \in Calls
      <4>1. j \in Nat
        BY <1>2 DEF Calls
      <4> QED BY <1>2, <1>8, <2>4, <4>1
    <3>3. \A j \in Calls : Unread(w, j) => (j <= k <=> j <= Read(w))
      <4> TAKE j \in Calls
      <4>1. j \in Nat /\ (Unread(w, j) => j # k)
        BY <1>2, <2>6 DEF Calls, Unread
      <4> QED BY <1>2, <1>8, <2>4, <4>1
    <3>4. \A j : (Replies(w, j)' <=> Replies(w, j)) /\ (Unread(w, j)' <=> Unread(w, j))
      BY <1>1, <2>1, <2>2 DEF Replies, Unread
    <3>5. \A i \in 1 .. Len(InFlight(w)) :
             InFlight(w)[i].k \in Calls' /\ reply'[InFlight(w)[i].k] \in {AllRanks, w}
      BY <1>1, <1>9, <2>0 DEF AnswersInv, Replies
    <3>6. Behind(w)' <=> \E j \in Calls : j <= k /\ Unread(w, j)
      BY <2>0, <3>3 DEF AnswersInv
    <3> QED BY <1>9, <2>0, <2>1, <2>2, <3>1, <3>2, <3>4, <3>5, <3>6 DEF AnswersInv, Replies
  <2> QED BY <2>1, <2>5, <2>6
<1> QED BY <1>10, <1>11, <1>12, <1>13, <1>14 DEF MatchInv

(* The future whose answers were being read is resolved. *)
LEMMA ResolveStep ==
    ASSUME MatchInv, cur # Nobody, NEW state \in {"result", "error", "timeout"}, NEW got \in Seq(Nat),
           Resolve(state, got), UNCHANGED <<reply, futures>>
    PROVE  /\ FuturesInv' /\ ReadingInv' /\ future' \in Seq(Outcome) /\ cur' = Nobody
           /\ Nobody \in [k : Nat, todo : Seq(Rank), got : Seq(Nat), failed : BOOLEAN]
           /\ \A k \in Calls :
                 future'[k] = IF k = Popped THEN [state |-> state, got |-> got] ELSE future[k]
<1> DEFINE o == [state |-> state, got |-> got]
<1>1. /\ cur.k = Popped /\ Popped \in Nat /\ Popped > 0 /\ Len(reply) \in Nat /\ Popped <= Len(reply)
      /\ future \in Seq(Outcome) /\ Len(future) = Len(reply)
  BY MatchTypes DEF MatchInv, TypeInv, FuturesInv
<1>2. Popped \in 1 .. Len(future) /\ o \in Outcome /\ future' = [future EXCEPT ![Popped] = o] /\ cur' = Nobody
  BY <1>1 DEF Resolve, Outcome
<1>3. o.state # "pending"
  OBVIOUS
<1> HIDE DEF o
<1>4. /\ future' \in Seq(Outcome) /\ Len(future') = Len(future)
      /\ \A k \in 1 .. Len(future) : future'[k] = IF k = Popped THEN o ELSE future[k]
  BY <1>1, <1>2, ExceptSeq
<1>5. Popped' = Popped /\ Calls' = Calls /\ Calls = 1 .. Len(future)
  BY <1>1 DEF Popped, Calls
<1>6. FuturesInv'
  <2>1. \A k \in Calls : future'[k].state = "pending" <=> k > Popped
    <3> TAKE k \in Calls
    <3>1. future[k].state = "pending" <=> k > Popped \/ k = Popped
      BY DEF MatchInv, FuturesInv
    <3>2. k = Popped => ~(k > Popped)
      BY <1>1
    <3> QED BY <1>3, <1>4, <1>5, <3>1, <3>2
  <2>2. \A i \in 1 .. Len(futures) : futures[i] = Popped + i
    BY DEF MatchInv, FuturesInv
  <2>3. Popped' >= 0 /\ Len(future') = Len(reply') /\ cur' = Nobody
    BY <1>1, <1>2, <1>4, <1>5
  <2> QED BY <1>5, <2>1, <2>2, <2>3 DEF FuturesInv
<1>7. ReadingInv'
  BY <1>2 DEF ReadingInv
<1>8. Nobody \in [k : Nat, todo : Seq(Rank), got : Seq(Nat), failed : BOOLEAN]
  BY EmptySeq DEF Nobody
<1> QED BY <1>2, <1>4, <1>5, <1>6, <1>7, <1>8 DEF o

LEMMA IndexShift ==
    ASSUME NEW g \in Nat, NEW t \in Nat, NEW i \in 1 .. t
    PROVE  /\ g + i \in 1 .. g + t /\ g + 1 \in 1 .. g + t /\ 1 \in 1 .. t
           /\ i > 1 => g + i # g + 1
           /\ i < t => i + 1 \in 1 .. t
           /\ g + (i + 1) = (g + 1) + i
           /\ (g + 1) + (t - 1) = g + t
OBVIOUS

(* While a call is being resolved, what was left behind was left by earlier
   calls, and the ranks it waits for are the last ones of its ranks. *)
LEMMA WhileReading ==
    ASSUME MatchInv, cur # Nobody, NEW v \in Rank
    PROVE  /\ ~LeftUnread(Popped, v) /\ (Skipped(Popped, v) <=> Behind(v))
           /\ IsAwaited(v) <=>
                 \E i \in Len(cur.got) + 1 .. Len(RanksOf(Popped)) : RanksOf(Popped)[i] = v
           /\ IsAwaited(v) => Replies(v, Popped)
<1>1. /\ Popped \in Nat /\ Len(reply) \in Nat /\ Popped <= Len(reply) /\ Popped > 0
      /\ cur.todo \in Seq(Rank) /\ cur.got \in Seq(Nat)
  BY MatchTypes DEF MatchInv, TypeInv, FuturesInv
<1>2. Popped \in Calls /\ \A j \in Calls : j \in Nat
  BY <1>1 DEF Calls
<1>3. \A j \in Calls : LeftUnread(j, v) => ~(j > Popped) /\ j # Popped
  BY DEF MatchInv, FuturesInv, LeftUnread
<1>4. \A j \in Calls : LeftUnread(j, v) => j \in 1 .. Popped - 1
  BY <1>1, <1>2, <1>3 DEF Calls
<1>5. \A j \in 1 .. Popped - 1 : j \in Calls
  BY <1>1 DEF Calls
<1>6. Skipped(Popped, v) <=> Behind(v)
  BY <1>4, <1>5 DEF Skipped, Behind
<1>7. ~LeftUnread(Popped, v)
  BY <1>2, <1>3
<1> DEFINE g == Len(cur.got)
           t == Len(cur.todo)
           n == Len(RanksOf(Popped))
<1>8. /\ g \in Nat /\ t \in Nat /\ g + t = n
      /\ \A i \in 1 .. t : cur.todo[i] = RanksOf(Popped)[g + i]
  BY <1>1, LenProperties DEF MatchInv, ReadingInv
<1>9. IsAwaited(v) <=> \E i \in 1 .. t : cur.todo[i] = v
  BY DEF IsAwaited
<1>10. Replies(v, Popped) <=> \E i \in 1 .. n : RanksOf(Popped)[i] = v
  BY <1>2, RanksOfProperties DEF MatchInv
<1> HIDE DEF g, t, n
<1>11. \A i \in g + 1 .. n : i - g \in 1 .. t /\ g + (i - g) = i /\ i \in 1 .. n
  BY <1>8
<1>12. \A i \in 1 .. t : g + i \in g + 1 .. n
  BY <1>8
<1>13. IsAwaited(v) <=> \E i \in g + 1 .. n : RanksOf(Popped)[i] = v
  <2>1. ASSUME NEW i \in 1 .. t, cur.todo[i] = v PROVE \E j \in g + 1 .. n : RanksOf(Popped)[j] = v
    BY <1>8, <1>12, <2>1
  <2>2. ASSUME NEW i \in g + 1 .. n, RanksOf(Popped)[i] = v PROVE \E j \in 1 .. t : cur.todo[j] = v
    <3>1. cur.todo[i - g] = v
      BY <1>8, <1>11, <2>2
    <3> QED BY <1>11, <3>1
  <2> QED BY <1>9, <2>1, <2>2
<1>14. IsAwaited(v) => Replies(v, Popped)
  BY <1>10, <1>11, <1>13
<1> QED BY <1>6, <1>7, <1>13, <1>14 DEF g, n

(* A resolved future changes what was left behind for later calls only ... *)
LEMMA ResolveHeard ==
    ASSUME MatchInv, cur # Nobody, NEW state \in {"result", "error", "timeout"}, NEW got \in Seq(Nat),
           Resolve(state, got), UNCHANGED <<reply, futures, isFailed>>,
           state = "result" => Len(got) = Len(RanksOf(Popped)),
           FaultTolerance /\ ~isFailed /\ state = "error" => Len(got) = Len(RanksOf(Popped)),
           \A i \in 1 .. Len(got) : got[i] = Popped <=> ~Skipped(Popped, RanksOf(Popped)[i])
    PROVE  /\ HeardInv' /\ FailureInv'
           /\ \A j \in Calls : \A v : j # Popped => (LeftUnread(j, v)' <=> LeftUnread(j, v))
           /\ \A v : LeftUnread(Popped, v)' <=>
                 \E i \in Len(got) + 1 .. Len(RanksOf(Popped)) : RanksOf(Popped)[i] = v
<1> DEFINE o == [state |-> state, got |-> got]
<1>1. /\ Popped \in Nat /\ Popped <= Len(reply) /\ Len(reply) \in Nat /\ Popped > 0
      /\ Popped \in Calls /\ \A k \in Calls : k \in Nat
  BY MatchTypes DEF MatchInv, FuturesInv, Calls
<1>2. /\ cur' = Nobody /\ future'[Popped] = o
      /\ \A k \in Calls : k # Popped => future'[k] = future[k]
  BY <1>1, ResolveStep
<1>3. o.state = state /\ o.got = got /\ state # "pending"
  OBVIOUS
<1> HIDE DEF o
<1>4. Calls' = Calls /\ Popped' = Popped /\ \A k : RanksOf(k)' = RanksOf(k)
  BY DEF Calls, Popped, RanksOf
<1>5. \A j \in Calls : \A v : j # Popped => (LeftUnread(j, v)' <=> LeftUnread(j, v))
  BY <1>2, <1>4 DEF LeftUnread
<1>6. \A v : LeftUnread(Popped, v)' <=>
          \E i \in Len(got) + 1 .. Len(RanksOf(Popped)) : RanksOf(Popped)[i] = v
  BY <1>2, <1>3, <1>4 DEF LeftUnread
<1>7. ASSUME NEW k \in Calls, k <= Popped PROVE \A v : Skipped(k, v)' <=> Skipped(k, v)
  <2>1. \A j \in 1 .. k - 1 : j \in Calls /\ j # Popped
    BY <1>1, <1>7 DEF Calls
  <2> QED BY <1>5, <2>1 DEF Skipped
<1>8. HeardInv'
  <2>1. ASSUME NEW k \in Calls
        PROVE  /\ future'[k].state = "pending" => future'[k].got = <<>>
               /\ future'[k].state = "result" => Len(future'[k].got) = Len(RanksOf(k))
               /\ \A i \in 1 .. Len(future'[k].got) :
                     future'[k].got[i] = k <=> ~Skipped(k, RanksOf(k)[i])'
    <3>1. HeardInv
      BY DEF MatchInv
    <3>2. CASE k = Popped
      <4>1. \A v : Skipped(k, v)' <=> Skipped(k, v)
        BY <1>1, <1>7, <3>2
      <4>2. \A i : Skipped(k, RanksOf(k)[i])' <=> Skipped(Popped, RanksOf(Popped)[i])
        BY <1>4, <3>2, <4>1
      <4> QED BY <1>2, <1>3, <3>2, <4>2
    <3>3. CASE k < Popped
      <4>1. \A i : Skipped(k, RanksOf(k)[i])' <=> Skipped(k, RanksOf(k)[i])
        BY <1>1, <1>4, <1>7, <3>3
      <4>2. future'[k] = future[k]
        BY <1>1, <1>2, <3>3
      <4> QED BY <3>1, <4>1, <4>2 DEF HeardInv
    <3>4. CASE k > Popped
      <4>0. k # Popped
        BY <1>1, <3>4
      <4>1. future'[k] = future[k] /\ future[k].state = "pending"
        <5>1. future'[k] = future[k]
          BY <1>2, <4>0
        <5>2. future[k].state = "pending"
          BY <3>4 DEF MatchInv, FuturesInv
        <5> QED BY <5>1, <5>2
      <4>2. future[k].got = <<>>
        BY <3>1, <4>1 DEF HeardInv
      <4> QED BY <4>1, <4>2
    <3>5. k = Popped \/ k < Popped \/ k > Popped
      BY <1>1
    <3> QED BY <3>2, <3>3, <3>4, <3>5, Zenon
  <2> QED BY <1>2, <1>4, <2>1 DEF HeardInv
<1>9. FailureInv'
  <2>1. FailureInv
    BY DEF MatchInv
  <2>2. ASSUME FaultTolerance, ~isFailed, NEW k \in Calls, future'[k].state = "error"
        PROVE  Len(future'[k].got) = Len(RanksOf(k))
    <3>1. CASE k = Popped
      BY <1>2, <1>3, <2>2, <3>1
    <3>2. CASE k # Popped
      BY <1>2, <2>1, <2>2, <3>2 DEF FailureInv
    <3> QED BY <3>1, <3>2
  <2> QED BY <1>4, <2>2 DEF FailureInv
<1> QED BY <1>5, <1>6, <1>8, <1>9

(* ... and leaves behind the answers of the ranks it was still waiting for. *)
LEMMA ResolveAnswers ==
    ASSUME MatchInv, cur # Nobody, cur' = Nobody, UNCHANGED <<reply, futures>>, NEW v \in Rank,
           InFlight(v)' = InFlight(v), Executed(v)' = Executed(v),
           \A j \in Calls : j # Popped => (LeftUnread(j, v)' <=> LeftUnread(j, v)),
           LeftUnread(Popped, v)' <=> IsAwaited(v)
    PROVE  AnswersInv(v)'
<1>1. /\ Popped \in Nat /\ Popped \in Calls /\ (\A k \in Calls : k \in Nat)
      /\ Executed(v) \in Nat /\ AnswersInv(v)
  BY MatchTypes DEF MatchInv, FuturesInv, Calls
<1>2. Popped' = Popped /\ Calls' = Calls /\ Read(v)' = Popped
  BY DEF Popped, Calls, Read, IsAwaited
<1>3. ~LeftUnread(Popped, v) /\ (IsAwaited(v) => Replies(v, Popped))
  BY WhileReading
<1>4. CASE ~IsAwaited(v)
  <2>1. Read(v)' = Read(v)
    BY <1>1, <1>2, <1>4 DEF Read
  <2>2. ASSUME NEW j \in Calls PROVE LeftUnread(j, v)' <=> LeftUnread(j, v)
    <3>1. j = Popped => (LeftUnread(j, v)' <=> LeftUnread(Popped, v)')
      BY <1>2
    <3> QED BY <1>3, <1>4, <3>1
  <2>3. Behind(v)' <=> Behind(v)
    BY <1>2, <2>2 DEF Behind
  <2> QED BY <1>1, <2>1, <2>3, AnswersFrame
<1>5. CASE IsAwaited(v)
  <2>1. Read(v) = Popped - 1
    BY <1>5 DEF Read
  <2>2. Behind(v)'
    BY <1>1, <1>2, <1>5 DEF Behind
  <2>3. \A k : (Replies(v, k)' <=> Replies(v, k)) /\ (Unread(v, k)' <=> Unread(v, k))
    BY DEF Replies, Unread
  <2>4. Unread(v, Popped)
    <3>1. Read(v) < Popped /\ (Popped > Executed(v) \/ Popped <= Executed(v))
      BY <1>1, <2>1
    <3> QED BY <1>1, <1>3, <1>5, <3>1 DEF Unread, AnswersInv
  <2>5. \E k \in Calls' : k <= Read(v)' /\ Unread(v, k)'
    <3>1. Popped <= Popped
      BY <1>1
    <3> QED BY <1>1, <1>2, <2>3, <2>4, <3>1
  <2>6. \A k \in Calls : Popped < k => Read(v) < k
    BY <1>1, <2>1
  <2>7. \A i \in 1 .. Len(InFlight(v)) :
           InFlight(v)[i].k \in Calls' /\ reply'[InFlight(v)[i].k] \in {AllRanks, v}
    BY <1>1, <1>2 DEF AnswersInv, Replies
  <2> QED BY <1>1, <1>2, <2>2, <2>3, <2>5, <2>6, <2>7 DEF AnswersInv, Replies
<1> QED BY <1>4, <1>5

(* The deadline passes, or the queue was shut down. *)
LEMMA MatchReadFails ==
    ASSUME MatchInv, ReadTimesOut \/ ReadCancelled PROVE MatchInv'
<1>1. /\ cur # Nobody
      /\ Resolve("timeout", cur.got) \/ (cancelled /\ Resolve("error", cur.got))
      /\ UNCHANGED <<reply, rpc, running, output, response, dead, isFailed, cancelled, futures, awaited>>
  BY DEF ReadTimesOut, ReadCancelled, workerVars
<1>2. PICK state \in {"result", "error", "timeout"} :
         Resolve(state, cur.got) /\ (state = "timeout" \/ (state = "error" /\ cancelled))
  BY <1>1
<1>3. cur.got \in Seq(Nat) /\ (cancelled => isFailed)
  BY DEF MatchInv, TypeInv
<1>4. /\ FuturesInv' /\ ReadingInv' /\ future' \in Seq(Outcome) /\ cur' = Nobody
      /\ Nobody \in [k : Nat, todo : Seq(Rank), got : Seq(Nat), failed : BOOLEAN]
  BY <1>1, <1>2, <1>3, ResolveStep
<1>5. TypeInv'
  BY <1>1, <1>4 DEF MatchInv, TypeInv
<1>6. \A i \in 1 .. Len(cur.got) : cur.got[i] = Popped <=> ~Skipped(Popped, RanksOf(Popped)[i])
  BY <1>1 DEF MatchInv, HeardInv
<1>7. /\ HeardInv' /\ FailureInv'
      /\ \A j \in Calls : \A v : j # Popped => (LeftUnread(j, v)' <=> LeftUnread(j, v))
      /\ \A v : LeftUnread(Popped, v)' <=>
            \E i \in Len(cur.got) + 1 .. Len(RanksOf(Popped)) : RanksOf(Popped)[i] = v
  <2>1. state # "result" /\ (FaultTolerance /\ ~isFailed => state # "error")
    BY <1>2, <1>3
  <2> QED BY <1>1, <1>2, <1>3, <1>6, <2>1, ResolveHeard
<1>8. ASSUME NEW w \in Rank PROVE CallsInv(w)' /\ AnswersInv(w)'
  <2>1. CallsInv(w)' /\ Executed(w)' = Executed(w)
    BY <1>1, WorkerFrame DEF MatchInv
  <2>2. InFlight(w)' = InFlight(w)
    BY <1>1 DEF InFlight
  <2>3. LeftUnread(Popped, w)' <=> IsAwaited(w)
    BY <1>1, <1>7, WhileReading
  <2> QED BY <1>1, <1>4, <1>7, <2>1, <2>2, <2>3, ResolveAnswers
<1> QED BY <1>4, <1>5, <1>7, <1>8 DEF MatchInv

(* The first answer on its way from the rank whose turn it is belongs to the
   call that is being resolved, or to an earlier one if one was left behind. *)
LEMMA FirstAnswer ==
    ASSUME MatchInv, cur # Nobody, NEW w \in Rank, w = cur.todo[1], response[w] # <<>>
    PROVE  /\ Read(w) = Popped - 1 /\ Popped \in Calls /\ Replies(w, Popped)
           /\ Len(InFlight(w)) \in Nat /\ Len(InFlight(w)) > 0
           /\ Head(response[w]) = InFlight(w)[1]
           /\ InFlight(w)[1].k = Popped <=> ~Behind(w)
           /\ Behind(w) => InFlight(w)[1].k < Popped
           /\ ~Behind(w) => Popped <= Executed(w)
<1> DEFINE q == InFlight(w)
<1>1. /\ Popped \in Nat /\ Len(reply) \in Nat /\ Popped <= Len(reply) /\ Popped > 0
      /\ cur.todo \in Seq(Rank) /\ cur.todo # <<>>
      /\ response[w] \in Seq(Answer) /\ output[w] \in Seq(Answer)
      /\ Executed(w) \in Nat /\ q \in Seq(Answer) /\ \A i \in 1 .. Len(q) : q[i].k \in Nat
  BY MatchTypes DEF MatchInv, TypeInv, FuturesInv
<1>2. Popped \in Calls /\ 1 \in 1 .. Len(cur.todo) /\ \A k \in Calls : k \in Nat
  BY <1>1 DEF Calls
<1>3. IsAwaited(w) /\ Read(w) = Popped - 1
  BY <1>1, <1>2 DEF IsAwaited, Read
<1>4. Replies(w, Popped)
  BY <1>3, WhileReading
<1>5. Len(q) \in Nat /\ Len(q) > 0 /\ Head(response[w]) = q[1] /\ 1 \in 1 .. Len(q)
  <2>1. Len(q) > 0 /\ Head(response[w]) = q[1]
    <3> DEFINE a == response[w]
               b == output[w]
    <3>1. a \in Seq(Answer) /\ b \in Seq(Answer) /\ a # <<>>
      BY <1>1
    <3>2. q = a \o b
      BY DEF InFlight
    <3> HIDE DEF a, b, q
    <3>3. Len(a \o b) > 0 /\ Head(a) = (a \o b)[1]
      BY <3>1, ConcatTake
    <3> QED BY <3>2, <3>3 DEF a
  <2>2. Len(q) \in Nat
    BY <1>1
  <2> HIDE DEF q
  <2> QED BY <2>1, <2>2
<1>6. AnswersInv(w)
  BY DEF MatchInv
<1> DEFINE h == q[1].k
<1>7. h \in Calls /\ h \in Nat /\ h <= Executed(w) /\ Unread(w, h)
  BY <1>2, <1>5, <1>6 DEF AnswersInv, Unread
<1>8. ASSUME NEW i \in 1 .. Len(q) PROVE h <= q[i].k
  <2>1. 1 < i => q[1].k < q[i].k
    BY <1>5, <1>6 DEF AnswersInv
  <2>2. q[i].k \in Nat
    BY <1>1
  <2> HIDE DEF q
  <2>3. CASE i = 1
    BY <1>7, <2>3
  <2>4. CASE 1 < i
    BY <1>7, <2>1, <2>2, <2>4
  <2> QED BY <1>5, <2>3, <2>4
<1>9. ASSUME Behind(w) PROVE h < Popped
  <2>1. PICK k \in Calls : k <= Read(w) /\ Unread(w, k)
    BY <1>6, <1>9 DEF AnswersInv
  <2>2. k \in Nat
    BY <1>2
  <2>3. h <= k
    <3>1. CASE k > Executed(w)
      <4> HIDE DEF h
      <4> QED BY <1>1, <1>7, <2>2, <3>1
    <3>2. CASE \E i \in 1 .. Len(q) : q[i].k = k
      <4> HIDE DEF h
      <4> QED BY <1>8, <3>2
    <3> QED BY <2>1, <3>1, <3>2 DEF Unread
  <2> HIDE DEF h
  <2> QED BY <1>1, <1>3, <1>7, <2>1, <2>2, <2>3
<1>10. ASSUME ~Behind(w) PROVE h = Popped /\ Popped <= Executed(w)
  <2>1. ~(h <= Read(w))
    <3> HIDE DEF h
    <3> QED BY <1>6, <1>7, <1>10 DEF AnswersInv
  <2>2. Popped <= h /\ Popped <= Executed(w) /\ Read(w) < Popped
    <3> HIDE DEF h
    <3> QED BY <1>1, <1>3, <1>7, <2>1
  <2>3. PICK i \in 1 .. Len(q) : q[i].k = Popped
    BY <1>2, <1>4, <1>6, <2>2 DEF AnswersInv
  <2>4. h <= Popped
    <3> HIDE DEF h
    <3> QED BY <1>8, <2>3
  <2> HIDE DEF h
  <2> QED BY <1>1, <1>7, <2>2, <2>4
<1>11. h < Popped => h # Popped
  <2> HIDE DEF h
  <2> QED BY <1>1, <1>7
<1>12. (h = Popped <=> ~Behind(w)) /\ (Behind(w) => h < Popped) /\ (~Behind(w) => Popped <= Executed(w))
  BY <1>9, <1>10, <1>11
<1> QED BY <1>2, <1>3, <1>4, <1>5, <1>12

(* get_response reads an answer. *)
LEMMA MatchRead ==
    ASSUME MatchInv, ReadResponse PROVE MatchInv'
<1>0. PICK w \in Rank : w = Head(cur.todo)
  BY HeadTailProperties DEF ReadResponse, MatchInv, TypeInv
<1> DEFINE answer == Head(response[w])
           got == Append(cur.got, answer.k)
           failed == cur.failed \/ ~answer.ok
           Goes == ~EndsNow(answer) /\ Len(cur.todo) # 1
<1>1. /\ cur # Nobody /\ cur.todo # <<>> /\ response[w] # <<>>
      /\ response' = [response EXCEPT ![w] = Tail(response[w])]
      /\ EndsNow(answer) => Resolve("error", got)
      /\ ~EndsNow(answer) /\ Len(cur.todo) = 1 => Resolve(IF failed THEN "error" ELSE "result", got)
      /\ Goes => cur' = [cur EXCEPT !.todo = Tail(@), !.got = got, !.failed = failed] /\ future' = future
      /\ UNCHANGED <<reply, rpc, running, output, dead, isFailed, cancelled, futures, awaited>>
  BY <1>0 DEF ReadResponse
<1>2. /\ cur \in [k : Nat, todo : Seq(Rank), got : Seq(Nat), failed : BOOLEAN]
      /\ response \in [Rank -> Seq(Answer)] /\ output \in [Rank -> Seq(Answer)]
      /\ reply \in Seq(Rank \cup {AllRanks})
  BY DEF MatchInv, TypeInv
<1>3. /\ w \in Rank /\ w = cur.todo[1] /\ Tail(cur.todo) \in Seq(Rank)
      /\ Len(Tail(cur.todo)) = Len(cur.todo) - 1 /\ Len(cur.todo) \in Nat \ {0}
      /\ \A i \in 1 .. Len(Tail(cur.todo)) : Tail(cur.todo)[i] = cur.todo[i + 1]
  <2>1. cur.todo \in Seq(Rank)
    BY <1>2
  <2> QED BY <1>0, <1>1, <2>1, HeadTailProperties, EmptySeq
<1>4. /\ answer \in Answer /\ answer.k \in Nat /\ answer.ok \in BOOLEAN
      /\ Tail(response[w]) \in Seq(Answer) /\ Len(Tail(response[w])) = Len(response[w]) - 1
      /\ Len(response[w]) \in Nat
  <2>1. response[w] \in Seq(Answer)
    BY <1>2, <1>3
  <2>2. answer \in Answer /\ Tail(response[w]) \in Seq(Answer) /\ Len(Tail(response[w])) = Len(response[w]) - 1
    BY <1>1, <2>1, HeadTailProperties
  <2> QED BY <2>1, <2>2 DEF Answer
<1>5. /\ got \in Seq(Nat) /\ Len(got) = Len(cur.got) + 1 /\ Len(cur.got) \in Nat
      /\ \A i \in 1 .. Len(cur.got) : got[i] = cur.got[i]
      /\ got[Len(cur.got) + 1] = answer.k
  <2>1. cur.got \in Seq(Nat)
    BY <1>2
  <2> QED BY <1>4, <2>1, AppendProperties
<1>6. /\ Popped' = Popped /\ Calls' = Calls /\ Popped \in Calls /\ Popped \in Nat /\ cur.k = Popped
      /\ \A k : RanksOf(k)' = RanksOf(k)
  <2>1. Popped \in Nat /\ Len(reply) \in Nat /\ Popped <= Len(reply) /\ Popped > 0 /\ cur.k = Popped
    BY <1>1, MatchTypes DEF MatchInv, FuturesInv
  <2> QED BY <1>1, <2>1 DEF Popped, Calls, RanksOf
<1>7. /\ Len(cur.got) + Len(cur.todo) = Len(RanksOf(Popped))
      /\ \A i \in 1 .. Len(cur.todo) : cur.todo[i] = RanksOf(Popped)[Len(cur.got) + i]
  BY <1>1 DEF MatchInv, ReadingInv
<1>8. /\ \A v \in Rank : v # w => response'[v] = response[v]
      /\ response'[w] = Tail(response[w])
      /\ response' \in [Rank -> Seq(Answer)]
      /\ \A v \in Rank : Len(response'[v]) <= Capacity
  <2>1. /\ \A v \in Rank : v # w => response'[v] = response[v]
        /\ response'[w] = Tail(response[w])
    BY <1>1, <1>2, <1>3
  <2>2. response' \in [Rank -> Seq(Answer)]
    BY <1>1, <1>2, <1>3, <1>4
  <2>3. \A v \in Rank : Len(response[v]) <= Capacity
    BY DEF MatchInv, TypeInv
  <2>4. Len(response'[w]) <= Capacity
    <3>1. Len(response'[w]) = Len(response[w]) - 1 /\ Len(response[w]) <= Capacity /\ Capacity \in Nat
      BY <1>3, <1>4, <2>1, <2>3, ExecutorAssumption
    <3> QED BY <1>4, <3>1
  <2> QED BY <2>1, <2>2, <2>3, <2>4
<1>9. \A v \in Rank : CallsInv(v)' /\ Executed(v)' = Executed(v)
  BY <1>1, WorkerFrame DEF MatchInv
<1> HIDE DEF answer, got
<1>10. ASSUME Goes
       PROVE  /\ cur' \in [k : Nat, todo : Seq(Rank), got : Seq(Nat), failed : BOOLEAN]
              /\ cur'.k = Popped /\ cur'.todo = Tail(cur.todo) /\ cur'.got = got
              /\ cur' # Nobody /\ future' = future /\ cur'.todo # <<>>
              /\ FuturesInv' /\ ReadingInv'
  <2>1. failed \in BOOLEAN
    BY <1>2, <1>4
  <2>2. cur' = [cur EXCEPT !.todo = Tail(@), !.got = got, !.failed = failed] /\ future' = future
    BY <1>1, <1>10
  <2>3. /\ cur'.k = cur.k /\ cur'.todo = Tail(cur.todo) /\ cur'.got = got
        /\ cur' \in [k : Nat, todo : Seq(Rank), got : Seq(Nat), failed : BOOLEAN]
    <3> HIDE DEF failed
    <3> QED BY <1>2, <1>3, <1>5, <2>1, <2>2
  <2>4. cur'.todo # <<>>
    <3>1. Len(cur.todo) # 1
      BY <1>10
    <3>2. Len(Tail(cur.todo)) # 0
      BY <1>3, <3>1
    <3>3. Tail(cur.todo) # <<>>
      BY <1>3, <3>2, EmptySeq
    <3> QED BY <2>3, <3>3
  <2>5. cur' # Nobody
    BY <2>4 DEF Nobody
  <2>6. FuturesInv'
    BY <1>1, <1>6, <2>2, <2>3, <2>4, <2>5 DEF MatchInv, FuturesInv
  <2>7. ReadingInv'
    <3>1. Len(cur'.got) = Len(cur.got) + 1 /\ Len(cur'.todo) = Len(cur.todo) - 1
      BY <1>3, <1>5, <2>3
    <3>2. Len(cur'.got) + Len(cur'.todo) = Len(RanksOf(Popped))
      <4> DEFINE g == Len(cur.got)
                 t == Len(cur.todo)
      <4>1. g \in Nat /\ t \in Nat
        BY <1>3, <1>5
      <4> HIDE DEF g, t
      <4>2. (g + 1) + (t - 1) = g + t
        BY <4>1
      <4> QED BY <1>7, <3>1, <4>2 DEF g, t
    <3>3. ASSUME NEW i \in 1 .. Len(cur'.todo)
          PROVE  cur'.todo[i] = RanksOf(Popped)[Len(cur'.got) + i]
      <4>1. i + 1 \in 1 .. Len(cur.todo) /\ Len(cur.got) + (i + 1) = Len(cur'.got) + i
        <5>1. i \in 1 .. Len(cur.todo) - 1
          BY <3>1
        <5>2. i \in 1 .. Len(cur.todo) /\ i < Len(cur.todo)
          BY <1>3, <5>1
        <5> DEFINE g == Len(cur.got)
                   t == Len(cur.todo)
        <5>3. g \in Nat /\ t \in Nat /\ i \in 1 .. t /\ i < t
          BY <1>3, <1>5, <5>2
        <5> HIDE DEF g, t
        <5>4. i + 1 \in 1 .. t /\ g + (i + 1) = (g + 1) + i
          BY <5>3, IndexShift
        <5> QED BY <3>1, <5>4 DEF g, t
      <4>2. cur'.todo[i] = cur.todo[i + 1]
        BY <1>3, <2>3
      <4>3. cur.todo[i + 1] = RanksOf(Popped)[Len(cur.got) + (i + 1)]
        BY <1>7, <4>1
      <4> QED BY <4>1, <4>2, <4>3
    <3> QED BY <1>6, <3>2, <3>3 DEF ReadingInv
  <2> QED BY <1>6, <2>2, <2>3, <2>4, <2>5, <2>6, <2>7
<1>11. ASSUME ~Goes
       PROVE  \E state \in {"result", "error", "timeout"} :
                 /\ Resolve(state, got)
                 /\ state = "result" => Len(cur.todo) = 1
                 /\ FaultTolerance /\ ~isFailed => Len(cur.todo) = 1
  <2>1. CASE EndsNow(answer)
    <3>1. ~(FaultTolerance /\ ~isFailed)
      BY <2>1 DEF EndsNow
    <3> QED BY <1>1, <2>1, <3>1
  <2>2. CASE ~EndsNow(answer) /\ Len(cur.todo) = 1
    BY <1>1, <2>2
  <2> QED BY <1>11, <2>1, <2>2
<1>12. Len(cur.todo) = 1 => Len(got) = Len(RanksOf(Popped))
  BY <1>5, <1>7
<1>13. /\ Read(w) = Popped - 1 /\ Replies(w, Popped) /\ Executed(w) \in Nat
       /\ Len(InFlight(w)) \in Nat /\ Len(InFlight(w)) > 0 /\ InFlight(w)[1].k = answer.k
       /\ answer.k = Popped <=> ~Behind(w)
       /\ Behind(w) => answer.k < Popped
       /\ ~Behind(w) => Popped <= Executed(w)
       /\ Skipped(Popped, w) <=> Behind(w)
  <2>1. /\ Read(w) = Popped - 1 /\ Replies(w, Popped)
        /\ Len(InFlight(w)) \in Nat /\ Len(InFlight(w)) > 0 /\ answer = InFlight(w)[1]
        /\ InFlight(w)[1].k = Popped <=> ~Behind(w)
        /\ Behind(w) => InFlight(w)[1].k < Popped
        /\ ~Behind(w) => Popped <= Executed(w)
    BY <1>1, <1>3, FirstAnswer DEF answer
  <2>2. Executed(w) \in Nat
    BY <1>3, MatchTypes
  <2>3. Skipped(Popped, w) <=> Behind(w)
    BY <1>1, <1>3, WhileReading
  <2> QED BY <2>1, <2>2, <2>3
<1>14. \A i \in 1 .. Len(got) : got[i] = Popped <=> ~Skipped(Popped, RanksOf(Popped)[i])
  <2>1. \A i \in 1 .. Len(got) : i \in 1 .. Len(cur.got) \/ i = Len(cur.got) + 1
    BY <1>5
  <2>2. \A i \in 1 .. Len(cur.got) : cur.got[i] = Popped <=> ~Skipped(Popped, RanksOf(Popped)[i])
    BY <1>1 DEF MatchInv, HeardInv
  <2>3. w = RanksOf(Popped)[Len(cur.got) + 1]
    <3>1. 1 \in 1 .. Len(cur.todo)
      BY <1>3
    <3> QED BY <1>3, <1>7, <3>1
  <2> TAKE i \in 1 .. Len(got)
  <2>4. CASE i \in 1 .. Len(cur.got)
    BY <1>5, <2>2, <2>4
  <2>5. CASE i = Len(cur.got) + 1
    <3>1. got[i] = answer.k /\ RanksOf(Popped)[i] = w
      BY <1>5, <2>3, <2>5
    <3>2. answer.k = Popped <=> ~Skipped(Popped, w)
      BY <1>13
    <3> QED BY <3>1, <3>2
  <2> QED BY <2>1, <2>4, <2>5
(* The ranks that are still to be heard after this answer. *)
<1>15. ASSUME NEW v \in Rank
       PROVE  (\E i \in Len(got) + 1 .. Len(RanksOf(Popped)) : RanksOf(Popped)[i] = v)
                 <=> IsAwaited(v) /\ v # w
  <2> DEFINE g == Len(cur.got)
             n == Len(RanksOf(Popped))
  <2>1. g \in Nat /\ n \in Nat /\ g + 1 \in 1 .. n /\ Len(got) = g + 1 /\ RanksOf(Popped)[g + 1] = w
    <3>1. 1 \in 1 .. Len(cur.todo)
      BY <1>3
    <3>2. w = RanksOf(Popped)[g + 1]
      BY <1>3, <1>7, <3>1
    <3>3. n \in Nat
      BY <1>6, RanksOfProperties DEF MatchInv
    <3>4. g + 1 \in 1 .. n
      <4> DEFINE t == Len(cur.todo)
      <4>1. g \in Nat /\ t \in Nat /\ 1 \in 1 .. t /\ g + t = n
        BY <1>3, <1>5, <1>7, <3>1
      <4> HIDE DEF g, t, n
      <4> QED BY <4>1, IndexShift
    <3> QED BY <1>5, <3>2, <3>3, <3>4
  <2>2. \A i, j \in 1 .. n : RanksOf(Popped)[i] = RanksOf(Popped)[j] => i = j
    BY <1>6, RanksOfProperties DEF MatchInv
  <2>3. IsAwaited(v) <=> \E i \in g + 1 .. n : RanksOf(Popped)[i] = v
    BY <1>1, WhileReading
  <2> HIDE DEF g, n
  <2>4. \A i \in g + 1 .. n : i \in 1 .. n /\ (i = g + 1 \/ i \in (g + 1) + 1 .. n)
    BY <2>1
  <2>5. \A i \in (g + 1) + 1 .. n : i \in g + 1 .. n /\ i \in 1 .. n /\ i # g + 1
    BY <2>1
  <2>6. ASSUME NEW i \in (g + 1) + 1 .. n, RanksOf(Popped)[i] = v PROVE IsAwaited(v) /\ v # w
    BY <2>1, <2>2, <2>3, <2>5, <2>6
  <2>7. ASSUME IsAwaited(v), v # w PROVE \E i \in (g + 1) + 1 .. n : RanksOf(Popped)[i] = v
    <3>1. PICK i \in g + 1 .. n : RanksOf(Popped)[i] = v
      BY <2>3, <2>7
    <3>2. i # g + 1
      BY <2>1, <2>7, <3>1
    <3> QED BY <2>4, <3>1, <3>2
  <2>8. (\E i \in (g + 1) + 1 .. n : RanksOf(Popped)[i] = v) <=> IsAwaited(v) /\ v # w
    BY <2>6, <2>7
  <2> QED BY <2>1, <2>8 DEF n
<1>16. ASSUME ~Goes
       PROVE  /\ FuturesInv' /\ ReadingInv' /\ future' \in Seq(Outcome) /\ cur' = Nobody
              /\ Nobody \in [k : Nat, todo : Seq(Rank), got : Seq(Nat), failed : BOOLEAN]
              /\ HeardInv' /\ FailureInv'
              /\ \A j \in Calls : \A v : j # Popped => (LeftUnread(j, v)' <=> LeftUnread(j, v))
              /\ \A v \in Rank : LeftUnread(Popped, v)' <=> IsAwaited(v) /\ v # w
  <2>1. PICK state \in {"result", "error", "timeout"} :
           /\ Resolve(state, got)
           /\ state = "result" => Len(cur.todo) = 1
           /\ FaultTolerance /\ ~isFailed => Len(cur.todo) = 1
    BY <1>11, <1>16
  <2>2. /\ FuturesInv' /\ ReadingInv' /\ future' \in Seq(Outcome) /\ cur' = Nobody
        /\ Nobody \in [k : Nat, todo : Seq(Rank), got : Seq(Nat), failed : BOOLEAN]
    BY <1>1, <1>5, <2>1, ResolveStep
  <2>3. /\ state = "result" => Len(got) = Len(RanksOf(Popped))
        /\ FaultTolerance /\ ~isFailed /\ state = "error" => Len(got) = Len(RanksOf(Popped))
    BY <1>12, <2>1
  <2>4. /\ HeardInv' /\ FailureInv'
        /\ \A j \in Calls : \A v : j # Popped => (LeftUnread(j, v)' <=> LeftUnread(j, v))
        /\ \A v : LeftUnread(Popped, v)' <=>
              \E i \in Len(got) + 1 .. Len(RanksOf(Popped)) : RanksOf(Popped)[i] = v
    BY <1>1, <1>5, <1>14, <2>1, <2>3, ResolveHeard
  <2> QED BY <1>15, <2>2, <2>4
<1>17. ASSUME Goes
       PROVE  HeardInv' /\ FailureInv' /\ \A v \in Rank : IsAwaited(v)' <=> IsAwaited(v) /\ v # w
  <2>1. /\ \A k, v : Skipped(k, v)' <=> Skipped(k, v)
        /\ cur'.got = got /\ cur'.todo = Tail(cur.todo) /\ future' = future /\ cur' # Nobody
    BY <1>1, <1>10, <1>17, LeftFrame
  <2>2. \A i : Skipped(Popped, RanksOf(Popped)[i])' <=> Skipped(Popped, RanksOf(Popped)[i])
    BY <1>6, <2>1
  <2>3. ASSUME NEW k \in Calls, NEW i PROVE Skipped(k, RanksOf(k)[i])' <=> Skipped(k, RanksOf(k)[i])
    BY <1>6, <2>1
  <2>4. HeardInv'
    BY <1>6, <1>14, <2>1, <2>2, <2>3 DEF MatchInv, HeardInv
  <2>5. FailureInv'
    BY <1>1, <1>6, <2>1 DEF MatchInv, FailureInv
  <2>6. ASSUME NEW v \in Rank PROVE IsAwaited(v)' <=> IsAwaited(v) /\ v # w
    <3> DEFINE h == Len(cur'.got)
               t == Len(cur'.todo)
               n == Len(RanksOf(Popped))
    <3>1. IsAwaited(v)' <=> \E i \in 1 .. t : cur'.todo[i] = v
      BY <2>1 DEF IsAwaited
    <3>2. h + t = n /\ \A i \in 1 .. t : cur'.todo[i] = RanksOf(Popped)[h + i]
      BY <1>6, <1>10, <1>17, <2>1 DEF ReadingInv
    <3>3. h \in Nat /\ t \in Nat /\ h = Len(got)
      BY <1>3, <1>5, <2>1
    <3> HIDE DEF h, t, n
    <3>4. \A i \in h + 1 .. n : i - h \in 1 .. t /\ h + (i - h) = i
      BY <3>2, <3>3
    <3>5. \A i \in 1 .. t : h + i \in h + 1 .. n
      BY <3>2, <3>3
    <3>6. ASSUME NEW i \in h + 1 .. n, RanksOf(Popped)[i] = v PROVE \E j \in 1 .. t : cur'.todo[j] = v
      <4>1. cur'.todo[i - h] = v
        BY <3>2, <3>4, <3>6
      <4> QED BY <3>4, <4>1
    <3>7. ASSUME NEW i \in 1 .. t, cur'.todo[i] = v PROVE \E j \in h + 1 .. n : RanksOf(Popped)[j] = v
      BY <3>2, <3>5, <3>7
    <3>8. (\E i \in h + 1 .. n : RanksOf(Popped)[i] = v) <=> IsAwaited(v) /\ v # w
      BY <1>15, <3>3 DEF n
    <3> QED BY <3>1, <3>6, <3>7, <3>8
  <2> QED BY <2>4, <2>5, <2>6
<1>18. TypeInv'
  <2>1. future \in Seq(Outcome)
    BY DEF MatchInv, TypeInv
  <2>2. /\ future' \in Seq(Outcome)
        /\ cur' \in [k : Nat, todo : Seq(Rank), got : Seq(Nat), failed : BOOLEAN]
    BY <1>10, <1>16, <2>1
  <2> QED BY <1>1, <1>8, <2>2 DEF MatchInv, TypeInv
<1>19. ASSUME NEW v \in Rank, v # w PROVE AnswersInv(v)'
  <2>1. InFlight(v)' = InFlight(v) /\ Executed(v)' = Executed(v) /\ AnswersInv(v)
    BY <1>1, <1>8, <1>9, <1>19 DEF InFlight, MatchInv
  <2>2. CASE Goes
    <3>1. Read(v)' = Read(v)
      BY <1>6, <1>17, <1>19, <2>2 DEF Read
    <3>2. Behind(v)' <=> Behind(v)
      BY <1>1, <1>10, <2>2, LeftFrame
    <3> QED BY <1>1, <2>1, <3>1, <3>2, AnswersFrame
  <2>3. CASE ~Goes
    BY <1>1, <1>16, <1>19, <2>1, <2>3, ResolveAnswers
  <2> QED BY <2>2, <2>3
<1>20. Read(w)' = Popped /\ (Behind(w)' <=> Behind(w))
  <2>1. CASE Goes
    <3>1. ~IsAwaited(w)'
      BY <1>3, <1>17, <2>1
    <3>2. Behind(w)' <=> Behind(w)
      BY <1>1, <1>10, <2>1, LeftFrame
    <3> QED BY <1>6, <3>1, <3>2 DEF Read
  <2>2. CASE ~Goes
    <3>1. ~IsAwaited(w)'
      BY <1>16, <2>2 DEF IsAwaited
    <3>2. ~LeftUnread(Popped, w) /\ ~LeftUnread(Popped, w)'
      BY <1>1, <1>3, <1>16, <2>2, WhileReading
    <3>3. Behind(w)' <=> Behind(w)
      BY <1>6, <1>16, <2>2, <3>2 DEF Behind
    <3> QED BY <1>6, <3>1, <3>3 DEF Read
  <2> QED BY <2>1, <2>2
<1>21. AnswersInv(w)'
  <2> DEFINE q == InFlight(w)
             p == InFlight(w)'
  <2>1. Executed(w)' = Executed(w)
    BY <1>3, <1>9
  <2>2. /\ Len(p) = Len(q) - 1 /\ Len(q) \in Nat /\ Len(q) > 0
        /\ \A i \in 1 .. Len(q) - 1 : p[i] = q[i + 1]
    <3>1. p = Tail(response[w]) \o output[w]
      BY <1>1, <1>3, <1>8 DEF InFlight
    <3>2. response[w] \in Seq(Answer) /\ output[w] \in Seq(Answer)
      BY <1>2, <1>3
    <3>3. /\ Len(Tail(response[w]) \o output[w]) = Len(response[w] \o output[w]) - 1
          /\ \A i \in 1 .. Len(response[w] \o output[w]) - 1 :
                (Tail(response[w]) \o output[w])[i] = (response[w] \o output[w])[i + 1]
      <4> DEFINE r == response[w]
                 o == output[w]
      <4>1. r \in Seq(Answer) /\ o \in Seq(Answer) /\ r # <<>>
        BY <1>1, <3>2
      <4> HIDE DEF r, o
      <4>2. /\ Len(Tail(r) \o o) = Len(r \o o) - 1
            /\ \A i \in 1 .. Len(r \o o) - 1 : (Tail(r) \o o)[i] = (r \o o)[i + 1]
        BY <4>1, ConcatTake
      <4> QED BY <4>2 DEF r, o
    <3>4. q = response[w] \o output[w]
      BY DEF InFlight
    <3>5. Len(q) \in Nat /\ Len(q) > 0
      BY <1>13
    <3> HIDE DEF q, p
    <3> QED BY <3>1, <3>3, <3>4, <3>5
  <2>3. /\ \A i, j \in 1 .. Len(q) : i < j => q[i].k < q[j].k
        /\ \A i \in 1 .. Len(q) :
              q[i].k \in Calls /\ Replies(w, q[i].k) /\ q[i].k <= Executed(w)
        /\ \A k \in Calls :
              Replies(w, k) /\ Read(w) < k /\ k <= Executed(w) => \E i \in 1 .. Len(q) : q[i].k = k
    BY <1>3 DEF MatchInv, AnswersInv
  <2>4. q[1].k = answer.k
    BY <1>13
  <2>5. \A k \in Calls : k \in Nat
    BY MatchTypes DEF Calls
  <2>6. \A k : (Replies(w, k)' <=> Replies(w, k))
    BY <1>1 DEF Replies
  <2>7. \A k : Unread(w, k)' <=> Replies(w, k) /\ (k > Executed(w) \/ \E i \in 1 .. Len(p) : p[i].k = k)
    BY <2>1, <2>6 DEF Unread
  <2> HIDE DEF q, p
  <2>8. \A i \in 1 .. Len(p) : i + 1 \in 1 .. Len(q) /\ 1 \in 1 .. Len(q) /\ 1 < i + 1 /\ p[i] = q[i + 1]
    BY <2>2
  <2>9. ASSUME NEW i \in 1 .. Len(p), NEW j \in 1 .. Len(p), i < j PROVE p[i].k < p[j].k
    <3>1. i + 1 < j + 1
      BY <2>2, <2>9
    <3> QED BY <2>3, <2>8, <3>1
  <2>10. ASSUME NEW i \in 1 .. Len(p)
         PROVE  /\ p[i].k \in Calls /\ reply'[p[i].k] \in {AllRanks, w} /\ p[i].k <= Executed(w)
                /\ answer.k < p[i].k
    <3>1. q[1].k < q[i + 1].k /\ q[i + 1].k \in Calls /\ Replies(w, q[i + 1].k) /\ q[i + 1].k <= Executed(w)
      BY <2>3, <2>8
    <3> QED BY <1>1, <2>4, <2>8, <3>1 DEF Replies
  (* Only the answer that was read is gone. *)
  <2>11. ASSUME NEW k \in Calls, Replies(w, k), Read(w) < k, k <= Executed(w), k # answer.k
         PROVE  \E i \in 1 .. Len(p) : p[i].k = k
    <3>1. PICK j \in 1 .. Len(q) : q[j].k = k
      BY <2>3, <2>11
    <3>2. j # 1
      BY <2>4, <2>11, <3>1
    <3>3. j - 1 \in 1 .. Len(p) /\ j - 1 \in 1 .. Len(q) - 1 /\ (j - 1) + 1 = j
      BY <2>2, <3>2
    <3>4. p[j - 1].k = k
      BY <2>2, <3>1, <3>3
    <3> QED BY <3>3, <3>4
  <2>12. answer.k \in Nat /\ answer.k <= Popped
    BY <1>4, <1>6, <1>13
  <2>13. ASSUME NEW k \in Calls, Replies(w, k), Popped < k, k <= Executed(w)
         PROVE  \E i \in 1 .. Len(p) : p[i].k = k
    <3>0. k \in Nat /\ Read(w) = Popped - 1
      BY <1>13, <2>5
    <3>1. Read(w) < k /\ k # answer.k
      BY <1>6, <2>12, <2>13, <3>0
    <3> QED BY <2>11, <2>13, <3>1
  <2>14. ASSUME Behind(w) PROVE \E k \in Calls : k <= Popped /\ Unread(w, k)'
    <3>1. Popped <= Popped /\ Read(w) < Popped /\ Popped # answer.k
          /\ (Popped > Executed(w) \/ Popped <= Executed(w))
      BY <1>6, <1>13, <2>14
    <3>2. Unread(w, Popped)'
      BY <1>6, <1>13, <2>7, <2>11, <3>1
    <3> QED BY <1>6, <3>1, <3>2
  <2>15. ASSUME ~Behind(w), NEW k \in Calls, k <= Popped PROVE ~Unread(w, k)'
    <3>1. ~(k > Executed(w))
      BY <1>6, <1>13, <2>5, <2>15
    <3>2. answer.k = Popped
      BY <1>13, <2>15
    <3>3. \A i \in 1 .. Len(p) : p[i].k # k
      <4> TAKE i \in 1 .. Len(p)
      <4>1. Popped < p[i].k /\ p[i].k \in Nat
        BY <2>5, <2>10, <3>2
      <4> QED BY <1>6, <2>5, <2>15, <4>1
    <3> QED BY <2>7, <3>1, <3>3
  <2>16. /\ \A i, j \in 1 .. Len(p) : i < j => p[i].k < p[j].k
         /\ \A i \in 1 .. Len(p) :
               p[i].k \in Calls' /\ reply'[p[i].k] \in {AllRanks, w} /\ p[i].k <= Executed(w)'
         /\ \A k \in Calls' : Replies(w, k)' /\ Read(w)' < k /\ k <= Executed(w)' =>
               \E i \in 1 .. Len(p) : p[i].k = k
         /\ Behind(w)' <=> \E k \in Calls' : k <= Read(w)' /\ Unread(w, k)'
    <3>1. Behind(w)' <=> \E k \in Calls' : k <= Read(w)' /\ Unread(w, k)'
      BY <1>6, <1>20, <2>14, <2>15
    <3> QED BY <1>6, <1>20, <2>1, <2>6, <2>9, <2>10, <2>13, <3>1
  <2> QED BY <1>3, <2>16 DEF AnswersInv, p, Replies
<1>22. \A v \in Rank : CallsInv(v)' /\ AnswersInv(v)'
  BY <1>9, <1>19, <1>21
<1> QED BY <1>10, <1>16, <1>17, <1>18, <1>22 DEF MatchInv

(* A worker takes the next call ... *)
LEMMA MatchDequeue ==
    ASSUME MatchInv, NEW w \in Rank, Dequeue(w) PROVE MatchInv'
<1>1. /\ running[w] = 0 /\ rpc[w] # <<>>
      /\ running' = [running EXCEPT ![w] = Head(rpc[w])]
      /\ rpc' = [rpc EXCEPT ![w] = Tail(rpc[w])]
      /\ UNCHANGED <<reply, output, response, dead, isFailed, cancelled, futures, future, awaited, cur>>
  BY DEF Dequeue
<1>2. /\ rpc \in [Rank -> Seq(Nat)] /\ running \in [Rank -> Nat] /\ rpc[w] \in Seq(Nat)
      /\ Len(reply) \in Nat /\ Len(rpc[w]) \in Nat /\ Dequeued(w) \in Nat
      /\ Len(rpc[w]) = Len(reply) - Dequeued(w) /\ Len(rpc[w]) <= Capacity /\ Capacity \in Nat
  BY MatchTypes, ExecutorAssumption DEF MatchInv, TypeInv
<1>3. /\ Head(rpc[w]) \in Nat /\ Head(rpc[w]) = rpc[w][1] /\ Tail(rpc[w]) \in Seq(Nat)
      /\ Len(Tail(rpc[w])) = Len(rpc[w]) - 1 /\ Len(rpc[w]) > 0
      /\ \A i \in 1 .. Len(Tail(rpc[w])) : Tail(rpc[w])[i] = rpc[w][i + 1]
  BY <1>1, <1>2, HeadTailProperties, EmptySeq
<1>4. /\ rpc' \in [Rank -> Seq(Nat)] /\ running' \in [Rank -> Nat]
      /\ rpc'[w] = Tail(rpc[w]) /\ running'[w] = Head(rpc[w])
      /\ \A v \in Rank : v # w => rpc'[v] = rpc[v] /\ running'[v] = running[v]
  BY <1>1, <1>2, <1>3
<1>5. TypeInv'
  <2>1. \A v \in Rank : Len(rpc'[v]) <= Capacity
    <3>1. Len(rpc'[w]) <= Capacity
      BY <1>2, <1>3, <1>4
    <3> QED BY <1>4, <3>1 DEF MatchInv, TypeInv
  <2> QED BY <1>1, <1>4, <2>1 DEF MatchInv, TypeInv
<1>6. /\ FuturesInv' /\ ReadingInv' /\ HeardInv' /\ FailureInv'
      /\ \A v \in Rank : Read(v)' = Read(v)
  BY <1>1, <1>5, ExecutorFrame DEF TypeInv
<1>7. rpc[w][1] = Dequeued(w) + 1
  <2>1. 1 \in 1 .. Len(rpc[w])
    BY <1>2, <1>3
  <2> QED BY <2>1 DEF MatchInv, CallsInv
<1>8. CallsInv(w)' /\ Executed(w)' = Executed(w)
  <2>1. Dequeued(w)' = Dequeued(w) + 1
    BY <1>1, <1>2, <1>3, <1>4 DEF Dequeued
  <2>2. running'[w] = Dequeued(w) + 1 /\ running'[w] # 0
    BY <1>2, <1>3, <1>4, <1>7
  <2>3. Executed(w) = Dequeued(w)
    BY <1>1, <1>2 DEF Executed
  <2>4. Executed(w)' = Dequeued(w)
    BY <1>2, <2>1, <2>2 DEF Executed
  <2>5. ASSUME NEW i \in 1 .. Len(rpc'[w]) PROVE rpc'[w][i] = Dequeued(w)' + i
    <3> DEFINE n == Len(rpc[w])
               d == Dequeued(w)
    <3>0. n \in Nat /\ d \in Nat /\ i \in 1 .. n - 1 /\ Dequeued(w)' = d + 1
      BY <1>2, <1>3, <1>4, <2>1
    <3>1. i + 1 \in 1 .. Len(rpc[w]) /\ Dequeued(w) + (i + 1) = Dequeued(w)' + i
      <4>1. i + 1 \in 1 .. n /\ d + (i + 1) = Dequeued(w)' + i
        <5> HIDE DEF n, d
        <5> QED BY <3>0
      <4> QED BY <4>1
    <3>2. rpc[w][i + 1] = Dequeued(w) + (i + 1)
      BY <3>1 DEF MatchInv, CallsInv
    <3> QED BY <1>3, <1>4, <3>1, <3>2
  <2> QED BY <1>2, <2>1, <2>2, <2>3, <2>4, <2>5 DEF CallsInv
<1>9. ASSUME NEW v \in Rank
      PROVE  CallsInv(v)' /\ AnswersInv(v)'
  <2>1. CallsInv(v)' /\ Executed(v)' = Executed(v)
    <3>1. CASE v = w
      BY <1>8, <3>1
    <3>2. CASE v # w
      BY <1>1, <1>4, <3>2, WorkerFrame DEF MatchInv
    <3> QED BY <3>1, <3>2
  <2>2. InFlight(v)' = InFlight(v) /\ Read(v)' = Read(v)
    BY <1>1, <1>6 DEF InFlight
  <2>3. AnswersInv(v) /\ (Behind(v)' <=> Behind(v))
    BY <1>1, LeftFrame DEF MatchInv
  <2> QED BY <1>1, <2>1, <2>2, <2>3, AnswersFrame
<1> QED BY <1>5, <1>6, <1>9 DEF MatchInv

(* ... executes it and, if it is to answer, puts its answer at the end. *)
LEMMA MatchExecute ==
    ASSUME MatchInv, NEW w \in Rank, Execute(w) PROVE MatchInv'
<1> DEFINE k == running[w]
<1>1. PICK ok \in BOOLEAN :
         IF ~Replies(w, k) THEN UNCHANGED <<output, response>>
         ELSE IF AsyncOutput
         THEN /\ output' = [output EXCEPT ![w] = Append(@, [k |-> k, ok |-> ok])]
              /\ UNCHANGED response
         ELSE /\ Len(response[w]) < Capacity
              /\ response' = [response EXCEPT ![w] = Append(@, [k |-> k, ok |-> ok])]
              /\ UNCHANGED output
  BY DEF Execute
<1>2. /\ k # 0 /\ running' = [running EXCEPT ![w] = 0]
      /\ UNCHANGED <<reply, rpc, dead, isFailed, cancelled, futures, future, awaited, cur>>
  BY DEF Execute
<1>3. /\ running \in [Rank -> Nat] /\ output \in [Rank -> Seq(Answer)] /\ response \in [Rank -> Seq(Answer)]
      /\ Len(reply) \in Nat /\ Dequeued(w) \in Nat /\ Executed(w) \in Nat /\ Dequeued(w) <= Len(reply)
      /\ \A v \in Rank : Len(response[v]) <= Capacity /\ Len(response[v]) \in Nat
      /\ Capacity \in Nat
  <2>1. /\ running \in [Rank -> Nat] /\ output \in [Rank -> Seq(Answer)] /\ response \in [Rank -> Seq(Answer)]
        /\ \A v \in Rank : Len(response[v]) <= Capacity
    BY DEF MatchInv, TypeInv
  <2>2. \A v \in Rank : Len(response[v]) \in Nat
    <3>1. ASSUME NEW v \in Rank PROVE Len(response[v]) \in Nat
      <4>1. response[v] \in Seq(Answer)
        BY <2>1
      <4> QED BY <4>1, LenProperties
    <3> QED BY <3>1
  <2>3. Len(reply) \in Nat /\ Dequeued(w) \in Nat /\ Executed(w) \in Nat /\ Dequeued(w) <= Len(reply)
    BY MatchTypes
  <2> QED BY <2>1, <2>2, <2>3, ExecutorAssumption
<1>4. k = Dequeued(w) /\ k \in Nat /\ Executed(w) = k - 1 /\ k \in Calls
  <2>1. k = Dequeued(w)
    BY <1>2 DEF MatchInv, CallsInv
  <2>2. Executed(w) = Dequeued(w) - 1
    BY <1>2 DEF Executed
  <2> QED BY <1>2, <1>3, <2>1, <2>2 DEF Calls
<1> HIDE DEF k
<1>5. running' \in [Rank -> Nat] /\ running'[w] = 0 /\ \A v \in Rank : v # w => running'[v] = running[v]
  BY <1>2, <1>3
<1>6. PICK a \in Answer : a = [k |-> k, ok |-> ok] /\ a.k = k
  <2>1. [k |-> k, ok |-> ok] \in Answer
    BY <1>4 DEF Answer
  <2> QED BY <2>1
<1>7. /\ output' \in [Rank -> Seq(Answer)] /\ response' \in [Rank -> Seq(Answer)]
      /\ \A v \in Rank : v # w => output'[v] = output[v] /\ response'[v] = response[v]
      /\ \A v \in Rank : Len(response'[v]) <= Capacity
      /\ \A v \in Rank : AsyncOutput \/ output'[v] = <<>>
  <2>1. \A v \in Rank : AsyncOutput \/ output[v] = <<>>
    BY DEF MatchInv, TypeInv
  <2>2. CASE ~Replies(w, k)
    BY <1>1, <1>3, <2>1, <2>2
  <2>3. CASE Replies(w, k) /\ AsyncOutput
    <3>1. Append(output[w], a) \in Seq(Answer) /\ output' = [output EXCEPT ![w] = Append(output[w], a)]
          /\ response' = response
      BY <1>1, <1>3, <1>6, <2>3, AppendProperties
    <3> QED BY <1>3, <2>3, <3>1
  <2>4. CASE Replies(w, k) /\ ~AsyncOutput
    <3>1. /\ Append(response[w], a) \in Seq(Answer) /\ Len(Append(response[w], a)) = Len(response[w]) + 1
      BY <1>3, <1>6, AppendProperties
    <3>2. /\ response' = [response EXCEPT ![w] = Append(response[w], a)]
          /\ output' = output /\ Len(response[w]) < Capacity
      BY <1>1, <1>6, <2>4
    <3>3. Len(response'[w]) <= Capacity
      BY <1>3, <3>1, <3>2
    <3> QED BY <1>3, <2>1, <3>1, <3>2, <3>3
  <2> QED BY <2>2, <2>3, <2>4
<1>8. ~Replies(w, k) => InFlight(w)' = InFlight(w)
  BY <1>1 DEF InFlight
<1>9. ASSUME Replies(w, k)
      PROVE  /\ Len(InFlight(w)') = Len(InFlight(w)) + 1
             /\ \A i \in 1 .. Len(InFlight(w)) : InFlight(w)'[i] = InFlight(w)[i]
             /\ InFlight(w)'[Len(InFlight(w)) + 1] = a
  <2> DEFINE r == response[w]
             o == output[w]
  <2>1. r \in Seq(Answer) /\ o \in Seq(Answer)
    BY <1>3
  <2>2. InFlight(w) = r \o o
    BY DEF InFlight
  <2>3. CASE AsyncOutput
    <3>1. InFlight(w)' = r \o Append(o, a)
      BY <1>1, <1>3, <1>6, <1>9, <2>3 DEF InFlight
    <3> HIDE DEF r, o
    <3> QED BY <1>6, <2>1, <2>2, <3>1, ConcatAdd
  <2>4. CASE ~AsyncOutput
    <3>1. o = <<>>
      BY <2>4 DEF MatchInv, TypeInv
    <3>2. InFlight(w)' = Append(r, a) \o o
      BY <1>1, <1>3, <1>6, <1>9, <2>4 DEF InFlight
    <3> HIDE DEF r, o
    <3>3. Append(r, a) \in Seq(Answer) /\ Len(Append(r, a)) = Len(r) + 1
          /\ (\A i \in 1 .. Len(r) : Append(r, a)[i] = r[i]) /\ Append(r, a)[Len(r) + 1] = a
      BY <1>6, <2>1, AppendProperties
    <3>4. Append(r, a) \o o = Append(r, a) /\ r \o o = r
      BY <2>1, <3>1, <3>3, ConcatEmptySeq
    <3> QED BY <2>2, <3>2, <3>3, <3>4
  <2> QED BY <2>3, <2>4
<1>10. TypeInv'
  BY <1>2, <1>5, <1>7 DEF MatchInv, TypeInv
<1>11. /\ FuturesInv' /\ ReadingInv' /\ HeardInv' /\ FailureInv'
       /\ \A v \in Rank : Read(v)' = Read(v)
  BY <1>2, <1>10, ExecutorFrame DEF TypeInv
<1>12. Dequeued(w)' = Dequeued(w) /\ Executed(w)' = k
  BY <1>2, <1>3, <1>4, <1>5 DEF Dequeued, Executed
<1>13. CallsInv(w)'
  BY <1>2, <1>4, <1>5, <1>12 DEF MatchInv, CallsInv
<1>14. AnswersInv(w)'
  <2> DEFINE q == InFlight(w)
             p == InFlight(w)'
  <2>1. /\ Read(w) \in Int /\ q \in Seq(Answer) /\ Len(q) \in Nat
        /\ \A i \in 1 .. Len(q) : q[i].k \in Nat
    BY MatchTypes
  <2>2. /\ \A i, j \in 1 .. Len(q) : i < j => q[i].k < q[j].k
        /\ \A i \in 1 .. Len(q) :
              q[i].k \in Calls /\ Replies(w, q[i].k) /\ q[i].k <= k - 1
        /\ \A j \in Calls :
              Replies(w, j) /\ Read(w) < j /\ j <= k - 1 => \E i \in 1 .. Len(q) : q[i].k = j
        /\ Behind(w) <=> \E j \in Calls : j <= Read(w) /\ Unread(w, j)
    BY <1>4 DEF MatchInv, AnswersInv
  <2>3. Calls' = Calls /\ (\A j : reply'[j] = reply[j]) /\ \A j : Replies(w, j)' <=> Replies(w, j)
    BY <1>2 DEF Calls, Replies
  <2>4. \A j \in Calls : j \in Nat /\ (j > k - 1 <=> j > k \/ j = k)
    BY <1>3, <1>4 DEF Calls
  <2>5. /\ \A j : Unread(w, j) <=> Replies(w, j) /\ (j > k - 1 \/ \E i \in 1 .. Len(q) : q[i].k = j)
        /\ \A j : Unread(w, j)' <=> Replies(w, j) /\ (j > k \/ \E i \in 1 .. Len(p) : p[i].k = j)
    BY <1>4, <1>12, <2>3 DEF Unread
  <2>6. Behind(w)' <=> Behind(w)
    BY <1>2, LeftFrame
  <2>7. CASE ~Replies(w, k)
    <3>1. p = q
      BY <1>8, <2>7
    <3>2. \A j \in Calls : Replies(w, j) /\ j <= k => j <= k - 1
      BY <1>4, <2>4, <2>7
    <3>3. \A i \in 1 .. Len(q) : q[i].k <= k
      BY <1>4, <2>1, <2>2
    <3> HIDE DEF q, p
    <3>4. \A j \in Calls : Unread(w, j)' <=> Unread(w, j)
      BY <2>4, <2>5, <2>7, <3>1
    <3>5. /\ \A i, j \in 1 .. Len(q) : i < j => q[i].k < q[j].k
          /\ \A i \in 1 .. Len(q) :
                q[i].k \in Calls' /\ reply'[q[i].k] \in {AllRanks, w} /\ q[i].k <= Executed(w)'
          /\ \A j \in Calls' :
                Replies(w, j)' /\ Read(w)' < j /\ j <= Executed(w)' => \E i \in 1 .. Len(q) : q[i].k = j
          /\ Behind(w)' <=> \E j \in Calls' : j <= Read(w)' /\ Unread(w, j)'
      BY <1>11, <1>12, <2>2, <2>3, <2>6, <3>2, <3>3, <3>4 DEF Replies
    <3> QED BY <3>1, <3>5 DEF AnswersInv, Replies, p, q
  <2>8. CASE Replies(w, k)
    <3>1. Len(p) = Len(q) + 1 /\ (\A i \in 1 .. Len(q) : p[i] = q[i]) /\ p[Len(q) + 1] = a
      BY <1>9, <2>8
    <3> HIDE DEF q, p
    <3>2. \A i \in 1 .. Len(p) : i \in 1 .. Len(q) \/ i = Len(q) + 1
      BY <2>1, <3>1
    <3>3. a.k = k /\ Len(q) + 1 \in 1 .. Len(p) /\ \A i \in 1 .. Len(q) : i \in 1 .. Len(p)
      BY <1>6, <2>1, <3>1
    <3>4. ASSUME NEW i \in 1 .. Len(p), NEW j \in 1 .. Len(p), i < j PROVE p[i].k < p[j].k
      <4>1. i \in 1 .. Len(q)
        BY <2>1, <3>2, <3>4
      <4>2. CASE j \in 1 .. Len(q)
        BY <2>2, <3>1, <3>4, <4>1, <4>2
      <4>3. CASE j = Len(q) + 1
        <5>1. p[j].k = k /\ p[i].k = q[i].k /\ q[i].k \in Nat /\ q[i].k <= k - 1
          BY <2>1, <2>2, <3>1, <3>3, <4>1, <4>3
        <5> QED BY <1>4, <5>1
      <4> QED BY <3>2, <4>2, <4>3
    <3>5. ASSUME NEW i \in 1 .. Len(p)
          PROVE  p[i].k \in Calls' /\ reply'[p[i].k] \in {AllRanks, w} /\ p[i].k <= Executed(w)'
      <4>1. CASE i \in 1 .. Len(q)
        <5>1. q[i].k <= k
          BY <1>4, <2>1, <2>2, <4>1
        <5> QED BY <1>12, <2>2, <2>3, <3>1, <4>1, <5>1 DEF Replies
      <4>2. CASE i = Len(q) + 1
        <5>1. p[i] = a /\ k <= k
          BY <1>4, <3>1, <4>2
        <5> QED BY <1>4, <1>12, <2>3, <2>8, <3>3, <5>1 DEF Replies
      <4> QED BY <3>2, <4>1, <4>2
    (* The new answer is the only one that comes in, and it was awaited. *)
    <3>6. \A j : (\E i \in 1 .. Len(p) : p[i].k = j) <=> j = k \/ \E i \in 1 .. Len(q) : q[i].k = j
      BY <3>1, <3>2, <3>3
    <3>7. \A j \in Calls : Unread(w, j)' <=> Unread(w, j)
      BY <2>4, <2>5, <2>8, <3>6
    <3>8. ASSUME NEW j \in Calls, Replies(w, j), Read(w) < j, j <= k
          PROVE  \E i \in 1 .. Len(p) : p[i].k = j
      <4>1. j = k \/ j <= k - 1
        BY <1>4, <2>4, <3>8
      <4> QED BY <2>2, <3>6, <3>8, <4>1
    <3>9. /\ \A i, j \in 1 .. Len(p) : i < j => p[i].k < p[j].k
          /\ \A i \in 1 .. Len(p) :
                p[i].k \in Calls' /\ reply'[p[i].k] \in {AllRanks, w} /\ p[i].k <= Executed(w)'
          /\ \A j \in Calls' :
                Replies(w, j)' /\ Read(w)' < j /\ j <= Executed(w)' => \E i \in 1 .. Len(p) : p[i].k = j
          /\ Behind(w)' <=> \E j \in Calls' : j <= Read(w)' /\ Unread(w, j)'
      <4>1. Behind(w)' <=> \E j \in Calls' : j <= Read(w)' /\ Unread(w, j)'
        BY <1>11, <2>2, <2>3, <2>6, <3>7
      <4> QED BY <1>11, <1>12, <2>3, <3>4, <3>5, <3>8, <4>1
    <3> QED BY <3>9 DEF AnswersInv, p, Replies
  <2> QED BY <2>7, <2>8
<1>15. ASSUME NEW v \in Rank
       PROVE  CallsInv(v)' /\ AnswersInv(v)'
  <2>1. CASE v = w
    BY <1>13, <1>14, <2>1
  <2>2. CASE v # w
    <3>1. CallsInv(v)' /\ Executed(v)' = Executed(v)
      BY <1>2, <1>5, <2>2, WorkerFrame DEF MatchInv
    <3>2. InFlight(v)' = InFlight(v)
      BY <1>7, <2>2 DEF InFlight
    <3>3. AnswersInv(v) /\ (Behind(v)' <=> Behind(v))
      BY <1>2, LeftFrame DEF MatchInv
    <3> QED BY <1>2, <1>11, <3>1, <3>2, <3>3, AnswersFrame
  <2> QED BY <2>1, <2>2
<1> QED BY <1>10, <1>11, <1>15 DEF MatchInv

(* The output thread moves an answer on. *)
LEMMA MatchEnqueue ==
    ASSUME MatchInv, NEW w \in Rank, EnqueueOutput(w) PROVE MatchInv'
<1>1. /\ output[w] # <<>> /\ Len(response[w]) < Capacity
      /\ response' = [response EXCEPT ![w] = Append(response[w], Head(output[w]))]
      /\ output' = [output EXCEPT ![w] = Tail(output[w])]
      /\ UNCHANGED <<reply, rpc, running, dead, isFailed, cancelled, futures, future, awaited, cur>>
  BY DEF EnqueueOutput
<1>2. /\ output \in [Rank -> Seq(Answer)] /\ response \in [Rank -> Seq(Answer)]
      /\ output[w] \in Seq(Answer) /\ response[w] \in Seq(Answer)
      /\ \A v \in Rank : Len(response[v]) <= Capacity
      /\ \A v \in Rank : AsyncOutput \/ output[v] = <<>>
      /\ Capacity \in Nat
  BY ExecutorAssumption DEF MatchInv, TypeInv
<1>3. Head(output[w]) \in Answer /\ Tail(output[w]) \in Seq(Answer)
  BY <1>1, <1>2, HeadTailProperties
<1>4. /\ Append(response[w], Head(output[w])) \in Seq(Answer)
      /\ Len(Append(response[w], Head(output[w]))) = Len(response[w]) + 1
  BY <1>2, <1>3, AppendProperties
<1>5. /\ output' \in [Rank -> Seq(Answer)] /\ response' \in [Rank -> Seq(Answer)]
      /\ output'[w] = Tail(output[w]) /\ response'[w] = Append(response[w], Head(output[w]))
      /\ \A v \in Rank : v # w => output'[v] = output[v] /\ response'[v] = response[v]
  BY <1>1, <1>2, <1>3, <1>4
<1>6. TypeInv'
  <2>1. Len(response'[w]) <= Capacity
    BY <1>1, <1>2, <1>4, <1>5
  <2>2. AsyncOutput
    BY <1>1, <1>2
  <2> QED BY <1>1, <1>2, <1>5, <2>1, <2>2 DEF MatchInv, TypeInv
<1>7. /\ FuturesInv' /\ ReadingInv' /\ HeardInv' /\ FailureInv'
      /\ \A v \in Rank : Read(v)' = Read(v)
  BY <1>1, <1>6, ExecutorFrame DEF TypeInv
<1>8. InFlight(w)' = InFlight(w)
  <2> DEFINE r == response[w]
             o == output[w]
  <2>1. r \in Seq(Answer) /\ o \in Seq(Answer) /\ o # <<>>
    BY <1>1, <1>2
  <2>2. InFlight(w) = r \o o /\ InFlight(w)' = Append(r, Head(o)) \o Tail(o)
    BY <1>5 DEF InFlight
  <2> HIDE DEF r, o
  <2> QED BY <2>1, <2>2, ConcatMove
<1>9. ASSUME NEW v \in Rank
      PROVE  CallsInv(v)' /\ AnswersInv(v)'
  <2>1. CallsInv(v)' /\ Executed(v)' = Executed(v)
    BY <1>1, WorkerFrame DEF MatchInv
  <2>2. InFlight(v)' = InFlight(v)
    <3>1. CASE v = w
      BY <1>8, <3>1
    <3>2. CASE v # w
      BY <1>5, <3>2 DEF InFlight
    <3> QED BY <3>1, <3>2
  <2>3. AnswersInv(v) /\ (Behind(v)' <=> Behind(v))
    BY <1>1, LeftFrame DEF MatchInv
  <2> QED BY <1>1, <1>7, <2>1, <2>2, <2>3, AnswersFrame
<1> QED BY <1>6, <1>7, <1>9 DEF MatchInv

LEMMA MatchStep ==
    ASSUME MatchInv, [Next]_vars PROVE MatchInv'
<1>1. CASE Next
  BY <1>1, MatchCall, MatchQuiet, MatchPop, MatchRead, MatchReadFails, MatchDequeue, MatchExecute,
     MatchEnqueue DEF Next, Executor
<1>2. CASE UNCHANGED vars
  <2> USE <1>2 DEF vars
  <2>1. TypeInv'
    BY DEF MatchInv, TypeInv
  <2>2. /\ FuturesInv' /\ ReadingInv' /\ HeardInv' /\ FailureInv'
        /\ \A v \in Rank : Read(v)' = Read(v)
    BY <2>1, ExecutorFrame DEF TypeInv
  <2>3. \A v \in Rank : CallsInv(v)' /\ Executed(v)' = Executed(v)
    BY WorkerFrame DEF MatchInv
  <2>4. \A v \in Rank : InFlight(v)' = InFlight(v)
    BY DEF InFlight
  <2>5. \A v \in Rank : AnswersInv(v) /\ (Behind(v)' <=> Behind(v))
    BY LeftFrame DEF MatchInv
  <2>6. \A v \in Rank : AnswersInv(v)'
    BY <2>2, <2>3, <2>4, <2>5, AnswersFrame
  <2> QED BY <2>1, <2>2, <2>3, <2>6 DEF MatchInv
<1> QED BY <1>1, <1>2

(* Answers are matched to calls by their order alone.  With any number of
   workers, calls, failures, timeouts and pending futures, queues of any size
   and with or without fault tolerance, futures are resolved in the order of
   the calls; what collective_rpc hears from a worker is the answer to its own
   call if and only if no earlier call left an answer of that worker behind;
   and with fault tolerance, until a worker dies, only a timeout leaves one. *)
THEOREM AnswersAreMatched == Spec => []AnswersMatched
<1>1. Init => MatchInv
  BY MatchInit
<1>2. MatchInv /\ [Next]_vars => MatchInv'
  BY MatchStep
<1>3. MatchInv => AnswersMatched
  <2> SUFFICES ASSUME MatchInv PROVE AnswersMatched
    OBVIOUS
  <2>1. /\ Len(reply) \in Nat /\ Popped \in Nat /\ Popped <= Len(reply)
        /\ reply \in Seq(Rank \cup {AllRanks}) /\ future \in Seq(Outcome) /\ Len(future) = Len(reply)
        /\ DOMAIN reply = Calls /\ DOMAIN future = Calls
    BY MatchTypes DEF MatchInv, TypeInv, FuturesInv, Calls
  <2>2. TypeOK
    <3>1. cur.k \in 0 .. Len(reply)
      <4>1. CASE cur = Nobody
        BY <2>1, <4>1 DEF Nobody
      <4>2. CASE cur # Nobody
        BY <2>1, <4>2 DEF MatchInv, FuturesInv
      <4> QED BY <4>1, <4>2
    <3>2. \A k \in DOMAIN reply : reply[k] \in Rank \cup {AllRanks}
      BY <2>1
    <3> QED BY <2>1, <3>1, <3>2 DEF TypeOK, MatchInv, TypeInv
  <2>3. AnswersBelongToCall
    <3>1. ASSUME NEW k \in Calls PROVE DOMAIN future[k].got = 1 .. Len(future[k].got)
      <4>1. future[k] \in Outcome
        BY <2>1, ElementOfSeq DEF Calls
      <4>2. future[k].got \in Seq(Nat)
        BY <4>1 DEF Outcome
      <4> QED BY <4>2, LenProperties
    <3> QED BY <2>1, <3>1 DEF AnswersBelongToCall, MatchInv, HeardInv
  <2>4. FailureReadsAll
    BY <2>1 DEF FailureReadsAll, MatchInv, FailureInv
  <2>5. ResolvedInOrder
    <3> SUFFICES ASSUME NEW j \in Calls, NEW k \in Calls, j < k, future[j].state = "pending"
                 PROVE  future[k].state = "pending"
      BY <2>1 DEF ResolvedInOrder
    <3>1. j \in Nat /\ k \in Nat /\ (j > Popped \/ j = Popped)
      BY <2>1 DEF MatchInv, FuturesInv, Calls
    <3>2. k > Popped
      BY <2>1, <3>1
    <3> QED BY <3>2 DEF MatchInv, FuturesInv
  <2> QED BY <2>2, <2>3, <2>4, <2>5 DEF AnswersMatched
<1> QED BY <1>1, <1>2, <1>3, PTL DEF Spec
=============================================================================
