---------------------------- MODULE PhraseGuard ----------------------------
(***************************************************************************)
(* One request with banned phrases under the asynchronous scheduler        *)
(* (sonar/v1/phrase_guard).  The journal PendingText holds back tokens     *)
(* that may begin a phrase; when a phrase is complete the request is       *)
(* rewound to the token where it began, and resumed once the frames of the *)
(* discarded history have drained, with that token masked.                 *)
(*                                                                         *)
(* Text is what the tokens decode to after case folding.  Positions count  *)
(* from 0.  A frame stands for all the tokens of one step of the request,  *)
(* so num_in_flight_tokens > 0 iff there is a frame.                       *)
(***************************************************************************)
EXTENDS PhraseMatcher, FiniteSets

CONSTANTS
    Setups,            \* bound: the requests, each with its model
    MAX_RETRIES, MAX_ZERO_WIDTH_TOKENS,
    Depth,             \* frames in flight
    MaxPreemptions     \* bound: preemptions for lack of memory

ASSUME PhraseAssumption ==
    /\ MAX_RETRIES \in Nat /\ MAX_ZERO_WIDTH_TOKENS \in Nat
    /\ Depth \in Nat \ {0} /\ MaxPreemptions \in Nat
    /\ \A s \in Setups :
          /\ s.max_tokens \in Nat \ {0} /\ s.step \in Nat \ {0}
          /\ s.stops \subseteq DOMAIN s.text /\ s.include_stop \in BOOLEAN
          /\ s.phrases # <<>> /\ \A k \in DOMAIN s.phrases : s.phrases[k] # <<>>

VARIABLES
    setup,             \* the request's parameters
    pattern,           \* the automaton of its phrases
    pending,           \* the journal (PendingText)
    guard,             \* retries, retry_position, blocked
    output,            \* request.output_token_ids
    status,
    rewinding,         \* request_id in self.rewinds
    stale, drop,       \* frames marked stale; drop_stale_output
    preemptions,
    frames,            \* frames in flight, oldest first
    worker,            \* the worker's history and retry mask
    sent               \* tokens that left the engine

phrases == setup.phrases
TokenText == setup.text             \* token -> the bytes it decodes to
Token == DOMAIN TokenText
StopTokens == setup.stops           \* eos_token_id and stop_token_ids
IncludeStop == setup.include_stop   \* include_stop_str_in_output
MaxTokens == setup.max_tokens
MaxStep == setup.step               \* tokens that one frame may produce

request == <<output, status, rewinding, stale, drop, preemptions>>
vars == <<setup, pattern, pending, guard, request, frames, worker, sent>>

Finished == status \in {"stopped", "length", "error", "aborted"}
NoRetry == [position |-> -1, blocked |-> <<>>]

Init ==
    /\ setup \in Setups
    /\ pattern = compile(phrases)
    /\ pending = [tokens |-> <<>>, ends |-> <<>>, states |-> <<>>, state |-> 0,
                  published_state |-> 0, num_bytes |-> 0, published |-> 0, zero_width |-> 0]
    /\ guard = [retries |-> 0, retry |-> NoRetry]
    /\ output = <<>> /\ status = "waiting" /\ rewinding = FALSE
    /\ stale = 0 /\ drop = FALSE /\ preemptions = 0
    /\ frames = <<>>
    /\ worker = [history |-> <<>>, retry |-> NoRetry]
    /\ sent = <<>>

-----------------------------------------------------------------------------
(* Decoding.  The token "tail" completes the character that "lead" began;
   a fragment is withheld until the text no longer ends in a broken
   character, and is then shown as a replacement. *)

DecodeStep(acc, token) ==
    LET completes == token = "tail" /\ acc.open # <<>> /\ Last(acc.open) = "lead"
        broken == IF completes THEN Len(acc.open) - 1 ELSE Len(acc.open)
    IN  IF token \in {"lead", "tail"} /\ ~completes
        THEN [acc EXCEPT !.open = Append(@, token)]
        ELSE [open |-> <<>>, text |-> acc.text \o [k \in 1 .. broken |-> "rep"] \o TokenText[token]]

Decoded(tokens) == Fold(DecodeStep, [open |-> <<>>, text |-> <<>>], tokens)
Text(tokens) == Decoded(tokens).text

(* What token adds to the text, for a decoder that has seen the history. *)
decode(history, token) ==
    Bind(Text(Append(history, token)), LAMBDA text : SubSeq(text, Len(Text(history)) + 1, Len(text)))

-----------------------------------------------------------------------------
(* The journal *)

max_pending_tokens == MAX_ZERO_WIDTH_TOKENS + Max({Len(p) : p \in Range(phrases)})

(* How many tokens lie before the byte offset, without the zero-width tokens
   that contributed to what follows. *)
token_at(ends, offset) ==
    LET before == {i \in DOMAIN ends : ends[i] <= offset}
        wide == {i \in before : ends[i] > (IF i = 1 THEN 0 ELSE ends[i - 1])}
    IN  Max(wide \cup {0})

release(p, count) ==
    IF count = 0 THEN p
    ELSE [p EXCEPT !.tokens = SubSeq(@, count + 1, Len(@)),
                   !.ends = [i \in 1 .. Len(@) - count |-> @[count + i] - @[count]],
                   !.states = SubSeq(@, count + 1, Len(@)),
                   !.published_state = p.states[count],
                   !.num_bytes = @ - p.ends[count],
                   !.published = @ + count]

(* The journal with a token whose text has been scanned. *)
Scanned(p, token, data, hit) ==
    [p EXCEPT !.tokens = Append(@, token),
              !.num_bytes = @ + Len(data),
              !.ends = Append(@, p.num_bytes + Len(data)),
              !.zero_width = IF data # <<>> THEN 0 ELSE @ + 1,
              !.state = hit.state, !.states = Append(@, hit.state)]

Full(p) == Len(p.tokens) > max_pending_tokens \/ p.zero_width > MAX_ZERO_WIDTH_TOKENS

(* The tokens up to count are ready; after a match the others are forgotten. *)
Decide(p, count, matched) ==
    LET q == release(p, count)
    IN  [ready |-> SubSeq(p.tokens, 1, count),
         decision |-> IF matched THEN "rewind" ELSE "go on",
         blocked |-> p.tokens[IF matched THEN count + 1 ELSE 1],
         pending |-> IF ~matched THEN q
                     ELSE [q EXCEPT !.tokens = <<>>, !.ends = <<>>, !.states = <<>>, !.num_bytes = 0,
                                    !.zero_width = 0, !.state = q.published_state]]

Weigh(p, offset, hit) ==
    LET keep_from == p.num_bytes - hit.suffix
        start == IF hit.match.found THEN Min({offset + hit.match.earliest, keep_from}) ELSE keep_from
    IN  IF Full(p) THEN [pending |-> p, ready |-> <<>>, decision |-> "limit"]
        ELSE Bind(token_at(p.ends, start), LAMBDA count : Decide(p, count, hit.match.found))

(* The journal after a token, the tokens that are ready, and the decision. *)
feed(p, token, data) ==
    Bind(scan(pattern, p.state, data),
         LAMBDA hit : Bind(Scanned(p, token, data, hit), LAMBDA q : Weigh(q, p.num_bytes, hit)))

-----------------------------------------------------------------------------
(* The scheduler *)

(* Slip: a rewound request is resumed while old frames are in flight. *)
HeldNever == FALSE
Held == rewinding /\ frames # <<>>

(* A frame for the request; one that waits is (re)installed on the worker
   with the scheduler's history and retry mask. *)
schedule ==
    /\ ~Finished /\ Len(frames) < Depth
    /\ \/ /\ status = "running"
          /\ Len(frames) = stale \/ Len(output) + 1 < MaxTokens
          /\ UNCHANGED worker
       \/ /\ status \in {"waiting", "preempted"}
          /\ ~(stale > 0 /\ ~drop) /\ ~Held
          /\ worker' = [history |-> output, retry |-> guard.retry]
    /\ status' = "running" /\ rewinding' = FALSE
    /\ frames' = Append(frames, [done |-> FALSE, tokens |-> <<>>])
    /\ UNCHANGED <<setup, pattern, pending, guard, output, stale, drop, preemptions, sent>>

(* _preempt_request for another request's memory.  Also with frames in flight,
   where PhraseScheduler, which defers frees, chooses no victim: a superset of
   the code's steps.  The drop-mode preemption of reset_prefix_cache is left
   out. *)
preempt ==
    /\ status = "running" /\ preemptions < MaxPreemptions
    /\ status' = "preempted" /\ stale' = Len(frames)
    /\ drop' = (drop /\ stale > 0)
    /\ preemptions' = preemptions + 1
    /\ UNCHANGED <<setup, pattern, pending, guard, output, rewinding, frames, worker, sent>>

(* A sampled token.  At the checkpoint the blocked tokens are masked; if the
   sampling constraints leave nothing, the first of them comes back. *)
Sampled(history) ==
    IF Len(history) = worker.retry.position
    THEN (Token \ Range(worker.retry.blocked)) \cup {worker.retry.blocked[1]}
    ELSE Token

Samples ==
    UNION {{tokens \in [1 .. n -> Token] :
               \A k \in 1 .. n : tokens[k] \in Sampled(worker.history \o SubSeq(tokens, 1, k - 1))}
           : n \in 1 .. MaxStep}

execute ==
    \E k \in DOMAIN frames : \E tokens \in Samples :
        /\ ~frames[k].done /\ \A j \in 1 .. k - 1 : frames[j].done
        /\ frames' = [frames EXCEPT ![k] = [done |-> TRUE, tokens |-> tokens]]
        /\ worker' = [worker EXCEPT !.history = @ \o tokens]
        /\ UNCHANGED <<setup, pattern, pending, guard, request, sent>>

(* The loop over the tokens of a step.  acc.end is "" while it goes on. *)
Fail(acc) == [acc EXCEPT !.end = "error"]

RetryAt(retry, position, token) ==
    [position |-> position,
     blocked |-> IF retry.position = position THEN Append(retry.blocked, token) ELSE <<token>>]

(* Slip: a masked token that comes back is taken for a sample. *)
ExhaustedNever(acc, token) == FALSE
Exhausted(acc, token) ==
    /\ Len(acc.output) = acc.guard.retry.position
    /\ token \in Range(acc.guard.retry.blocked)

NoRetryLeft(retries) == retries >= MAX_RETRIES

(* Slip: the token that is blocked stays in the output. *)
RewoundTooLate(acc, fed) ==
    [acc EXCEPT !.output = SubSeq(@, 1, fed.pending.published + 1),
                !.guard = [retries |-> @.retries + 1,
                           retry |-> RetryAt(@.retry, fed.pending.published, fed.blocked)],
                !.end = "rewound"]

(* The output is cut back to what was published.  The block hashes of the
   dropped tokens, cut with it, are not in the model. *)
Rewound(acc, fed) ==
    [acc EXCEPT !.output = SubSeq(@, 1, fed.pending.published),
                !.guard = [retries |-> @.retries + 1,
                           retry |-> RetryAt(@.retry, fed.pending.published, fed.blocked)],
                !.end = "rewound"]

(* check_stop, and the rest of the journal goes out. *)
CheckStop(acc, token) ==
    IF token \notin StopTokens /\ Len(acc.output) < MaxTokens THEN acc
    ELSE [acc EXCEPT !.end = IF token \in StopTokens THEN "stopped" ELSE "length",
                     !.ready = @ \o acc.pending.tokens,
                     !.pending = release(@, Len(@.tokens))]

Took(acc, token, fed) ==
    Bind([acc EXCEPT !.output = Append(@, token), !.pending = fed.pending, !.ready = @ \o fed.ready],
         LAMBDA next :
             CASE fed.decision = "limit" -> Fail(next)
               [] fed.decision = "rewind" ->
                      IF token \in StopTokens \/ NoRetryLeft(acc.guard.retries)
                      THEN Fail(next) ELSE Rewound(next, fed)
               [] OTHER -> CheckStop(next, token))

TakeToken(acc, token) ==
    IF acc.end # "" THEN acc
    ELSE IF Exhausted(acc, token) THEN Fail(acc)
    ELSE IF token \in StopTokens /\ ~IncludeStop
         THEN [acc EXCEPT !.output = Append(@, token),
                          !.ready = @ \o Append(acc.pending.tokens, token),
                          !.pending = release(acc.pending, Len(acc.pending.tokens)),
                          !.end = "stopped"]
    ELSE Bind(Bind(decode(acc.output, token), LAMBDA data : feed(acc.pending, token, data)),
              LAMBDA fed : Took(acc, token, fed))

update_request_with_output(tokens) ==
    Fold(TakeToken, [output |-> output, pending |-> pending, guard |-> guard,
                         ready |-> <<>>, end |-> ""], tokens)

(* Slip: a stale frame that arrives is not taken off the count. *)
DrainNothing(n) == n
Drain(n) == IF n > 0 THEN n - 1 ELSE 0

(* The result of the oldest frame. *)
update_from_output ==
    /\ frames # <<>> /\ Head(frames).done
    /\ frames' = Tail(frames)
    /\ \E acc \in {update_request_with_output(Head(frames).tokens)} :
       LET rest == Drain(stale)
           rewinds == acc.end = "rewound"
       IN  IF Finished \/ (stale > 0 /\ drop)
           THEN stale' = rest /\ UNCHANGED <<pending, guard, output, status, rewinding, drop, sent>>
           ELSE /\ pending' = acc.pending /\ guard' = acc.guard /\ output' = acc.output
                /\ sent' = sent \o acc.ready
                /\ status' = IF acc.end = "" THEN status
                             ELSE IF rewinds THEN "preempted" ELSE acc.end
                /\ rewinding' = (rewinding \/ rewinds)
                /\ drop' = (drop \/ rewinds)
                /\ stale' = IF rewinds /\ status = "running" THEN Len(frames) - 1 ELSE rest
    /\ UNCHANGED <<setup, pattern, preemptions, worker>>

(* The client goes away. *)
finish_requests ==
    /\ ~Finished /\ status' = "aborted" /\ rewinding' = FALSE
    /\ UNCHANGED <<setup, pattern, pending, guard, output, stale, drop, preemptions, frames, worker, sent>>

Next == schedule \/ preempt \/ execute \/ update_from_output \/ finish_requests

(* The engine loop schedules while it can, the worker runs what it is given,
   and results are taken as they arrive. *)
Spec == Init /\ [][Next]_vars /\ WF_vars(schedule) /\ WF_vars(execute) /\ WF_vars(update_from_output)

-----------------------------------------------------------------------------
(* Properties *)

(* The output is within max_tokens, the retries are within their limit, and
   no more frames are stale than are in flight. *)
TypeOK ==
    /\ output \in Seq(Token) /\ sent \in Seq(Token) /\ Len(output) <= MaxTokens
    /\ stale \in 0 .. Len(frames) /\ drop \in BOOLEAN /\ rewinding \in BOOLEAN
    /\ guard.retries \in 0 .. MAX_RETRIES
    /\ Len(pending.tokens) = Len(pending.ends) /\ pending.state \in DOMAIN pattern

(* The text that the client sees; the detokenizer leaves a stop token out. *)
ClientText ==
    Text(IF sent # <<>> /\ Last(sent) \in StopTokens /\ ~IncludeStop THEN Front(sent) ELSE sent)

(* "Only ready tokens may leave the engine": no banned phrase is in the text
   that left it, whatever was released, rewound and sampled again. *)
NothingBannedSent == ~ContainsPhrase(phrases, ClientText)

(* The automaton is where the longest live prefix of a phrase in the text is,
   also when a rewind brings back the end of text that was sent already. *)
AutomatonFollowsText ==
    ~Finished => pending.state = NodeOf(pattern, LivePrefix(phrases, Text(output)))

(* Nothing is lost or sent twice: what was sent and what is held back are the
   request's output, and all of it has been sent at a regular end. *)
JournalComplete ==
    /\ ~Finished => output = sent \o pending.tokens /\ pending.published = Len(sent)
    /\ status \in {"stopped", "length"} => sent = output

(* A fragment of a character is held back until the character is known, so
   that the token that began it can still be blocked. *)
SentIsDecoded == ~Finished => Decoded(sent).open = <<>>

(* Journal, automaton and what was sent agree with the request's output. *)
JournalSound == TypeOK /\ AutomatonFollowsText /\ JournalComplete /\ SentIsDecoded

(* Results that will be used were sampled after the history that the
   scheduler has: no frame of a discarded history is mixed in. *)
FramesContinueOutput ==
    ~Finished /\ ~(drop /\ stale > 0) /\ status # "waiting" /\ ~rewinding =>
        worker.history = output \o FlattenSeq([k \in DOMAIN frames |-> frames[k].tokens])

(* Retries make progress: at one position no token is rejected twice. *)
NoTokenRejectedTwice == IsInjective(guard.retry.blocked)

(* Rejected alternatives and memory pressure cannot keep a request for ever. *)
RequestEnds == <>Finished
=============================================================================
