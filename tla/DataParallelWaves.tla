------------------------- MODULE DataParallelWaves -------------------------
(***************************************************************************)
(* Data-parallel engine cores that step in lockstep (engine/core.py,       *)
(* DPEngineCoreProc) with the coordinator that wakes them                  *)
(* (engine/coordinator.py, DPCoordinatorProc) and a client that adds       *)
(* requests and pauses and resumes generation (core_client.py).            *)
(*                                                                         *)
(* Engines run in waves.  A step of the model and the all-reduce after it  *)
(* need every engine, so an engine with nothing to do must still step      *)
(* while any other one has work.  When no engine has work the wave ends    *)
(* everywhere and all engines block on their input queue.  An idle engine  *)
(* that gets a request tells the coordinator, which wakes the others with  *)
(* START_DP_WAVE.                                                          *)
(*                                                                         *)
(* The loop of an engine:                                                  *)
(*                                                                         *)
(*   loop -> input -> step -> synced -> loop                               *)
(*             |                                                           *)
(*             +--> resume (all-reduce inside resume_scheduler) -> input   *)
(*                                                                         *)
(* Requests are abstracted to the number of steps until the running ones   *)
(* are done (run) and the number that the queued ones will take (wait).    *)
(* Not modelled: elastic scaling, fault tolerance, sleeping, load stats.   *)
(***************************************************************************)
EXTENDS Integers, Sequences, FiniteSets

CONSTANTS
    N,                \* data_parallel_size
    SyncInterval,     \* dp_sync_interval
    PauseModes,       \* modes in which the client pauses
    RedundantResume,  \* the client may resume engines that are not paused
    MaxAdds,          \* bound: requests
    MaxCalls,         \* bound: pause and resume calls
    MaxSteps          \* bound: steps that a request takes

ASSUME WavesAssumption ==
    /\ N \in Nat \ {0, 1} /\ SyncInterval \in Nat \ {0}
    /\ PauseModes \subseteq {"abort", "wait", "keep"} /\ RedundantResume \in BOOLEAN
    /\ MaxAdds \in Nat /\ MaxCalls \in Nat /\ MaxSteps \in Nat \ {0}

Engine == 0 .. N - 1

VARIABLES
    eng,        \* eng[e]: the engine core
    fromClient, \* fromClient[e]: messages from the client, in order
    starts,     \* starts[e]: START_DP_WAVE messages from the coordinator
    toCoord,    \* toCoord[e]: notifications for the coordinator
    coord,      \* the coordinator's current_wave and engines_running
    call,       \* call[e]: the utility call of the client at e
    client      \* what the client is doing, the wave it knows, its bounds

vars == <<eng, fromClient, starts, toCoord, coord, call, client>>

NewEngine ==
    [at |-> "loop",
     running |-> FALSE,     \* engines_running
     was |-> FALSE,         \* was_running
     wave |-> 0,            \* current_wave
     steps |-> 0,           \* step_counter
     pending |-> FALSE,     \* pending_pause
     ignore |-> FALSE,      \* ignore_start_dp_wave
     pause |-> "unpaused",  \* the scheduler's pause_state
     reject |-> FALSE,      \* reject_new_requests
     wait |-> 0,            \* steps of the queued requests
     run |-> 0,             \* steps until the running requests are done
     finished |-> FALSE,    \* finished_req_ids is not empty
     unfinished |-> FALSE,  \* what the last all-reduce returned ...
     consensus |-> FALSE]   \* ... and whether every engine wants to pause

Init ==
    /\ eng = [e \in Engine |-> NewEngine]
    /\ fromClient = [e \in Engine |-> <<>>]
    /\ starts = [e \in Engine |-> <<>>]
    /\ toCoord = [e \in Engine |-> <<>>]
    /\ coord = [wave |-> 0, running |-> FALSE]
    /\ call = [e \in Engine |-> "none"]
    /\ client = [state |-> "normal", wave |-> 0, adds |-> 0, calls |-> 0]

-----------------------------------------------------------------------------
(* Scheduler.has_unfinished_requests and EngineCoreProc.has_work *)

HasUnfinished(g) ==
    CASE g.pause = "unpaused" -> g.run > 0 \/ g.wait > 0
      [] g.pause = "new" -> g.run > 0
      [] g.pause = "all" -> FALSE

HasWork(g) == g.running \/ HasUnfinished(g) \/ g.finished

ToCoord(e, m) == toCoord' = [toCoord EXCEPT ![e] = Append(@, m)]

-----------------------------------------------------------------------------
(* The input queue of an engine.  Messages that are still in a socket when
   the queue is drained are handled in the next round. *)

LoopTop(e) ==
    /\ eng[e].at = "loop"
    /\ eng' = [eng EXCEPT ![e].at = "input", ![e].was = eng[e].running]
    /\ UNCHANGED <<fromClient, starts, toCoord, coord, call, client>>

(* An engine without work first completes the pauses that wait for it. *)
NotifyIdle(e) ==
    /\ eng[e].at = "input" /\ ~HasWork(eng[e])
    /\ call[e] = "waiting"
    /\ call' = [call EXCEPT ![e] = "done"]
    /\ UNCHANGED <<eng, fromClient, starts, toCoord, coord, client>>

Handles(e, kind) ==
    /\ eng[e].at = "input"
    /\ HasWork(eng[e]) \/ call[e] # "waiting"
    /\ fromClient[e] # <<>> /\ Head(fromClient[e]).kind = kind
    /\ fromClient' = [fromClient EXCEPT ![e] = Tail(@)]

(* Slip: a paused engine starts a wave as well. *)
StartsWaveAlways(g) == ~g.running

(* DPEngineCoreProc.add_request: the request is queued; on an idle engine it
   starts a wave unless the scheduler is paused. *)
StartsWave(g) == ~g.running /\ g.pause = "unpaused"

AddRequest(e) ==
    /\ Handles(e, "add")
    /\ LET m == Head(fromClient[e])
           g == eng[e]
           w == IF m.wave > g.wave THEN m.wave ELSE g.wave
       IN  IF g.reject
           THEN UNCHANGED <<eng, toCoord>>
           ELSE /\ eng' = [eng EXCEPT ![e] =
                      [g EXCEPT !.wait = IF m.steps > @ THEN m.steps ELSE @,
                                !.wave = w, !.running = @ \/ StartsWave(g)]]
                /\ IF StartsWave(g)
                   THEN ToCoord(e, [kind |-> "start", wave |-> w])
                   ELSE UNCHANGED toCoord
    /\ UNCHANGED <<starts, coord, call, client>>

(* pause_generation: abort drops all requests.  _pause_complete makes the
   engine step until the all-reduce shows that every engine is pausing. *)
Pause(e) ==
    /\ Handles(e, "pause")
    /\ LET mode == Head(fromClient[e]).mode
           g == eng[e]
           dropped == mode = "abort" /\ (g.run > 0 \/ g.wait > 0)
       IN  eng' = [eng EXCEPT ![e] =
             [g EXCEPT !.run = IF mode = "abort" THEN 0 ELSE @,
                       !.wait = IF mode = "abort" THEN 0 ELSE @,
                       !.finished = @ \/ dropped,
                       !.pause = IF mode = "keep" THEN "all" ELSE "new",
                       !.reject = mode # "keep",
                       !.pending = TRUE, !.running = TRUE]]
    /\ call' = [call EXCEPT ![e] = "waiting"]
    /\ UNCHANGED <<starts, toCoord, coord, client>>

(* resume_scheduler: refused while a pause is under way, ignored by an engine
   that runs, otherwise an all-reduce with the other engines. *)
Resume(e) ==
    /\ Handles(e, "resume")
    /\ IF eng[e].pending \/ eng[e].running
       THEN call' = [call EXCEPT ![e] = "done"] /\ UNCHANGED eng
       ELSE /\ eng' = [eng EXCEPT ![e].pause = "unpaused", ![e].reject = FALSE,
                                  ![e].ignore = FALSE, ![e].at = "resume"]
            /\ UNCHANGED call
    /\ UNCHANGED <<starts, toCoord, coord, client>>

(* Slip: only a later wave is joined. *)
JoinsLater(e, m) == ~eng[e].ignore /\ m.exclude # e /\ m.wave > eng[e].wave

(* _handle_client_request of START_DP_WAVE *)
Joins(e, m) ==
    /\ ~eng[e].ignore
    /\ m.exclude # e /\ m.wave >= eng[e].wave

StartDPWave(e) ==
    /\ eng[e].at = "input" /\ starts[e] # <<>>
    /\ HasWork(eng[e]) \/ call[e] # "waiting"
    /\ LET m == Head(starts[e])
       IN  eng' = IF Joins(e, m)
                  THEN [eng EXCEPT ![e].wave = m.wave, ![e].running = TRUE]
                  ELSE eng
    /\ starts' = [starts EXCEPT ![e] = Tail(@)]
    /\ UNCHANGED <<fromClient, toCoord, coord, call, client>>

-----------------------------------------------------------------------------
(* Steps of the engines *)

(* Scheduler.schedule and update_from_output of one step. *)
Scheduled(g) ==
    CASE g.pause = "unpaused" -> IF g.wait > g.run THEN g.wait ELSE g.run
      [] g.pause = "new" -> g.run
      [] g.pause = "all" -> 0

Stepped(g) ==
    [g EXCEPT !.run = IF Scheduled(g) > 0 THEN Scheduled(g) - 1 ELSE @,
              !.wait = IF g.pause = "unpaused" THEN 0 ELSE @,
              !.finished = Scheduled(g) = 1]

(* step_counter, up to what Syncs tells apart. *)
NextStep(n) == IF n > SyncInterval THEN n + 1 - SyncInterval ELSE n + 1

(* The engine steps; without requests it runs a dummy batch, unless the wave
   is over.  The step needs the other engines: its effect is in AllReduce. *)
Step(e) ==
    /\ eng[e].at = "input" /\ HasWork(eng[e])
    /\ LET g == Stepped(eng[e])
           idle == Scheduled(eng[e]) = 0 /\ ~HasUnfinished(g) /\ ~g.running
       IN  eng' = [eng EXCEPT ![e] =
                     IF idle THEN [g EXCEPT !.at = "loop"]
                     ELSE [eng[e] EXCEPT !.at = "step", !.steps = NextStep(@)]]
    /\ UNCHANGED <<fromClient, starts, toCoord, coord, call, client>>

(* Slip: engines that wait for the others to pause are not counted. *)
AllReduceRequestsOnly ==
    /\ \A e \in Engine : eng[e].at = "step"
    /\ LET unfinished == \E e \in Engine : HasUnfinished(Stepped(eng[e]))
       IN  eng' = [e \in Engine |->
                     [Stepped(eng[e]) EXCEPT !.at = "synced", !.unfinished = unfinished,
                                             !.consensus = \A f \in Engine : eng[f].pending]]
    /\ UNCHANGED <<fromClient, starts, toCoord, coord, call, client>>

(* The model's collectives and the all-reduce of sync_dp_state complete when
   every engine is there. *)
AllReduce ==
    /\ \A e \in Engine : eng[e].at = "step"
    /\ LET pausing == {e \in Engine : eng[e].pending}
           unfinished == \/ \E e \in Engine : HasUnfinished(Stepped(eng[e]))
                         \/ Cardinality(pausing) % N # 0
       IN  eng' = [e \in Engine |->
                     [Stepped(eng[e]) EXCEPT !.at = "synced", !.unfinished = unfinished,
                                             !.consensus = pausing = Engine]]
    /\ UNCHANGED <<fromClient, starts, toCoord, coord, call, client>>

(* _has_global_unfinished_reqs and the end of run_busy_loop: the result counts
   on the first step and on every SyncInterval-th one. *)
Syncs(g) == g.steps = 1 \/ g.steps % SyncInterval = 0

Synced(g) ==
    IF ~Syncs(g) THEN [g EXCEPT !.running = TRUE]
    ELSE [g EXCEPT !.running = g.unfinished,
                   !.ignore = @ \/ g.consensus,
                   !.pending = @ /\ ~g.consensus]

EndStep(e) ==
    /\ eng[e].at = "synced"
    /\ LET g == Synced(eng[e])
       IN  /\ eng' = [eng EXCEPT ![e] =
                 [g EXCEPT !.at = "loop",
                           !.wave = IF g.running THEN @ ELSE @ + 1,
                           !.steps = IF g.running THEN @ ELSE 0,
                           !.was = FALSE, !.unfinished = FALSE, !.consensus = FALSE]]
           /\ IF e = 0 /\ ~g.running
              THEN ToCoord(e, [kind |-> "complete", wave |-> g.wave])
              ELSE IF e = 0 /\ ~g.was /\ ~g.pending
              THEN ToCoord(e, [kind |-> "start", wave |-> g.wave])
              ELSE UNCHANGED toCoord
    /\ UNCHANGED <<fromClient, starts, coord, call, client>>

(* The all-reduce in resume_scheduler. *)
ResumeBarrier ==
    /\ \A e \in Engine : eng[e].at = "resume"
    /\ LET unfinished == \E e \in Engine : HasUnfinished(eng[e])
       IN  eng' = [e \in Engine |-> [eng[e] EXCEPT !.at = "input", !.running = unfinished]]
    /\ call' = [e \in Engine |-> "done"]
    /\ UNCHANGED <<fromClient, starts, toCoord, coord, client>>

-----------------------------------------------------------------------------
(* The coordinator: process_input_socket *)

(* Slip: only the end of a later wave is taken note of. *)
WaveCompleteLater(e) ==
    /\ toCoord[e] # <<>> /\ Head(toCoord[e]).kind = "complete"
    /\ LET w == Head(toCoord[e]).wave
       IN  coord' = IF coord.wave < w THEN [wave |-> w + 1, running |-> FALSE] ELSE coord
    /\ toCoord' = [toCoord EXCEPT ![e] = Tail(@)]
    /\ UNCHANGED <<eng, fromClient, starts, call, client>>

(* Notification from engine 0 that the wave has ended. *)
WaveComplete(e) ==
    /\ toCoord[e] # <<>> /\ Head(toCoord[e]).kind = "complete"
    /\ LET w == Head(toCoord[e]).wave
       IN  coord' = IF coord.wave <= w THEN [wave |-> w + 1, running |-> FALSE] ELSE coord
    /\ toCoord' = [toCoord EXCEPT ![e] = Tail(@)]
    /\ UNCHANGED <<eng, fromClient, starts, call, client>>

(* Notification that engine e has started a wave: wake the others once. *)
NewWave(w) == w > coord.wave \/ (w = coord.wave /\ ~coord.running)

StartWave(e) ==
    /\ toCoord[e] # <<>> /\ Head(toCoord[e]).kind = "start"
    /\ LET w == Head(toCoord[e]).wave
       IN  IF NewWave(w)
           THEN /\ coord' = [wave |-> w, running |-> TRUE]
                /\ starts' = [f \in Engine |-> Append(starts[f], [wave |-> w, exclude |-> e])]
           ELSE UNCHANGED <<coord, starts>>
    /\ toCoord' = [toCoord EXCEPT ![e] = Tail(@)]
    /\ UNCHANGED <<eng, fromClient, call, client>>

-----------------------------------------------------------------------------
(* The client.  It knows a wave that the coordinator published some time ago,
   and waits for a call to return from every engine before the next one. *)

SendAdd(e) ==
    /\ client.adds < MaxAdds
    /\ \E n \in 1 .. MaxSteps, w \in client.wave .. coord.wave :
          /\ fromClient' = [fromClient EXCEPT ![e] =
                              Append(@, [kind |-> "add", wave |-> w, steps |-> n])]
          /\ client' = [client EXCEPT !.adds = @ + 1, !.wave = w]
    /\ UNCHANGED <<eng, starts, toCoord, coord, call>>

CallAll(m, state) ==
    /\ client.calls < MaxCalls
    /\ fromClient' = [e \in Engine |-> Append(fromClient[e], m)]
    /\ call' = [e \in Engine |-> "sent"]
    /\ client' = [client EXCEPT !.state = state, !.calls = @ + 1]
    /\ UNCHANGED <<eng, starts, toCoord, coord>>

SendPause ==
    /\ client.state \in {"normal", "paused"}
    /\ \E mode \in PauseModes : CallAll([kind |-> "pause", mode |-> mode], "pausing")

SendResume ==
    /\ client.state = "paused" \/ (RedundantResume /\ client.state = "normal")
    /\ CallAll([kind |-> "resume"], "resuming")

CallReturns ==
    /\ client.state \in {"pausing", "resuming"}
    /\ \A e \in Engine : call[e] = "done"
    /\ call' = [e \in Engine |-> "none"]
    /\ client' = [client EXCEPT !.state = IF @ = "pausing" THEN "paused" ELSE "normal"]
    /\ UNCHANGED <<eng, fromClient, starts, toCoord, coord>>

-----------------------------------------------------------------------------
HandleInput(e) == AddRequest(e) \/ Pause(e) \/ Resume(e) \/ StartDPWave(e)

EngineStep(e) ==
    LoopTop(e) \/ NotifyIdle(e) \/ HandleInput(e) \/ Step(e) \/ EndStep(e)

Coordinate(e) == WaveComplete(e) \/ StartWave(e)

Next ==
    \/ \E e \in Engine : EngineStep(e) \/ Coordinate(e) \/ SendAdd(e)
    \/ AllReduce \/ ResumeBarrier
    \/ SendPause \/ SendResume \/ CallReturns

(* Engines and coordinator run and collectives complete.  An engine that has
   work drains its input queue on every turn of its loop, so a message is not
   passed over for ever although it cannot be handled within a step. *)
Fairness ==
    /\ \A e \in Engine :
          WF_vars(EngineStep(e)) /\ WF_vars(Coordinate(e)) /\ SF_vars(HandleInput(e))
    /\ WF_vars(AllReduce) /\ WF_vars(ResumeBarrier) /\ WF_vars(CallReturns)

Spec == Init /\ [][Next]_vars /\ Fairness

-----------------------------------------------------------------------------
(* Properties *)

(* Engines, calls and client are in one of their states, and the steps left
   of the requests stay within what was asked for. *)
TypeOK ==
    /\ \A e \in Engine :
          /\ eng[e].at \in {"loop", "input", "step", "synced", "resume"}
          /\ eng[e].pause \in {"unpaused", "new", "all"}
          /\ eng[e].wave \in Nat /\ eng[e].steps \in Nat
          /\ eng[e].run \in 0 .. MaxSteps /\ eng[e].wait \in 0 .. MaxSteps
          /\ call[e] \in {"none", "sent", "waiting", "done"}
    /\ coord.wave \in Nat /\ coord.running \in BOOLEAN
    /\ client.state \in {"normal", "pausing", "paused", "resuming"}

(* Engines that wait in a collective wait in the same one: nobody is in the
   all-reduce of resume_scheduler while another one is in a step, and engines
   that step are in the same step of the same wave (they call the all-reduce
   on the same steps). *)
CollectivesMatch ==
    \A e, f \in Engine :
        eng[e].at = "step" =>
            /\ eng[f].at # "resume"
            /\ eng[f].at = "step" => eng[e].steps = eng[f].steps

(* Well-formed engines that wait in a collective wait in the same one. *)
Lockstep == TypeOK /\ CollectivesMatch

(* From the moment the pause has returned to the client until it resumes, no
   engine runs: START_DP_WAVE messages that were on their way, and requests
   that arrive, wake nobody. *)
PausedStaysPaused ==
    client.state = "paused" =>
        \A e \in Engine : ~eng[e].running /\ eng[e].at \in {"loop", "input"}

AtRest ==
    \A e \in Engine :
        /\ eng[e].at = "input" /\ ~HasWork(eng[e])
        /\ starts[e] = <<>> /\ toCoord[e] = <<>>

(* When everything has come to rest, coordinator and engines agree that no
   wave is running and on the number of the next one. *)
CoordinatorAgrees ==
    AtRest => ~coord.running /\ \A e \in Engine : eng[e].wave = coord.wave

(* No engine is left alone in a step: whoever waits for the others in a
   collective gets on. *)
NobodyLeftBehind ==
    \A e \in Engine : eng[e].at \in {"step", "resume"} ~> eng[e].at \notin {"step", "resume"}

(* An engine with requests gets through with them, or is paused: it never
   waits for ever for engines that the coordinator failed to wake. *)
RequestsServed == \A e \in Engine : HasUnfinished(eng[e]) ~> ~HasUnfinished(eng[e])

(* Every wave gets on: no engine waits for ever for the others in a
   collective, and every request is served or paused. *)
WavesProgress == NobodyLeftBehind /\ RequestsServed

(* pause_generation and resume_generation come back from every engine, however
   the call falls into a wave that is starting or ending. *)
CallsReturn == client.state \in {"pausing", "resuming"} ~> client.state \in {"paused", "normal"}
=============================================================================
