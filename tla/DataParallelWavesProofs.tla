----------------------- MODULE DataParallelWavesProofs -----------------------
(***************************************************************************)
(* Proofs about the data-parallel engines, for any number of engines, any  *)
(* synchronisation interval, all pause modes and any number of requests    *)
(* and calls.                                                              *)
(***************************************************************************)
EXTENDS DataParallelWaves, FiniteSetTheorems, TLAPS

Place == {"loop", "input", "step", "synced", "resume"}
PauseState == {"unpaused", "new", "all"}

EngineState ==
    [at : Place, running : BOOLEAN, was : BOOLEAN, wave : Nat, steps : Nat,
     pending : BOOLEAN, ignore : BOOLEAN, pause : PauseState, reject : BOOLEAN,
     wait : 0 .. MaxSteps, run : 0 .. MaxSteps, finished : BOOLEAN,
     unfinished : BOOLEAN, consensus : BOOLEAN]

ClientMsg ==
    [kind : {"add"}, wave : Nat, steps : 1 .. MaxSteps]
        \union [kind : {"pause"}, mode : PauseModes] \union [kind : {"resume"}]
StartMsg == [wave : Nat, exclude : Engine]
CoordMsg == [kind : {"start", "complete"}, wave : Nat]

TypeInv ==
    /\ eng \in [Engine -> EngineState]
    /\ fromClient \in [Engine -> Seq(ClientMsg)]
    /\ starts \in [Engine -> Seq(StartMsg)]
    /\ toCoord \in [Engine -> Seq(CoordMsg)]
    /\ coord \in [wave : Nat, running : BOOLEAN]
    /\ call \in [Engine -> {"none", "sent", "waiting", "done"}]
    /\ client \in [state : {"normal", "pausing", "paused", "resuming"},
                   wave : Nat, adds : Nat, calls : Nat]

(* What an engine is once the step it is in has ended: EndStep changes none of
   these. *)
Decides(g) == g.at = "synced" /\ Syncs(g)
Runs(g) == IF g.at = "synced" THEN Syncs(g) => g.unfinished ELSE g.running
Pends(g) == g.pending /\ ~(Decides(g) /\ g.consensus)
Ignores(g) == g.ignore \/ (Decides(g) /\ g.consensus)
Ends(g) == g.at = "synced" /\ ~Runs(g)
WaveOf(g) == IF Ends(g) THEN g.wave + 1 ELSE g.wave
StepOf(g) == IF Ends(g) THEN 0 ELSE g.steps

(* The messages of a channel. *)
Msgs(s) == {s[i] : i \in 1 .. Len(s)}

(* Two engines are in the same step or one is a step ahead. *)
StepsInv(e, f) ==
    /\ eng[e].at = "step" /\ eng[f].at = "step" => eng[e].steps = eng[f].steps
    /\ eng[e].at = "step" /\ eng[f].at # "step" => eng[e].steps = NextStep(StepOf(eng[f]))
    /\ eng[e].at # "step" /\ eng[f].at # "step" => StepOf(eng[e]) = StepOf(eng[f])
    /\ eng[e].at = "synced" /\ eng[f].at = "synced" =>
          /\ eng[e].steps = eng[f].steps
          /\ eng[e].unfinished = eng[f].unfinished /\ eng[e].consensus = eng[f].consensus

(* Engines in the same wave, whose number no message exceeds. *)
Wave == WaveOf(eng[0])
EndSent == \E m \in Msgs(toCoord[0]) : m.kind = "complete" /\ m.wave = Wave - 1

AddInv(m) == m.kind = "add" => m.wave <= Wave
NoteInv(e, m) ==
    /\ m.kind = "complete" => m.wave < Wave
    /\ m.kind = "start" => m.wave < Wave \/ (m.wave = Wave /\ Runs(eng[e]))

EngineWaveInv(e) ==
    /\ WaveOf(eng[e]) = Wave
    /\ \A m \in Msgs(fromClient[e]) : AddInv(m)
    /\ \A m \in Msgs(starts[e]) : m.wave <= Wave
    /\ \A m \in Msgs(toCoord[e]) : NoteInv(e, m)

CoordInv ==
    /\ client.wave <= Wave /\ coord.wave <= Wave
    /\ coord.wave = Wave \/ Ends(eng[0]) \/ EndSent
    /\ coord.wave = Wave /\ coord.running => \E e \in Engine : Runs(eng[e])

(* The call that is under way, and at most one message of it per engine. *)
OneCall(s) ==
    \A i, j \in 1 .. Len(s) : s[i].kind # "add" /\ s[j].kind # "add" => i = j

CallInv(e) ==
    /\ OneCall(fromClient[e])
    /\ \A m \in Msgs(fromClient[e]) :
          /\ m.kind = "pause" => call[e] = "sent" /\ client.state = "pausing"
          /\ m.kind = "resume" =>
                call[e] = "sent" /\ client.state = "resuming" /\ eng[e].at # "resume"

Quiet(g) ==
    /\ g.at = "input" /\ ~HasWork(g) /\ ~g.pending
    /\ g.ignore /\ g.pause # "unpaused"
Free(g) == ~g.pending /\ g.at # "resume"
AtBarrier(g) == g.at = "resume" /\ ~g.pending /\ ~g.running

(* An engine that has heard of the pause, and one for which it is settled. *)
Heard(c) == c \in {"waiting", "done"}
Passed(g, c) == Heard(c) /\ ~Pends(g)

PausingInv(g, c) ==
    /\ g.at # "resume" /\ c # "none"
    /\ c = "sent" => ~g.pending
    /\ Heard(c) => g.pause # "unpaused" /\ (Pends(g) \/ Ignores(g))
    /\ Pends(g) => c = "waiting" /\ Runs(g)
    /\ c = "done" => Quiet(g)
    /\ Passed(g, c) /\ ~Runs(g) => ~HasUnfinished(g)

ClientInv ==
    /\ client.state = "normal" => \A e \in Engine : Free(eng[e]) /\ call[e] = "none"
    /\ client.state = "paused" => \A e \in Engine : Quiet(eng[e]) /\ call[e] = "none"
    /\ client.state = "pausing" =>
          /\ \A e \in Engine : PausingInv(eng[e], call[e])
          /\ \A e, f \in Engine :
                Passed(eng[e], call[e]) =>
                    Passed(eng[f], call[f]) /\ (Runs(eng[f]) <=> Runs(eng[e]))
    /\ client.state = "resuming" =>
          \/ \A e \in Engine : Free(eng[e]) /\ call[e] = "done"
          \/ \A e \in Engine : call[e] = "sent" /\ (Quiet(eng[e]) \/ AtBarrier(eng[e]))

Settled(e) ==
    /\ eng[e].at = "resume" => ~eng[e].running
    /\ eng[e].at = "synced" /\ eng[e].consensus => eng[e].pending

WavesInv ==
    /\ TypeInv
    /\ \A e, f \in Engine : StepsInv(e, f)
    /\ \A e \in Engine : EngineWaveInv(e)
    /\ CoordInv
    /\ \A e \in Engine : Settled(e)

ClientsInv == ClientInv /\ \A e \in Engine : CallInv(e)

-----------------------------------------------------------------------------
(* Channels *)

LEMMA MsgsTail ==
    ASSUME NEW S, NEW s \in Seq(S), s # <<>>
    PROVE  /\ Tail(s) \in Seq(S) /\ Head(s) \in S
           /\ Msgs(s) = {Head(s)} \union Msgs(Tail(s))
           /\ OneCall(s) => OneCall(Tail(s))
           /\ OneCall(s) /\ Head(s).kind # "add" => \A m \in Msgs(Tail(s)) : m.kind = "add"
<1> DEFINE t == Tail(s)
<1>1. /\ t \in Seq(S) /\ Len(s) \in Nat /\ Len(s) >= 1 /\ Len(t) = Len(s) - 1
      /\ Head(s) = s[1] /\ Head(s) \in S
      /\ \A i \in 1 .. Len(t) : t[i] = s[i + 1] /\ i + 1 \in 1 .. Len(s)
  OBVIOUS
<1> HIDE DEF t
<1>2. \A i \in 1 .. Len(s) : i = 1 \/ (i - 1 \in 1 .. Len(t) /\ t[i - 1] = s[i])
  BY <1>1
<1>3. Msgs(s) = {Head(s)} \union Msgs(t)
  BY <1>1, <1>2 DEF Msgs
<1>4. ASSUME OneCall(s), NEW i \in 1 .. Len(t), NEW j \in 1 .. Len(t),
             t[i].kind # "add", t[j].kind # "add"
      PROVE  i = j
  <2>1. /\ i + 1 \in 1 .. Len(s) /\ s[i + 1].kind # "add"
        /\ j + 1 \in 1 .. Len(s) /\ s[j + 1].kind # "add"
    BY <1>1, <1>4
  <2>2. i + 1 = j + 1
    BY <1>4, <2>1 DEF OneCall
  <2> QED BY <1>1, <2>2
<1>5. OneCall(s) /\ Head(s).kind # "add" => \A m \in Msgs(t) : m.kind = "add"
  BY <1>1 DEF OneCall, Msgs
<1> QED BY <1>1, <1>3, <1>4, <1>5 DEF t, OneCall

LEMMA MsgsAppend ==
    ASSUME NEW S, NEW s \in Seq(S), NEW m \in S
    PROVE  /\ Append(s, m) \in Seq(S)
           /\ Msgs(Append(s, m)) = Msgs(s) \union {m}
           /\ OneCall(s) /\ m.kind = "add" => OneCall(Append(s, m))
           /\ (\A x \in Msgs(s) : x.kind = "add") => OneCall(Append(s, m))
<1> DEFINE t == Append(s, m)
<1>1. /\ t \in Seq(S) /\ Len(s) \in Nat /\ Len(t) = Len(s) + 1 /\ t[Len(s) + 1] = m
      /\ \A i \in 1 .. Len(s) : t[i] = s[i] /\ i \in 1 .. Len(t)
  OBVIOUS
<1> HIDE DEF t
<1>2. \A i \in 1 .. Len(t) : i = Len(s) + 1 \/ i \in 1 .. Len(s)
  BY <1>1
<1>3. Msgs(t) = Msgs(s) \union {m}
  BY <1>1, <1>2 DEF Msgs
<1>4. OneCall(s) /\ m.kind = "add" => OneCall(t)
  BY <1>1, <1>2 DEF OneCall
<1>5. (\A x \in Msgs(s) : x.kind = "add") => OneCall(t)
  BY <1>1, <1>2 DEF OneCall, Msgs
<1> QED BY <1>1, <1>3, <1>4, <1>5 DEF t

LEMMA MsgsEmpty == Msgs(<<>>) = {} /\ OneCall(<<>>)
BY DEF Msgs, OneCall

LEMMA MsgsTyped == ASSUME NEW S, NEW s \in Seq(S) PROVE Msgs(s) \subseteq S
BY DEF Msgs

-----------------------------------------------------------------------------
(* What the actions do to an engine *)

Touches(e) == eng' \in [Engine -> EngineState] /\ \A f \in Engine : f # e => eng'[f] = eng[f]

SameWave(g, h) == h.wave = g.wave /\ h.steps = g.steps /\ h.running = g.running
SamePause(g, h) ==
    h.pending = g.pending /\ h.ignore = g.ignore /\ h.pause = g.pause /\ h.run = g.run

LEMMA Update ==
    ASSUME TypeInv, NEW e \in Engine, NEW h \in EngineState, eng' = [eng EXCEPT ![e] = h]
    PROVE  Touches(e) /\ eng'[e] = h
BY DEF TypeInv, Touches

LEMMA Fields ==
    ASSUME TypeInv, NEW e \in Engine
    PROVE  /\ eng[e] \in EngineState /\ eng[e].at \in Place /\ eng[e].pause \in PauseState
           /\ eng[e].running \in BOOLEAN /\ eng[e].pending \in BOOLEAN
           /\ eng[e].ignore \in BOOLEAN /\ eng[e].reject \in BOOLEAN
           /\ eng[e].finished \in BOOLEAN /\ eng[e].unfinished \in BOOLEAN
           /\ eng[e].consensus \in BOOLEAN /\ eng[e].was \in BOOLEAN
           /\ eng[e].wave \in Nat /\ eng[e].steps \in Nat
           /\ eng[e].run \in 0 .. MaxSteps /\ eng[e].wait \in 0 .. MaxSteps
BY DEF TypeInv, EngineState

LEMMA LoopTopEffect ==
    ASSUME TypeInv, NEW e \in Engine, LoopTop(e)
    PROVE  /\ Touches(e) /\ eng[e].at = "loop" /\ eng'[e].at = "input"
           /\ SameWave(eng[e], eng'[e]) /\ SamePause(eng[e], eng'[e])
           /\ eng'[e].finished = eng[e].finished /\ eng'[e].wait = eng[e].wait
<1> DEFINE g == eng[e]
           h == [g EXCEPT !.at = "input", !.was = g.running]
<1>1. g \in EngineState /\ g.running \in BOOLEAN
  BY Fields
<1>2. h \in EngineState
  BY <1>1 DEF EngineState, Place
<1>3. eng' = [eng EXCEPT ![e] = h]
  BY DEF LoopTop, TypeInv
<1>4. eng'[e] = h /\ Touches(e)
  <2> HIDE DEF h
  <2> QED BY <1>2, <1>3, Update
<1>5. /\ h.at = "input" /\ SameWave(g, h) /\ SamePause(g, h)
      /\ h.finished = g.finished /\ h.wait = g.wait
  BY <1>1 DEF EngineState, SameWave, SamePause
<1> QED BY <1>4, <1>5 DEF LoopTop

(* A message that is handled is the first one of the client's. *)
LEMMA HandlesEffect ==
    ASSUME TypeInv, NEW e \in Engine, NEW kind, Handles(e, kind)
    PROVE  /\ eng[e].at = "input" /\ (HasWork(eng[e]) \/ call[e] # "waiting")
           /\ fromClient[e] \in Seq(ClientMsg) /\ fromClient[e] # <<>>
           /\ Head(fromClient[e]) \in ClientMsg /\ Head(fromClient[e]).kind = kind
           /\ Head(fromClient[e]) \in Msgs(fromClient[e])
           /\ fromClient' \in [Engine -> Seq(ClientMsg)]
           /\ \A f \in Engine : f # e => fromClient'[f] = fromClient[f]
           /\ fromClient'[e] = Tail(fromClient[e])
           /\ \A f \in Engine : Msgs(fromClient'[f]) \subseteq Msgs(fromClient[f])
<1>1. fromClient[e] \in Seq(ClientMsg) /\ fromClient[e] # <<>>
  BY DEF TypeInv, Handles
<1>2. /\ Tail(fromClient[e]) \in Seq(ClientMsg) /\ Head(fromClient[e]) \in ClientMsg
      /\ Head(fromClient[e]) \in Msgs(fromClient[e])
      /\ Msgs(Tail(fromClient[e])) \subseteq Msgs(fromClient[e])
  BY <1>1, MsgsTail
<1>3. fromClient' = [fromClient EXCEPT ![e] = Tail(fromClient[e])]
  BY DEF Handles
<1>4. /\ \A f \in Engine : f # e => fromClient'[f] = fromClient[f]
      /\ fromClient'[e] = Tail(fromClient[e])
      /\ fromClient' \in [Engine -> Seq(ClientMsg)]
  BY <1>2, <1>3 DEF TypeInv
<1>5. ASSUME NEW f \in Engine PROVE Msgs(fromClient'[f]) \subseteq Msgs(fromClient[f])
  <2>1. CASE f = e
    BY <1>2, <1>4, <2>1
  <2>2. CASE f # e
    BY <1>4, <2>2
  <2> QED BY <2>1, <2>2
<1> QED BY <1>1, <1>2, <1>4, <1>5 DEF Handles

AddedTo(g, m) ==
    [g EXCEPT !.wait = IF m.steps > @ THEN m.steps ELSE @,
              !.wave = IF m.wave > g.wave THEN m.wave ELSE g.wave,
              !.running = @ \/ StartsWave(g)]

LEMMA AddRequestEffect ==
    ASSUME TypeInv, NEW e \in Engine, AddRequest(e)
    PROVE  LET g == eng[e]
               h == eng'[e]
               m == Head(fromClient[e])
           IN  /\ Touches(e) /\ g.at = "input" /\ h.at = "input"
               /\ m.wave \in Nat /\ h.steps = g.steps /\ SamePause(g, h)
               /\ h.finished = g.finished
               /\ \/ SameWave(g, h) /\ toCoord' = toCoord
                  \/ /\ h.wave = IF m.wave > g.wave THEN m.wave ELSE g.wave
                     /\ h.running = (g.running \/ StartsWave(g))
                     /\ IF StartsWave(g)
                        THEN ToCoord(e, [kind |-> "start", wave |-> h.wave])
                        ELSE toCoord' = toCoord
<1> DEFINE g == eng[e]
           m == Head(fromClient[e])
           h == AddedTo(g, m)
<1>1. g \in EngineState /\ m \in ClientMsg /\ m.kind = "add" /\ g.at = "input"
  BY Fields, HandlesEffect DEF AddRequest
<1>2. m.wave \in Nat /\ m.steps \in 1 .. MaxSteps
  BY <1>1 DEF ClientMsg
<1>3. CASE g.reject
  <2>1. eng' = eng /\ toCoord' = toCoord
    BY <1>3 DEF AddRequest
  <2> QED BY <1>1, <1>2, <2>1 DEF SameWave, SamePause, Touches, TypeInv
<1>4. CASE ~g.reject
  <2>1. /\ eng' = [eng EXCEPT ![e] = h]
        /\ IF StartsWave(g)
           THEN ToCoord(e, [kind |-> "start", wave |-> IF m.wave > g.wave THEN m.wave ELSE g.wave])
           ELSE toCoord' = toCoord
    BY <1>4 DEF AddRequest, AddedTo
  <2>2. (g.running \/ StartsWave(g)) \in BOOLEAN /\ MaxSteps \in Nat
    BY Fields, WavesAssumption DEF StartsWave
  <2>3. h \in EngineState
    <3> DEFINE x == IF m.steps > g.wait THEN m.steps ELSE g.wait
               w == IF m.wave > g.wave THEN m.wave ELSE g.wave
               b == g.running \/ StartsWave(g)
    <3>1. x \in 0 .. MaxSteps /\ w \in Nat /\ b \in BOOLEAN
      BY <1>2, <2>2, Fields
    <3>2. h = [g EXCEPT !.wait = x, !.wave = w, !.running = b]
      BY DEF AddedTo
    <3> HIDE DEF x, w, b, h
    <3> QED BY <1>1, <3>1, <3>2 DEF EngineState
  <2>4. /\ h.at = "input" /\ h.steps = g.steps /\ SamePause(g, h) /\ h.finished = g.finished
        /\ h.wave = IF m.wave > g.wave THEN m.wave ELSE g.wave
        /\ h.running = (g.running \/ StartsWave(g))
    BY <1>1 DEF EngineState, AddedTo, SamePause
  <2>5. Touches(e) /\ eng'[e] = h
    <3> HIDE DEF h
    <3> QED BY <2>1, <2>3, Update
  <2> HIDE DEF h
  <2> QED BY <1>1, <1>2, <2>1, <2>4, <2>5
<1> QED BY <1>3, <1>4

LEMMA PauseEffect ==
    ASSUME TypeInv, NEW e \in Engine, Pause(e)
    PROVE  LET g == eng[e]
               h == eng'[e]
           IN  /\ Touches(e) /\ g.at = "input" /\ h.at = "input"
               /\ h.wave = g.wave /\ h.steps = g.steps /\ h.running /\ h.pending
               /\ h.ignore = g.ignore /\ h.pause # "unpaused"
<1> DEFINE g == eng[e]
           mode == Head(fromClient[e]).mode
           r == IF mode = "abort" THEN 0 ELSE g.run
           x == IF mode = "abort" THEN 0 ELSE g.wait
           d == g.finished \/ (mode = "abort" /\ (g.run > 0 \/ g.wait > 0))
           p == IF mode = "keep" THEN "all" ELSE "new"
           n == mode # "keep"
           h == [g EXCEPT !.run = r, !.wait = x, !.finished = d, !.pause = p, !.reject = n,
                          !.pending = TRUE, !.running = TRUE]
<1>1. g \in EngineState /\ g.at = "input"
  BY Fields, HandlesEffect DEF Pause
<1>2. /\ r \in 0 .. MaxSteps /\ x \in 0 .. MaxSteps /\ d \in BOOLEAN /\ n \in BOOLEAN
      /\ p \in PauseState /\ p # "unpaused"
  BY Fields, WavesAssumption DEF PauseState
<1>3. eng' = [eng EXCEPT ![e] = h]
  BY DEF Pause
<1> HIDE DEF r, x, d, p, n
<1>4. h \in EngineState
  BY <1>1, <1>2 DEF EngineState
<1>5. /\ h.at = "input" /\ h.wave = g.wave /\ h.steps = g.steps /\ h.running /\ h.pending
      /\ h.ignore = g.ignore /\ h.pause # "unpaused"
  BY <1>1, <1>2 DEF EngineState
<1> HIDE DEF h
<1>6. Touches(e) /\ eng'[e] = h
  BY <1>3, <1>4, Update
<1> QED BY <1>1, <1>5, <1>6

LEMMA ResumeEffect ==
    ASSUME TypeInv, NEW e \in Engine, Resume(e)
    PROVE  LET g == eng[e]
               h == eng'[e]
           IN  /\ Touches(e) /\ g.at = "input"
               /\ \/ (g.pending \/ g.running) /\ eng' = eng
                                              /\ call' = [call EXCEPT ![e] = "done"]
                  \/ /\ ~g.pending /\ ~g.running /\ call' = call
                     /\ h.at = "resume" /\ SameWave(g, h) /\ ~h.pending
<1> DEFINE g == eng[e]
           h == [g EXCEPT !.pause = "unpaused", !.reject = FALSE, !.ignore = FALSE, !.at = "resume"]
<1>1. g \in EngineState /\ g.at = "input"
  BY Fields, HandlesEffect DEF Resume
<1>2. CASE g.pending \/ g.running
  <2>1. eng' = eng /\ call' = [call EXCEPT ![e] = "done"]
    BY <1>2 DEF Resume
  <2> QED BY <1>1, <1>2, <2>1 DEF Touches, TypeInv
<1>3. CASE ~(g.pending \/ g.running)
  <2>1. eng' = [eng EXCEPT ![e] = h] /\ call' = call
    BY <1>3 DEF Resume, TypeInv
  <2>2. h \in EngineState
    BY <1>1 DEF EngineState, PauseState, Place
  <2>3. h.at = "resume" /\ SameWave(g, h) /\ h.pending = g.pending
    BY <1>1 DEF EngineState, SameWave
  <2> HIDE DEF h
  <2>4. Touches(e) /\ eng'[e] = h
    BY <2>1, <2>2, Update
  <2> QED BY <1>1, <1>3, <2>1, <2>3, <2>4
<1> QED BY <1>2, <1>3

LEMMA StartDPWaveEffect ==
    ASSUME TypeInv, NEW e \in Engine, StartDPWave(e)
    PROVE  LET g == eng[e]
               h == eng'[e]
               m == Head(starts[e])
           IN  /\ Touches(e) /\ g.at = "input" /\ h.at = "input"
               /\ m \in Msgs(starts[e]) /\ m.wave \in Nat
               /\ starts' \in [Engine -> Seq(StartMsg)]
               /\ \A f \in Engine : Msgs(starts'[f]) \subseteq Msgs(starts[f])
               /\ SamePause(g, h) /\ h.steps = g.steps /\ h.finished = g.finished /\ h.wait = g.wait
               /\ \/ SameWave(g, h)
                  \/ ~g.ignore /\ m.wave >= g.wave /\ h.wave = m.wave /\ h.running
<1> DEFINE g == eng[e]
           m == Head(starts[e])
           h == [g EXCEPT !.wave = m.wave, !.running = TRUE]
<1>1. g \in EngineState /\ g.at = "input" /\ starts[e] \in Seq(StartMsg) /\ starts[e] # <<>>
  BY Fields DEF StartDPWave, TypeInv
<1>2. /\ Tail(starts[e]) \in Seq(StartMsg) /\ m \in StartMsg
      /\ Msgs(starts[e]) = {m} \union Msgs(Tail(starts[e]))
  BY <1>1, MsgsTail
<1>3. /\ starts' \in [Engine -> Seq(StartMsg)]
      /\ \A f \in Engine : f # e => starts'[f] = starts[f]
      /\ starts'[e] = Tail(starts[e])
  BY <1>2 DEF StartDPWave, TypeInv
<1>4. /\ m \in Msgs(starts[e]) /\ m.wave \in Nat
      /\ \A f \in Engine : Msgs(starts'[f]) \subseteq Msgs(starts[f])
  <2>1. ASSUME NEW f \in Engine PROVE Msgs(starts'[f]) \subseteq Msgs(starts[f])
    <3>1. CASE f = e
      BY <3>1, <1>2, <1>3
    <3>2. CASE f # e
      BY <3>2, <1>3
    <3> QED BY <3>1, <3>2
  <2> QED BY <1>2, <2>1 DEF StartMsg
<1>5. CASE Joins(e, m)
  <2>1. eng' = [eng EXCEPT ![e] = h]
    BY <1>5 DEF StartDPWave, TypeInv
  <2>2. h \in EngineState
    BY <1>1, <1>4 DEF EngineState
  <2>3. /\ h.at = "input" /\ SamePause(g, h) /\ h.steps = g.steps /\ h.wave = m.wave /\ h.running
        /\ h.finished = g.finished /\ h.wait = g.wait
    BY <1>1 DEF EngineState, SamePause
  <2>4. ~g.ignore /\ m.wave >= g.wave
    BY <1>5 DEF Joins
  <2> HIDE DEF h
  <2>5. Touches(e) /\ eng'[e] = h
    BY <2>1, <2>2, Update
  <2> QED BY <1>1, <1>3, <1>4, <2>3, <2>4, <2>5
<1>6. CASE ~Joins(e, m)
  <2>1. eng' = eng
    BY <1>6 DEF StartDPWave
  <2> QED BY <1>1, <1>3, <1>4, <2>1 DEF SameWave, SamePause, Touches, TypeInv
<1> QED BY <1>5, <1>6

LEMMA Rests ==
    ASSUME NEW g \in EngineState, ~HasUnfinished(g) PROVE Scheduled(g) = 0
<1>1. g.run \in Nat /\ g.wait \in Nat /\ g.pause \in PauseState
  BY WavesAssumption DEF EngineState
<1>2. CASE g.pause = "unpaused"
  <2>1. g.run = 0 /\ g.wait = 0
    BY <1>1, <1>2 DEF HasUnfinished
  <2> QED BY <1>2, <2>1 DEF Scheduled
<1>3. CASE g.pause = "new"
  BY <1>1, <1>3 DEF HasUnfinished, Scheduled
<1>4. CASE g.pause = "all"
  BY <1>4 DEF Scheduled
<1> QED BY <1>1, <1>2, <1>3, <1>4 DEF PauseState

(* A step changes the requests only. *)
LEMMA SteppedFields ==
    ASSUME NEW g \in EngineState
    PROVE  LET h == Stepped(g)
           IN  /\ h \in EngineState /\ h.at = g.at /\ SameWave(g, h)
               /\ h.pending = g.pending /\ h.ignore = g.ignore /\ h.pause = g.pause
               /\ Scheduled(g) = 0 => h.run = g.run /\ ~h.finished
<1> DEFINE r == IF Scheduled(g) > 0 THEN Scheduled(g) - 1 ELSE g.run
           x == IF g.pause = "unpaused" THEN 0 ELSE g.wait
           d == Scheduled(g) = 1
           h == [g EXCEPT !.run = r, !.wait = x, !.finished = d]
<1>1. Stepped(g) = h
  BY DEF Stepped
<1>2. Scheduled(g) \in 0 .. MaxSteps /\ MaxSteps \in Nat
  BY WavesAssumption DEF EngineState, PauseState, Scheduled
<1>3. r \in 0 .. MaxSteps /\ x \in 0 .. MaxSteps /\ d \in BOOLEAN
  BY <1>2 DEF EngineState
<1>4. Scheduled(g) = 0 => r = g.run /\ ~d
  OBVIOUS
<1> HIDE DEF r, x, d
<1>5. h \in EngineState
  BY <1>3 DEF EngineState
<1>6. /\ h.at = g.at /\ SameWave(g, h) /\ h.run = r /\ h.finished = d
      /\ h.pending = g.pending /\ h.ignore = g.ignore /\ h.pause = g.pause
  BY DEF EngineState, SameWave
<1> HIDE DEF h
<1> QED BY <1>1, <1>4, <1>5, <1>6

LEMMA NextStepNat == ASSUME NEW n \in Nat PROVE NextStep(n) \in Nat
BY WavesAssumption DEF NextStep

LEMMA StepEffect ==
    ASSUME TypeInv, NEW e \in Engine, Step(e)
    PROVE  LET g == eng[e]
               h == eng'[e]
           IN  /\ Touches(e) /\ g.at = "input" /\ HasWork(g) /\ SamePause(g, h)
               /\ h.wave = g.wave /\ h.running = g.running
               /\ \/ h.at = "loop" /\ h.steps = g.steps /\ Scheduled(g) = 0 /\ ~g.running
                  \/ /\ h.at = "step" /\ h.steps = NextStep(g.steps)
                     /\ (Scheduled(g) = 0 => g.running \/ HasUnfinished(Stepped(g)))
<1> DEFINE g == eng[e]
           s == Stepped(g)
           idle == Scheduled(g) = 0 /\ ~HasUnfinished(s) /\ ~s.running
           i == [s EXCEPT !.at = "loop"]
           t == [g EXCEPT !.at = "step", !.steps = NextStep(g.steps)]
<1>1. g \in EngineState /\ g.at = "input" /\ HasWork(g) /\ g.steps \in Nat
  BY Fields DEF Step
<1>2. /\ s \in EngineState /\ SameWave(g, s)
      /\ s.pending = g.pending /\ s.ignore = g.ignore /\ s.pause = g.pause
      /\ Scheduled(g) = 0 => s.run = g.run
  BY <1>1, SteppedFields
<1>3. (idle => eng' = [eng EXCEPT ![e] = i]) /\ (~idle => eng' = [eng EXCEPT ![e] = t])
  BY Zenon DEF Step
<1>4. CASE idle
  <2> HIDE DEF s
  <2>1. i \in EngineState
    BY <1>2 DEF EngineState, Place
  <2>2. i.at = "loop" /\ SameWave(s, i) /\ SamePause(s, i)
    BY <1>2 DEF EngineState, SameWave, SamePause
  <2> HIDE DEF i
  <2>3. Touches(e) /\ eng'[e] = i
    BY <1>3, <1>4, <2>1, Update
  <2> QED BY <1>1, <1>2, <1>4, <2>2, <2>3 DEF SameWave, SamePause
<1>5. CASE ~idle
  <2>1. t \in EngineState
    BY <1>1, NextStepNat DEF EngineState, Place
  <2>2. /\ t.at = "step" /\ t.steps = NextStep(g.steps) /\ SamePause(g, t)
        /\ t.wave = g.wave /\ t.running = g.running
    BY <1>1 DEF EngineState, SamePause
  <2>3. Scheduled(g) = 0 => g.running \/ HasUnfinished(Stepped(g))
    BY <1>2, <1>5 DEF SameWave
  <2> HIDE DEF t
  <2>4. Touches(e) /\ eng'[e] = t
    <3>1. eng' = [eng EXCEPT ![e] = t]
      BY <1>3, <1>5
    <3> QED BY <2>1, <3>1, Update
  <2> HIDE DEF s
  <2> QED BY <1>1, <2>2, <2>3, <2>4
<1> QED BY <1>4, <1>5

LEMMA SyncedFields ==
    ASSUME NEW g \in EngineState, g.at = "synced"
    PROVE  LET h == Synced(g)
           IN  /\ h \in EngineState /\ h.running = Runs(g) /\ h.pending = Pends(g)
               /\ h.ignore = Ignores(g) /\ h.wave = g.wave /\ h.steps = g.steps
               /\ h.pause = g.pause /\ h.run = g.run /\ h.wait = g.wait
               /\ h.finished = g.finished
<1>1. CASE Syncs(g)
  <2> DEFINE i == g.ignore \/ g.consensus
             p == g.pending /\ ~g.consensus
             h == [g EXCEPT !.running = g.unfinished, !.ignore = i, !.pending = p]
  <2>1. Synced(g) = h
    BY <1>1 DEF Synced
  <2>2. i \in BOOLEAN /\ p \in BOOLEAN /\ g.unfinished \in BOOLEAN
    BY DEF EngineState
  <2>3. Runs(g) = g.unfinished /\ Pends(g) = p /\ Ignores(g) = i
    BY <1>1, <2>2 DEF Runs, Pends, Ignores, Decides, EngineState
  <2> HIDE DEF i, p
  <2>4. h \in EngineState
    BY <2>2 DEF EngineState
  <2>5. /\ h.running = g.unfinished /\ h.pending = p /\ h.ignore = i
        /\ h.wave = g.wave /\ h.steps = g.steps
        /\ h.pause = g.pause /\ h.run = g.run /\ h.wait = g.wait /\ h.finished = g.finished
    BY DEF EngineState
  <2> HIDE DEF h
  <2> QED BY <2>1, <2>3, <2>4, <2>5
<1>2. CASE ~Syncs(g)
  <2> DEFINE h == [g EXCEPT !.running = TRUE]
  <2>1. Synced(g) = h
    BY <1>2 DEF Synced
  <2>2. Runs(g) = TRUE /\ Pends(g) = g.pending /\ Ignores(g) = g.ignore
    BY <1>2 DEF Runs, Pends, Ignores, Decides, EngineState
  <2>3. h \in EngineState
    BY DEF EngineState
  <2>4. /\ h.running = TRUE /\ h.pending = g.pending /\ h.ignore = g.ignore
        /\ h.wave = g.wave /\ h.steps = g.steps
        /\ h.pause = g.pause /\ h.run = g.run /\ h.wait = g.wait /\ h.finished = g.finished
    BY DEF EngineState
  <2> HIDE DEF h
  <2> QED BY <2>1, <2>2, <2>3, <2>4
<1> QED BY <1>1, <1>2

LEMMA EndStepEffect ==
    ASSUME TypeInv, NEW e \in Engine, EndStep(e)
    PROVE  LET g == eng[e]
               h == eng'[e]
           IN  /\ Touches(e) /\ g.at = "synced" /\ h.at = "loop"
               /\ h.running = Runs(g) /\ h.wave = WaveOf(g) /\ h.steps = StepOf(g)
               /\ h.pending = Pends(g) /\ h.ignore = Ignores(g) /\ h.pause = g.pause
               /\ h.run = g.run /\ h.wait = g.wait /\ h.finished = g.finished
               /\ \/ e = 0 /\ ~Runs(g) /\ ToCoord(e, [kind |-> "complete", wave |-> g.wave])
                  \/ e = 0 /\ Runs(g) /\ ToCoord(e, [kind |-> "start", wave |-> g.wave])
                  \/ (e # 0 \/ Runs(g)) /\ toCoord' = toCoord
<1> DEFINE g == eng[e]
           s == Synced(g)
           w == IF s.running THEN s.wave ELSE s.wave + 1
           n == IF s.running THEN s.steps ELSE 0
           h == [s EXCEPT !.at = "loop", !.wave = w, !.steps = n,
                          !.was = FALSE, !.unfinished = FALSE, !.consensus = FALSE]
<1>1. g \in EngineState /\ g.at = "synced"
  BY Fields DEF EndStep
<1>2. /\ s \in EngineState /\ s.running = Runs(g) /\ s.pending = Pends(g)
      /\ s.ignore = Ignores(g) /\ s.wave = g.wave /\ s.steps = g.steps
      /\ s.pause = g.pause /\ s.run = g.run /\ s.wait = g.wait /\ s.finished = g.finished
  BY <1>1, SyncedFields
<1>3. /\ eng' = [eng EXCEPT ![e] = h]
      /\ IF e = 0 /\ ~s.running
         THEN ToCoord(e, [kind |-> "complete", wave |-> s.wave])
         ELSE IF e = 0 /\ ~s.was /\ ~s.pending
         THEN ToCoord(e, [kind |-> "start", wave |-> s.wave])
         ELSE toCoord' = toCoord
  BY DEF EndStep
<1> HIDE DEF s
<1>4. w = WaveOf(g) /\ n = StepOf(g) /\ w \in Nat /\ n \in Nat
  BY <1>1, <1>2 DEF WaveOf, StepOf, Ends, EngineState
<1> HIDE DEF w, n
<1>5. h \in EngineState
  BY <1>2, <1>4 DEF EngineState, Place
<1>6. /\ h.at = "loop" /\ h.running = s.running /\ h.wave = w /\ h.steps = n
      /\ h.pending = s.pending /\ h.ignore = s.ignore /\ h.pause = s.pause
      /\ h.run = s.run /\ h.wait = s.wait /\ h.finished = s.finished
  BY <1>2 DEF EngineState
<1> HIDE DEF h
<1>7. Touches(e) /\ eng'[e] = h
  BY <1>3, <1>5, Update
<1>8. \/ e = 0 /\ ~Runs(g) /\ ToCoord(e, [kind |-> "complete", wave |-> g.wave])
      \/ e = 0 /\ Runs(g) /\ ToCoord(e, [kind |-> "start", wave |-> g.wave])
      \/ (e # 0 \/ Runs(g)) /\ toCoord' = toCoord
  BY <1>2, <1>3
<1> QED BY <1>1, <1>2, <1>4, <1>6, <1>7, <1>8

(* The number of pausing engines is a multiple of N only when it is 0 or N. *)
LEMMA AllOrNone ==
    ASSUME NEW P \in SUBSET Engine, Cardinality(P) % N = 0
    PROVE  P = {} \/ P = Engine
<1>1. N \in Nat /\ N >= 2 /\ IsFiniteSet(Engine) /\ Cardinality(Engine) = N
  <2>1. N \in Nat /\ N >= 2 /\ 0 \in Int /\ N - 1 \in Int
    BY WavesAssumption
  <2>2. /\ IsFiniteSet(0 .. N - 1)
        /\ Cardinality(0 .. N - 1) = IF 0 > N - 1 THEN 0 ELSE N - 1 - 0 + 1
    BY <2>1, FS_Interval
  <2> QED BY <2>1, <2>2 DEF Engine
<1>2. IsFiniteSet(P) /\ Cardinality(P) <= N /\ (Cardinality(P) = N => P = Engine)
  BY <1>1, FS_Subset
<1>3. Cardinality(P) \in Nat /\ (Cardinality(P) = 0 => P = {})
  BY <1>2, FS_CardinalityType, FS_EmptySet
<1>4. PICK n \in Nat : n = Cardinality(P)
  BY <1>3
<1>5. n <= N /\ n % N = 0
  BY <1>2, <1>4
<1>6. n = 0 \/ n = N
  BY <1>1, <1>5
<1> QED BY <1>2, <1>3, <1>4, <1>6

LEMMA AllReduceEffect ==
    ASSUME TypeInv, AllReduce
    PROVE  /\ eng' \in [Engine -> EngineState]
           /\ \A e \in Engine :
                 /\ eng[e].at = "step" /\ eng'[e].at = "synced" /\ SameWave(eng[e], eng'[e])
                 /\ eng'[e].pending = eng[e].pending /\ eng'[e].ignore = eng[e].ignore
                 /\ eng'[e].pause = eng[e].pause
                 /\ eng'[e].consensus <=> \A f \in Engine : eng[f].pending
                 /\ ~eng'[e].unfinished => ~HasUnfinished(eng'[e])
           /\ \A e, f \in Engine :
                 /\ eng'[e].unfinished = eng'[f].unfinished
                 /\ eng'[e].consensus = eng'[f].consensus
                 /\ ~eng'[e].unfinished => eng[e].pending = eng[f].pending
<1> DEFINE P == {e \in Engine : eng[e].pending}
           u == \/ \E e \in Engine : HasUnfinished(Stepped(eng[e]))
                \/ Cardinality(P) % N # 0
           c == P = Engine
           h(e) == [Stepped(eng[e]) EXCEPT !.at = "synced", !.unfinished = u, !.consensus = c]
<1>1. /\ \A e \in Engine : eng[e].at = "step"
      /\ eng' = [e \in Engine |-> h(e)]
  BY DEF AllReduce
<1>2. /\ u \in BOOLEAN /\ c \in BOOLEAN /\ (c <=> \A f \in Engine : eng[f].pending)
      /\ ~u => \A e \in Engine : ~HasUnfinished(Stepped(eng[e]))
  OBVIOUS
<1>3. ~u => P = {} \/ P = Engine
  BY AllOrNone
<1>4. \A e, f \in Engine : ~u => eng[e].pending = eng[f].pending
  BY <1>3, Fields
<1> HIDE DEF u, c
<1>5. ASSUME NEW e \in Engine
      PROVE  /\ h(e) \in EngineState /\ h(e).at = "synced" /\ SameWave(eng[e], h(e))
             /\ h(e).pending = eng[e].pending /\ h(e).ignore = eng[e].ignore
             /\ h(e).pause = eng[e].pause /\ h(e).consensus = c /\ h(e).unfinished = u
             /\ HasUnfinished(h(e)) <=> HasUnfinished(Stepped(eng[e]))
  <2> DEFINE s == Stepped(eng[e])
  <2>1. /\ s \in EngineState /\ SameWave(eng[e], s)
        /\ s.pending = eng[e].pending /\ s.ignore = eng[e].ignore /\ s.pause = eng[e].pause
    BY Fields, SteppedFields
  <2> HIDE DEF s
  <2> DEFINE k == [s EXCEPT !.at = "synced", !.unfinished = u, !.consensus = c]
  <2>2. k \in EngineState
    BY <1>2, <2>1 DEF EngineState, Place
  <2>3. /\ k.at = "synced" /\ SameWave(s, k) /\ SamePause(s, k) /\ k.wait = s.wait
        /\ k.consensus = c /\ k.unfinished = u
    BY <2>1 DEF EngineState, SameWave, SamePause
  <2>4. HasUnfinished(k) <=> HasUnfinished(s)
    BY <2>3 DEF SamePause, HasUnfinished
  <2>5. h(e) = k
    BY DEF s
  <2> HIDE DEF k, h
  <2> QED BY <2>1, <2>2, <2>3, <2>4, <2>5 DEF SameWave, SamePause, s
<1> HIDE DEF h, P
<1> QED BY <1>1, <1>2, <1>4, <1>5

LEMMA ResumeBarrierEffect ==
    ASSUME TypeInv, ResumeBarrier
    PROVE  /\ eng' \in [Engine -> EngineState]
           /\ \A e \in Engine :
                 /\ eng[e].at = "resume" /\ eng'[e].at = "input"
                 /\ eng'[e].wave = eng[e].wave /\ eng'[e].steps = eng[e].steps
                 /\ eng'[e].pending = eng[e].pending /\ call'[e] = "done"
<1> DEFINE u == \E e \in Engine : HasUnfinished(eng[e])
           h(e) == [eng[e] EXCEPT !.at = "input", !.running = u]
<1>1. /\ \A e \in Engine : eng[e].at = "resume"
      /\ eng' = [e \in Engine |-> h(e)] /\ call' = [e \in Engine |-> "done"]
  BY DEF ResumeBarrier
<1>2. u \in BOOLEAN
  OBVIOUS
<1> HIDE DEF u
<1>3. ASSUME NEW e \in Engine
      PROVE  /\ h(e) \in EngineState /\ h(e).at = "input" /\ h(e).wave = eng[e].wave
             /\ h(e).steps = eng[e].steps /\ h(e).pending = eng[e].pending
  BY <1>2, Fields DEF EngineState, Place
<1> HIDE DEF h
<1> QED BY <1>1, <1>3

-----------------------------------------------------------------------------
(* Steps and waves *)

WavesKept ==
    /\ Wave' = Wave
    /\ \A e \in Engine :
          /\ WaveOf(eng'[e]) = Wave' /\ Settled(e)'
          /\ Runs(eng[e]) => Runs(eng'[e])
    /\ \A e, f \in Engine : StepsInv(e, f)'

LEMMA WaveFacts ==
    ASSUME WavesInv
    PROVE  /\ 0 \in Engine /\ Wave \in Nat
           /\ \A e \in Engine : WaveOf(eng[e]) = Wave /\ WaveOf(eng[e]) \in Nat /\ StepOf(eng[e]) \in Nat
<1>1. 0 \in Engine
  BY WavesAssumption DEF Engine
<1>2. \A e \in Engine : WaveOf(eng[e]) \in Nat /\ StepOf(eng[e]) \in Nat
  BY Fields DEF WavesInv, WaveOf, StepOf
<1> QED BY <1>1, <1>2 DEF WavesInv, EngineWaveInv, Wave

(* A step of one engine that is not the end of a collective. *)
LEMMA EngineMoves ==
    ASSUME WavesInv, NEW e \in Engine, Touches(e),
           eng[e].at # "step", eng'[e].at # "synced",
           WaveOf(eng'[e]) = WaveOf(eng[e]), Runs(eng[e]) => Runs(eng'[e]),
           \/ eng'[e].at # "step" /\ StepOf(eng'[e]) = StepOf(eng[e])
           \/ eng'[e].at = "step" /\ eng'[e].steps = NextStep(StepOf(eng[e])),
           eng'[e].at = "resume" => ~eng'[e].running
    PROVE  WavesKept
<1>1. Wave' = Wave
  <2>1. Wave' = WaveOf(eng'[0])
    BY DEF Wave, WaveOf, Ends, Runs, Syncs
  <2> QED BY <2>1, WaveFacts DEF Touches, Wave
<1>2. ASSUME NEW f \in Engine
      PROVE  WaveOf(eng'[f]) = Wave' /\ Settled(f)' /\ (Runs(eng[f]) => Runs(eng'[f]))
  <2>1. CASE f = e
    BY <1>1, <2>1, WaveFacts DEF Settled
  <2>2. CASE f # e
    <3>1. eng'[f] = eng[f]
      BY <2>2 DEF Touches
    <3> QED BY <1>1, <3>1, WaveFacts DEF Settled, WavesInv
  <2> QED BY <2>1, <2>2
<1>3. ASSUME NEW f \in Engine, NEW k \in Engine PROVE StepsInv(f, k)'
  <2>0. /\ StepsInv(f, k) /\ StepsInv(f, e) /\ StepsInv(e, k) /\ StepsInv(e, f) /\ StepsInv(k, e)
    BY DEF WavesInv
  <2>1. StepsInv(f, k)' <=>
          /\ eng'[f].at = "step" /\ eng'[k].at = "step" => eng'[f].steps = eng'[k].steps
          /\ eng'[f].at = "step" /\ eng'[k].at # "step" => eng'[f].steps = NextStep(StepOf(eng'[k]))
          /\ eng'[f].at # "step" /\ eng'[k].at # "step" => StepOf(eng'[f]) = StepOf(eng'[k])
          /\ eng'[f].at = "synced" /\ eng'[k].at = "synced" =>
                /\ eng'[f].steps = eng'[k].steps
                /\ eng'[f].unfinished = eng'[k].unfinished /\ eng'[f].consensus = eng'[k].consensus
    BY DEF StepsInv, StepOf, Ends, Runs, Syncs, NextStep
  <2>2. CASE f = e /\ k = e
    BY <2>1, <2>2
  <2>3. CASE f = e /\ k # e
    <3>1. eng'[k] = eng[k]
      BY <2>3 DEF Touches
    <3> QED BY <2>0, <2>1, <2>3, <3>1 DEF StepsInv
  <2>4. CASE f # e /\ k = e
    <3>1. eng'[f] = eng[f]
      BY <2>4 DEF Touches
    <3> QED BY <2>0, <2>1, <2>4, <3>1 DEF StepsInv
  <2>5. CASE f # e /\ k # e
    <3>1. eng'[f] = eng[f] /\ eng'[k] = eng[k]
      BY <2>5 DEF Touches
    <3> QED BY <2>0, <2>1, <3>1 DEF StepsInv
  <2> QED BY <2>2, <2>3, <2>4, <2>5
<1> QED BY <1>1, <1>2, <1>3 DEF WavesKept

(* Messages that are taken or added leave the waves in order. *)
LEMMA ChannelsMove ==
    ASSUME WavesInv, WavesKept,
           \A e \in Engine :
              /\ \A m \in Msgs(fromClient'[e]) : m \in Msgs(fromClient[e]) \/ AddInv(m)
              /\ \A m \in Msgs(starts'[e]) : m \in Msgs(starts[e]) \/ m.wave <= Wave
              /\ \A m \in Msgs(toCoord'[e]) :
                    m \in Msgs(toCoord[e])
                      \/ (m.kind = "complete" /\ m.wave < Wave)
                      \/ (m.kind = "start" /\ m.wave = Wave /\ Runs(eng'[e]))
    PROVE  \A e \in Engine : EngineWaveInv(e)'
<1> SUFFICES ASSUME NEW e \in Engine PROVE EngineWaveInv(e)'
  OBVIOUS
<1>1. /\ Wave' = Wave /\ WaveOf(eng'[e]) = Wave /\ (Runs(eng[e]) => Runs(eng'[e]))
  BY DEF WavesKept
<1>2. /\ \A m \in Msgs(fromClient[e]) : AddInv(m)
      /\ \A m \in Msgs(starts[e]) : m.wave <= Wave
      /\ \A m \in Msgs(toCoord[e]) : NoteInv(e, m)
  BY DEF WavesInv, EngineWaveInv
<1>3. \A m \in Msgs(fromClient'[e]) : m.kind = "add" => m.wave <= Wave
  BY <1>2 DEF AddInv
<1>4. \A m \in Msgs(starts'[e]) : m.wave <= Wave
  BY <1>2
<1>5. \A m \in Msgs(toCoord'[e]) :
        /\ m.kind = "complete" => m.wave < Wave
        /\ m.kind = "start" => m.wave < Wave \/ (m.wave = Wave /\ Runs(eng'[e]))
  BY <1>1, <1>2 DEF NoteInv
<1>6. EngineWaveInv(e)' <=>
        /\ WaveOf(eng'[e]) = Wave'
        /\ \A m \in Msgs(fromClient'[e]) : m.kind = "add" => m.wave <= Wave'
        /\ \A m \in Msgs(starts'[e]) : m.wave <= Wave'
        /\ \A m \in Msgs(toCoord'[e]) :
              /\ m.kind = "complete" => m.wave < Wave'
              /\ m.kind = "start" => m.wave < Wave' \/ (m.wave = Wave' /\ Runs(eng'[e]))
  BY DEF EngineWaveInv, AddInv, NoteInv, WaveOf, Ends, Runs, Syncs, Msgs
<1> QED BY <1>1, <1>3, <1>4, <1>5, <1>6

LEMMA CoordKept ==
    ASSUME WavesInv, WavesKept, coord' = coord, client'.wave <= Wave,
           Msgs(toCoord[0]) \subseteq Msgs(toCoord'[0]),
           Ends(eng[0]) => Ends(eng'[0]) \/ [kind |-> "complete", wave |-> Wave - 1] \in Msgs(toCoord'[0])
    PROVE  CoordInv'
<1>1. Wave' = Wave /\ \A e \in Engine : Runs(eng[e]) => Runs(eng'[e])
  BY DEF WavesKept
<1>2. EndSent' <=> \E m \in Msgs(toCoord'[0]) : m.kind = "complete" /\ m.wave = Wave' - 1
  BY DEF EndSent, Msgs
<1>3. EndSent => EndSent'
  BY <1>1, <1>2 DEF EndSent
<1>4. Ends(eng[0]) => Ends(eng'[0]) \/ EndSent'
  BY <1>1, <1>2
<1>5. CoordInv' <=>
        /\ client'.wave <= Wave' /\ coord'.wave <= Wave'
        /\ coord'.wave = Wave' \/ Ends(eng'[0]) \/ EndSent'
        /\ coord'.wave = Wave' /\ coord'.running => \E e \in Engine : Runs(eng'[e])
  BY DEF CoordInv, Ends, Runs, Syncs
<1> QED BY <1>1, <1>3, <1>4, <1>5 DEF CoordInv, WavesInv

LEMMA Notified ==
    ASSUME TypeInv, NEW e \in Engine, NEW m \in CoordMsg, ToCoord(e, m)
    PROVE  /\ toCoord' \in [Engine -> Seq(CoordMsg)]
           /\ Msgs(toCoord'[e]) = Msgs(toCoord[e]) \union {m}
           /\ \A f \in Engine : f # e => toCoord'[f] = toCoord[f]
<1>1. toCoord[e] \in Seq(CoordMsg)
  BY DEF TypeInv
<1>2. Append(toCoord[e], m) \in Seq(CoordMsg) /\ Msgs(Append(toCoord[e], m)) = Msgs(toCoord[e]) \union {m}
  BY <1>1, MsgsAppend
<1>3. toCoord' = [toCoord EXCEPT ![e] = Append(toCoord[e], m)]
  BY DEF ToCoord
<1> QED BY <1>2, <1>3 DEF TypeInv

-----------------------------------------------------------------------------
(* Every action keeps the waves in order *)

LEMMA WavesFrom ==
    ASSUME TypeInv', WavesKept, CoordInv', \A e \in Engine : EngineWaveInv(e)'
    PROVE  WavesInv'
BY DEF WavesInv, WavesKept

LEMMA EngUnchanged == ASSUME WavesInv, eng' = eng PROVE WavesKept
<1>1. Wave' = Wave
  BY DEF Wave, WaveOf, Ends, Runs, Syncs
<1>2. ASSUME NEW e \in Engine PROVE WaveOf(eng'[e]) = Wave' /\ Settled(e)'
  BY <1>1, WaveFacts DEF WavesInv, Settled
<1>3. ASSUME NEW e \in Engine, NEW f \in Engine PROVE StepsInv(e, f)'
  <2>1. StepsInv(e, f)
    BY DEF WavesInv
  <2> QED BY <2>1 DEF StepsInv, StepOf, Ends, Runs, Syncs, NextStep
<1> QED BY <1>1, <1>2, <1>3 DEF WavesKept

(* An action of one engine that takes a message or none, and sends none. *)
LEMMA EngineOnly ==
    ASSUME WavesInv, WavesKept, NEW e \in Engine, Touches(e), Ends(eng[0]) => Ends(eng'[0]),
           fromClient' \in [Engine -> Seq(ClientMsg)], starts' \in [Engine -> Seq(StartMsg)],
           call' \in [Engine -> {"none", "sent", "waiting", "done"}],
           \A f \in Engine : /\ Msgs(fromClient'[f]) \subseteq Msgs(fromClient[f])
                             /\ Msgs(starts'[f]) \subseteq Msgs(starts[f]),
           UNCHANGED <<toCoord, coord, client>>
    PROVE  WavesInv'
<1>1. TypeInv'
  BY DEF TypeInv, WavesInv, Touches
<1>2. \A f \in Engine : EngineWaveInv(f)'
  BY ChannelsMove
<1>3. client'.wave <= Wave
  BY DEF WavesInv, CoordInv
<1>4. CoordInv'
  BY <1>3, CoordKept
<1> QED BY <1>1, <1>2, <1>4, WavesFrom

LEMMA LoopTopWaves ==
    ASSUME WavesInv, NEW e \in Engine, LoopTop(e) PROVE WavesInv'
<1>0. TypeInv
  BY DEF WavesInv
<1>1. /\ Touches(e) /\ eng[e].at = "loop" /\ eng'[e].at = "input" /\ SameWave(eng[e], eng'[e])
  BY <1>0, LoopTopEffect
<1>2. /\ WaveOf(eng'[e]) = WaveOf(eng[e]) /\ StepOf(eng'[e]) = StepOf(eng[e])
      /\ Runs(eng'[e]) = Runs(eng[e]) /\ ~Ends(eng[e])
  BY <1>1 DEF WaveOf, StepOf, Ends, Runs, SameWave
<1>3. WavesKept
  BY <1>1, <1>2, EngineMoves
<1>4. Ends(eng[0]) => Ends(eng'[0])
  BY <1>1, <1>2, WaveFacts DEF Touches
<1> QED BY <1>0, <1>1, <1>3, <1>4, EngineOnly DEF LoopTop, TypeInv

LEMMA PauseWaves ==
    ASSUME WavesInv, NEW e \in Engine, Pause(e) PROVE WavesInv'
<1>0. TypeInv /\ Handles(e, "pause")
  BY DEF WavesInv, Pause
<1>1. /\ Touches(e) /\ eng[e].at = "input" /\ eng'[e].at = "input"
      /\ eng'[e].wave = eng[e].wave /\ eng'[e].steps = eng[e].steps /\ eng'[e].running
  BY <1>0, PauseEffect
<1>2. /\ WaveOf(eng'[e]) = WaveOf(eng[e]) /\ StepOf(eng'[e]) = StepOf(eng[e])
      /\ Runs(eng'[e]) /\ ~Ends(eng[e])
  BY <1>1 DEF WaveOf, StepOf, Ends, Runs
<1>3. WavesKept
  BY <1>1, <1>2, EngineMoves
<1>4. Ends(eng[0]) => Ends(eng'[0])
  BY <1>1, <1>2, WaveFacts DEF Touches
<1>5. /\ fromClient' \in [Engine -> Seq(ClientMsg)]
      /\ \A f \in Engine : Msgs(fromClient'[f]) \subseteq Msgs(fromClient[f])
  BY <1>0, HandlesEffect
<1>6. call' \in [Engine -> {"none", "sent", "waiting", "done"}]
  BY <1>0 DEF Pause, TypeInv
<1>7. UNCHANGED <<starts, toCoord, coord, client>> /\ starts' \in [Engine -> Seq(StartMsg)]
  BY <1>0 DEF Pause, TypeInv
<1> QED BY <1>1, <1>3, <1>4, <1>5, <1>6, <1>7, EngineOnly

LEMMA ResumeWaves ==
    ASSUME WavesInv, NEW e \in Engine, Resume(e) PROVE WavesInv'
<1>0. TypeInv /\ Handles(e, "resume")
  BY DEF WavesInv, Resume
<1>1. /\ Touches(e) /\ eng[e].at = "input"
      /\ \/ eng' = eng /\ call' = [call EXCEPT ![e] = "done"]
         \/ /\ ~eng[e].running /\ eng'[e].at = "resume" /\ SameWave(eng[e], eng'[e])
            /\ call' = call
  BY <1>0, ResumeEffect
<1>2. WavesKept
  <2>1. CASE eng' = eng
    BY <2>1, EngUnchanged
  <2>2. CASE ~eng[e].running /\ eng'[e].at = "resume" /\ SameWave(eng[e], eng'[e])
    <3>1. /\ WaveOf(eng'[e]) = WaveOf(eng[e]) /\ StepOf(eng'[e]) = StepOf(eng[e])
          /\ Runs(eng'[e]) = Runs(eng[e]) /\ ~eng'[e].running
      BY <1>1, <2>2 DEF WaveOf, StepOf, Ends, Runs, SameWave
    <3> QED BY <1>1, <2>2, <3>1, EngineMoves
  <2> QED BY <1>1, <2>1, <2>2
<1>3. Ends(eng[0]) => Ends(eng'[0])
  <2>1. ~Ends(eng[e])
    BY <1>1 DEF Ends
  <2> QED BY <1>1, <2>1, WaveFacts DEF Touches
<1>4. /\ fromClient' \in [Engine -> Seq(ClientMsg)]
      /\ \A f \in Engine : Msgs(fromClient'[f]) \subseteq Msgs(fromClient[f])
  BY <1>0, HandlesEffect
<1>5. call' \in [Engine -> {"none", "sent", "waiting", "done"}]
  BY <1>0, <1>1 DEF TypeInv
<1>6. UNCHANGED <<starts, toCoord, coord, client>> /\ starts' \in [Engine -> Seq(StartMsg)]
  BY <1>0 DEF Resume, TypeInv
<1> QED BY <1>1, <1>2, <1>3, <1>4, <1>5, <1>6, EngineOnly

LEMMA StartDPWaveWaves ==
    ASSUME WavesInv, NEW e \in Engine, StartDPWave(e) PROVE WavesInv'
<1> DEFINE m == Head(starts[e])
<1>0. TypeInv
  BY DEF WavesInv
<1>1. /\ Touches(e) /\ eng[e].at = "input" /\ eng'[e].at = "input"
      /\ m \in Msgs(starts[e]) /\ m.wave \in Nat
      /\ starts' \in [Engine -> Seq(StartMsg)]
      /\ \A f \in Engine : Msgs(starts'[f]) \subseteq Msgs(starts[f])
      /\ eng'[e].steps = eng[e].steps
      /\ \/ SameWave(eng[e], eng'[e])
         \/ m.wave >= eng[e].wave /\ eng'[e].wave = m.wave /\ eng'[e].running
  BY <1>0, StartDPWaveEffect
<1> HIDE DEF m
<1>2. m.wave <= eng[e].wave /\ eng[e].wave \in Nat
  <2>1. m.wave <= Wave
    BY <1>1 DEF WavesInv, EngineWaveInv
  <2>2. WaveOf(eng[e]) = Wave
    BY WaveFacts
  <2> QED BY <1>0, <1>1, <2>1, <2>2, Fields DEF WaveOf, Ends
<1>3. eng'[e].wave = eng[e].wave /\ (eng[e].running => eng'[e].running)
  BY <1>1, <1>2 DEF SameWave
<1>4. /\ WaveOf(eng'[e]) = WaveOf(eng[e]) /\ StepOf(eng'[e]) = StepOf(eng[e])
      /\ (Runs(eng[e]) => Runs(eng'[e])) /\ ~Ends(eng[e])
  BY <1>1, <1>3 DEF WaveOf, StepOf, Ends, Runs
<1>5. WavesKept
  BY <1>1, <1>4, EngineMoves
<1>6. Ends(eng[0]) => Ends(eng'[0])
  BY <1>1, <1>4, WaveFacts DEF Touches
<1>7. /\ UNCHANGED <<fromClient, toCoord, coord, client>>
      /\ fromClient' \in [Engine -> Seq(ClientMsg)]
      /\ call' \in [Engine -> {"none", "sent", "waiting", "done"}]
  BY <1>0 DEF StartDPWave, TypeInv
<1> QED BY <1>1, <1>5, <1>6, <1>7, EngineOnly

LEMMA StepWaves ==
    ASSUME WavesInv, NEW e \in Engine, Step(e) PROVE WavesInv'
<1>0. TypeInv
  BY DEF WavesInv
<1>1. /\ Touches(e) /\ eng[e].at = "input" /\ eng'[e].wave = eng[e].wave
      /\ eng'[e].running = eng[e].running
      /\ \/ eng'[e].at = "loop" /\ eng'[e].steps = eng[e].steps
         \/ eng'[e].at = "step" /\ eng'[e].steps = NextStep(eng[e].steps)
  BY <1>0, StepEffect
<1>2. /\ WaveOf(eng'[e]) = WaveOf(eng[e]) /\ StepOf(eng[e]) = eng[e].steps
      /\ eng'[e].at # "step" => StepOf(eng'[e]) = eng'[e].steps
      /\ Runs(eng'[e]) = Runs(eng[e]) /\ ~Ends(eng[e])
  BY <1>1 DEF WaveOf, StepOf, Ends, Runs
<1>3. WavesKept
  BY <1>1, <1>2, EngineMoves
<1>4. Ends(eng[0]) => Ends(eng'[0])
  BY <1>1, <1>2, WaveFacts DEF Touches
<1> QED BY <1>0, <1>1, <1>3, <1>4, EngineOnly DEF Step, TypeInv

(* An action of one engine that notifies the coordinator. *)
LEMMA EngineNotifies ==
    ASSUME WavesInv, WavesKept, NEW e \in Engine, Touches(e),
           fromClient' \in [Engine -> Seq(ClientMsg)],
           \A f \in Engine : Msgs(fromClient'[f]) \subseteq Msgs(fromClient[f]),
           UNCHANGED <<starts, coord, call, client>>,
           NEW m \in CoordMsg, ToCoord(e, m),
           \/ m.kind = "complete" /\ m.wave < Wave
           \/ m.kind = "start" /\ m.wave = Wave /\ Runs(eng'[e]),
           Ends(eng[0]) => \/ Ends(eng'[0])
                           \/ e = 0 /\ m = [kind |-> "complete", wave |-> Wave - 1]
    PROVE  WavesInv'
<1>0. TypeInv
  BY DEF WavesInv
<1>1. /\ toCoord' \in [Engine -> Seq(CoordMsg)]
      /\ Msgs(toCoord'[e]) = Msgs(toCoord[e]) \union {m}
      /\ \A f \in Engine : f # e => toCoord'[f] = toCoord[f]
  BY <1>0, Notified
<1>2. TypeInv'
  BY <1>0, <1>1 DEF TypeInv, Touches
<1>3. ASSUME NEW f \in Engine, NEW x \in Msgs(toCoord'[f])
      PROVE  \/ x \in Msgs(toCoord[f])
             \/ x.kind = "complete" /\ x.wave < Wave
             \/ x.kind = "start" /\ x.wave = Wave /\ Runs(eng'[f])
  <2>1. CASE f = e
    <3>1. x \in Msgs(toCoord[f]) \/ x = m
      BY <1>1, <2>1
    <3> QED BY <2>1, <3>1
  <2>2. CASE f # e
    BY <1>1, <2>2
  <2> QED BY <2>1, <2>2
<1>4. \A f \in Engine : EngineWaveInv(f)'
  BY <1>3, ChannelsMove
<1>5. Msgs(toCoord[0]) \subseteq Msgs(toCoord'[0])
  <2>1. CASE e = 0
    BY <1>1, <2>1
  <2>2. CASE e # 0
    BY <1>1, <2>2, WaveFacts
  <2> QED BY <2>1, <2>2
<1>6. Ends(eng[0]) =>
         Ends(eng'[0]) \/ [kind |-> "complete", wave |-> Wave - 1] \in Msgs(toCoord'[0])
  BY <1>1
<1>7. client'.wave <= Wave
  BY DEF WavesInv, CoordInv
<1>8. CoordInv'
  BY <1>5, <1>6, <1>7, CoordKept
<1> QED BY <1>2, <1>4, <1>8, WavesFrom

LEMMA AddRequestWaves ==
    ASSUME WavesInv, NEW e \in Engine, AddRequest(e) PROVE WavesInv'
<1> DEFINE m == Head(fromClient[e])
           g == eng[e]
           h == eng'[e]
<1>0. TypeInv /\ Handles(e, "add")
  BY DEF WavesInv, AddRequest
<1>1. /\ Touches(e) /\ g.at = "input" /\ h.at = "input"
      /\ m.wave \in Nat /\ h.steps = g.steps
      /\ \/ SameWave(g, h) /\ toCoord' = toCoord
         \/ /\ h.wave = IF m.wave > g.wave THEN m.wave ELSE g.wave
            /\ h.running = (g.running \/ StartsWave(g))
            /\ IF StartsWave(g)
               THEN ToCoord(e, [kind |-> "start", wave |-> h.wave])
               ELSE toCoord' = toCoord
  BY <1>0, AddRequestEffect
<1>2. /\ fromClient' \in [Engine -> Seq(ClientMsg)]
      /\ \A f \in Engine : Msgs(fromClient'[f]) \subseteq Msgs(fromClient[f])
      /\ m \in Msgs(fromClient[e]) /\ m.kind = "add"
  BY <1>0, HandlesEffect
<1>3. UNCHANGED <<starts, coord, call, client>>
  BY DEF AddRequest
<1> HIDE DEF m
<1>4. g.wave = Wave /\ Wave \in Nat
  BY <1>1, WaveFacts DEF WaveOf, Ends
<1>5. m.wave <= Wave
  BY <1>2 DEF WavesInv, EngineWaveInv, AddInv
<1>6. h.wave = g.wave /\ (g.running => h.running)
  <2>1. h.wave = g.wave
    BY <1>1, <1>4, <1>5 DEF SameWave
  <2>2. g.running => h.running
    BY <1>1, Zenon DEF SameWave
  <2> QED BY <2>1, <2>2
<1>7. /\ WaveOf(h) = WaveOf(g) /\ StepOf(h) = StepOf(g)
      /\ (Runs(g) => Runs(h)) /\ ~Ends(g) /\ (Runs(h) <=> h.running)
  BY <1>1, <1>6 DEF WaveOf, StepOf, Ends, Runs
<1>8. WavesKept
  BY <1>1, <1>7, EngineMoves
<1>9. Ends(eng[0]) => Ends(eng'[0])
  BY <1>1, <1>7, WaveFacts DEF Touches
<1>10. CASE toCoord' = toCoord
  <2>1. /\ starts' \in [Engine -> Seq(StartMsg)]
        /\ call' \in [Engine -> {"none", "sent", "waiting", "done"}]
    BY <1>0, <1>3 DEF TypeInv
  <2> QED BY <1>1, <1>2, <1>3, <1>8, <1>9, <1>10, <2>1, EngineOnly
<1>11. CASE h.running /\ ToCoord(e, [kind |-> "start", wave |-> h.wave])
  <2> DEFINE x == [kind |-> "start", wave |-> h.wave]
  <2>1. x \in CoordMsg /\ x.kind = "start" /\ x.wave = Wave
    BY <1>4, <1>6 DEF CoordMsg
  <2>2. ToCoord(e, x) /\ Runs(eng'[e])
    BY <1>7, <1>11
  <2> HIDE DEF x
  <2> QED BY <1>1, <1>2, <1>3, <1>8, <1>9, <2>1, <2>2, EngineNotifies
<1> QED BY <1>1, <1>10, <1>11

LEMMA EndStepWaves ==
    ASSUME WavesInv, NEW e \in Engine, EndStep(e) PROVE WavesInv'
<1> DEFINE g == eng[e]
           h == eng'[e]
<1>0. TypeInv
  BY DEF WavesInv
<1>1. /\ Touches(e) /\ g.at = "synced" /\ h.at = "loop"
      /\ h.running = Runs(g) /\ h.wave = WaveOf(g) /\ h.steps = StepOf(g)
      /\ \/ e = 0 /\ ~Runs(g) /\ ToCoord(e, [kind |-> "complete", wave |-> g.wave])
         \/ e = 0 /\ Runs(g) /\ ToCoord(e, [kind |-> "start", wave |-> g.wave])
         \/ (e # 0 \/ Runs(g)) /\ toCoord' = toCoord
  BY <1>0, EndStepEffect
<1>2. /\ WaveOf(h) = WaveOf(g) /\ StepOf(h) = StepOf(g) /\ (Runs(h) <=> Runs(g))
  BY <1>1 DEF WaveOf, StepOf, Ends, Runs
<1>3. WavesKept
  BY <1>1, <1>2, EngineMoves
<1>4. /\ UNCHANGED <<fromClient, starts, coord, call, client>>
      /\ fromClient' \in [Engine -> Seq(ClientMsg)]
  BY <1>0 DEF EndStep, TypeInv
<1>5. WaveOf(g) = Wave /\ Wave \in Nat /\ g.wave \in Nat
  BY <1>0, WaveFacts, Fields
<1>6. CASE e = 0 /\ ~Runs(g) /\ ToCoord(e, [kind |-> "complete", wave |-> g.wave])
  <2> DEFINE x == [kind |-> "complete", wave |-> g.wave]
  <2>1. g.wave = Wave - 1 /\ g.wave < Wave
    BY <1>1, <1>5, <1>6 DEF WaveOf, Ends
  <2>2. x \in CoordMsg /\ x.kind = "complete" /\ x.wave < Wave
    BY <1>5, <2>1 DEF CoordMsg
  <2>3. x = [kind |-> "complete", wave |-> Wave - 1]
    BY <2>1
  <2> HIDE DEF x
  <2>4. ToCoord(e, x)
    BY <1>6 DEF x
  <2> QED BY <1>1, <1>3, <1>4, <1>6, <2>2, <2>3, <2>4, EngineNotifies
<1>7. CASE e = 0 /\ Runs(g) /\ ToCoord(e, [kind |-> "start", wave |-> g.wave])
  <2> DEFINE x == [kind |-> "start", wave |-> g.wave]
  <2>1. g.wave = Wave /\ ~Ends(eng[0])
    BY <1>1, <1>5, <1>7 DEF WaveOf, Ends
  <2>2. x \in CoordMsg /\ x.kind = "start" /\ x.wave = Wave
    BY <1>5, <2>1 DEF CoordMsg
  <2> HIDE DEF x
  <2>3. ToCoord(e, x) /\ Runs(eng'[e])
    BY <1>2, <1>7 DEF x
  <2> QED BY <1>1, <1>3, <1>4, <2>1, <2>2, <2>3, EngineNotifies
<1>8. CASE (e # 0 \/ Runs(g)) /\ toCoord' = toCoord
  <2>1. Ends(eng[0]) => Ends(eng'[0])
    BY <1>1, <1>8, WaveFacts DEF Touches, Ends
  <2>2. /\ starts' \in [Engine -> Seq(StartMsg)]
        /\ call' \in [Engine -> {"none", "sent", "waiting", "done"}]
    BY <1>0, <1>4 DEF TypeInv
  <2> QED BY <1>1, <1>3, <1>4, <1>8, <2>1, <2>2, EngineOnly
<1> QED BY <1>1, <1>6, <1>7, <1>8

LEMMA AllReduceWaves == ASSUME WavesInv, AllReduce PROVE WavesInv'
<1>0. TypeInv
  BY DEF WavesInv
<1>1. /\ eng' \in [Engine -> EngineState]
      /\ \A e \in Engine :
            /\ eng[e].at = "step" /\ eng'[e].at = "synced" /\ SameWave(eng[e], eng'[e])
            /\ eng'[e].pending = eng[e].pending
            /\ eng'[e].consensus <=> \A f \in Engine : eng[f].pending
      /\ \A e, f \in Engine : /\ eng'[e].unfinished = eng'[f].unfinished
                              /\ eng'[e].consensus = eng'[f].consensus
  BY <1>0, AllReduceEffect
<1>2. UNCHANGED <<fromClient, starts, toCoord, coord, call, client>>
  BY DEF AllReduce
<1>3. TypeInv'
  BY <1>0, <1>1, <1>2 DEF TypeInv
<1>4. \A e, f \in Engine : eng'[e].steps = eng'[f].steps
  BY <1>1 DEF WavesInv, StepsInv, SameWave
<1>5. \A e, f \in Engine : Runs(eng'[e]) <=> Runs(eng'[f])
  BY <1>1, <1>4 DEF Runs, Syncs
<1>6. \A e \in Engine : Ends(eng'[e]) <=> ~Runs(eng'[e])
  BY <1>1 DEF Ends
<1>7. \A e, f \in Engine : StepOf(eng'[e]) = StepOf(eng'[f])
  BY <1>4, <1>5, <1>6 DEF StepOf
<1>8. ASSUME NEW e \in Engine PROVE eng'[e].wave = Wave /\ Wave \in Nat
  <2>1. WaveOf(eng[e]) = eng[e].wave
    BY <1>1 DEF WaveOf, Ends
  <2> QED BY <1>1, <2>1, WaveFacts DEF SameWave
<1>9. ASSUME NEW e \in Engine PROVE Settled(e)'
  BY <1>1 DEF Settled
<1>10. ASSUME NEW e \in Engine, NEW f \in Engine PROVE StepsInv(e, f)'
  <2>1. eng'[e].at # "step" /\ eng'[f].at # "step"
    BY <1>1
  <2>2. StepsInv(e, f)' <=>
          /\ eng'[e].at = "step" /\ eng'[f].at = "step" => eng'[e].steps = eng'[f].steps
          /\ eng'[e].at = "step" /\ eng'[f].at # "step" => eng'[e].steps = NextStep(StepOf(eng'[f]))
          /\ eng'[e].at # "step" /\ eng'[f].at # "step" => StepOf(eng'[e]) = StepOf(eng'[f])
          /\ eng'[e].at = "synced" /\ eng'[f].at = "synced" =>
                /\ eng'[e].steps = eng'[f].steps
                /\ eng'[e].unfinished = eng'[f].unfinished /\ eng'[e].consensus = eng'[f].consensus
    BY DEF StepsInv, StepOf, Ends, Runs, Syncs, NextStep
  <2> QED BY <1>1, <1>4, <1>7, <2>1, <2>2
<1>11. Wave' = WaveOf(eng'[0]) /\ 0 \in Engine
  BY WaveFacts DEF Wave, WaveOf, Ends, Runs, Syncs
<1>12. CASE Runs(eng'[0])
  <2>1. \A e \in Engine : WaveOf(eng'[e]) = Wave /\ Runs(eng'[e])
    BY <1>5, <1>6, <1>8, <1>11, <1>12 DEF WaveOf
  <2>2. WavesKept
    BY <1>9, <1>10, <1>11, <2>1 DEF WavesKept
  <2>3. \A e \in Engine : EngineWaveInv(e)'
    BY <1>2, <2>2, ChannelsMove
  <2>4. client'.wave <= Wave
    BY <1>2 DEF WavesInv, CoordInv
  <2>5. ~Ends(eng[0])
    BY <1>1, <1>11 DEF Ends
  <2>6. CoordInv'
    BY <1>2, <2>2, <2>4, <2>5, CoordKept
  <2> QED BY <1>3, <2>2, <2>3, <2>6, WavesFrom
<1>13. CASE ~Runs(eng'[0])
  <2>1. \A e \in Engine : WaveOf(eng'[e]) = Wave + 1
    BY <1>5, <1>6, <1>8, <1>11, <1>13 DEF WaveOf
  <2>2. Wave' = Wave + 1 /\ Wave \in Nat
    BY <1>11, <2>1, WaveFacts
  <2>3. ASSUME NEW e \in Engine PROVE EngineWaveInv(e)'
    <3>1. EngineWaveInv(e)
      BY DEF WavesInv
    <3>2. /\ \A m \in Msgs(fromClient[e]) : m.kind = "add" => m \in ClientMsg /\ m.wave \in Nat
          /\ \A m \in Msgs(starts[e]) : m.wave \in Nat
          /\ \A m \in Msgs(toCoord[e]) : m.wave \in Nat
      <4>1. /\ Msgs(fromClient[e]) \subseteq ClientMsg /\ Msgs(starts[e]) \subseteq StartMsg
            /\ Msgs(toCoord[e]) \subseteq CoordMsg
        BY <1>0, MsgsTyped DEF TypeInv
      <4> QED BY <4>1 DEF ClientMsg, StartMsg, CoordMsg
    <3>3. /\ \A m \in Msgs(fromClient[e]) : m.kind = "add" => m.wave <= Wave + 1
          /\ \A m \in Msgs(starts[e]) : m.wave <= Wave + 1
          /\ \A m \in Msgs(toCoord[e]) :
                (m.kind = "complete" => m.wave < Wave + 1) /\ (m.kind = "start" => m.wave < Wave + 1)
      BY <2>2, <3>1, <3>2 DEF EngineWaveInv, AddInv, NoteInv
    <3>4. EngineWaveInv(e)' <=>
            /\ WaveOf(eng'[e]) = Wave'
            /\ \A m \in Msgs(fromClient'[e]) : m.kind = "add" => m.wave <= Wave'
            /\ \A m \in Msgs(starts'[e]) : m.wave <= Wave'
            /\ \A m \in Msgs(toCoord'[e]) :
                  /\ m.kind = "complete" => m.wave < Wave'
                  /\ m.kind = "start" => m.wave < Wave' \/ (m.wave = Wave' /\ Runs(eng'[e]))
      BY DEF EngineWaveInv, AddInv, NoteInv, WaveOf, Ends, Runs, Syncs, Msgs
    <3> QED BY <1>2, <2>1, <2>2, <3>3, <3>4
  <2>4. CoordInv'
    <3>1. client.wave <= Wave /\ coord.wave <= Wave /\ client.wave \in Nat /\ coord.wave \in Nat
      BY <1>0 DEF WavesInv, CoordInv, TypeInv
    <3>2. client.wave <= Wave + 1 /\ coord.wave < Wave + 1
      BY <2>2, <3>1
    <3>3. Ends(eng'[0])
      BY <1>6, <1>11, <1>13
    <3>4. CoordInv' <=>
            /\ client'.wave <= Wave' /\ coord'.wave <= Wave'
            /\ coord'.wave = Wave' \/ Ends(eng'[0]) \/ EndSent'
            /\ coord'.wave = Wave' /\ coord'.running => \E e \in Engine : Runs(eng'[e])
      BY DEF CoordInv, Ends, Runs, Syncs
    <3> QED BY <1>2, <2>2, <3>1, <3>2, <3>3, <3>4
  <2> QED BY <1>3, <1>9, <1>10, <2>3, <2>4 DEF WavesInv
<1> QED BY <1>12, <1>13

LEMMA ResumeBarrierWaves == ASSUME WavesInv, ResumeBarrier PROVE WavesInv'
<1>0. TypeInv
  BY DEF WavesInv
<1>1. /\ eng' \in [Engine -> EngineState]
      /\ \A e \in Engine :
            /\ eng[e].at = "resume" /\ eng'[e].at = "input"
            /\ eng'[e].wave = eng[e].wave /\ eng'[e].steps = eng[e].steps
  BY <1>0, ResumeBarrierEffect
<1>2. /\ UNCHANGED <<fromClient, starts, toCoord, coord, client>>
      /\ call' = [e \in Engine |-> "done"]
  BY DEF ResumeBarrier
<1>3. TypeInv'
  BY <1>0, <1>1, <1>2 DEF TypeInv
<1>4. \A e \in Engine : /\ WaveOf(eng'[e]) = WaveOf(eng[e]) /\ StepOf(eng'[e]) = StepOf(eng[e])
                        /\ ~Ends(eng[e])
  BY <1>1 DEF WaveOf, StepOf, Ends
<1>5. \A e \in Engine : ~Runs(eng[e])
  BY <1>1 DEF WavesInv, Settled, Runs
<1>6. WavesKept
  <2>1. Wave' = WaveOf(eng'[0])
    BY DEF Wave, WaveOf, Ends, Runs, Syncs
  <2>2. Wave' = Wave
    BY <1>4, <2>1, WaveFacts DEF Wave
  <2>3. \A e \in Engine : Settled(e)' /\ WaveOf(eng'[e]) = Wave'
    BY <1>1, <1>4, <2>2, WaveFacts DEF Settled
  <2>4. ASSUME NEW e \in Engine, NEW f \in Engine PROVE StepsInv(e, f)'
    <3>1. StepOf(eng'[e]) = StepOf(eng'[f])
      BY <1>1, <1>4 DEF WavesInv, StepsInv
    <3>2. eng'[e].at = "input" /\ eng'[f].at = "input"
      BY <1>1
    <3> QED BY <3>1, <3>2 DEF StepsInv, StepOf, Ends, Runs, Syncs, NextStep
  <2> QED BY <1>5, <2>2, <2>3, <2>4 DEF WavesKept
<1>7. \A e \in Engine : EngineWaveInv(e)'
  BY <1>2, <1>6, ChannelsMove
<1>8. client'.wave <= Wave
  BY <1>2 DEF WavesInv, CoordInv
<1>9. CoordInv'
  BY <1>2, <1>4, <1>6, <1>8, WaveFacts, CoordKept
<1> QED BY <1>3, <1>6, <1>7, <1>9, WavesFrom

(* A notification that the coordinator handles is the first one of e. *)
LEMMA NoteTaken ==
    ASSUME TypeInv, NEW e \in Engine, toCoord[e] # <<>>,
           toCoord' = [toCoord EXCEPT ![e] = Tail(@)]
    PROVE  /\ Head(toCoord[e]) \in Msgs(toCoord[e]) /\ Head(toCoord[e]) \in CoordMsg
           /\ toCoord' \in [Engine -> Seq(CoordMsg)]
           /\ \A f \in Engine : Msgs(toCoord'[f]) \subseteq Msgs(toCoord[f])
           /\ \A f \in Engine : \A m \in Msgs(toCoord[f]) :
                 m \in Msgs(toCoord'[f]) \/ (f = e /\ m = Head(toCoord[e]))
<1>1. toCoord[e] \in Seq(CoordMsg)
  BY DEF TypeInv
<1>2. /\ Tail(toCoord[e]) \in Seq(CoordMsg) /\ Head(toCoord[e]) \in CoordMsg
      /\ Msgs(toCoord[e]) = {Head(toCoord[e])} \union Msgs(Tail(toCoord[e]))
  BY <1>1, MsgsTail
<1>3. /\ toCoord' \in [Engine -> Seq(CoordMsg)] /\ toCoord'[e] = Tail(toCoord[e])
      /\ \A f \in Engine : f # e => toCoord'[f] = toCoord[f]
  BY <1>2 DEF TypeInv
<1>4. ASSUME NEW f \in Engine
      PROVE  /\ Msgs(toCoord'[f]) \subseteq Msgs(toCoord[f])
             /\ \A m \in Msgs(toCoord[f]) :
                   m \in Msgs(toCoord'[f]) \/ (f = e /\ m = Head(toCoord[e]))
  <2>1. CASE f = e
    BY <1>2, <1>3, <2>1
  <2>2. CASE f # e
    BY <1>3, <2>2
  <2> QED BY <2>1, <2>2
<1> QED BY <1>2, <1>3, <1>4

(* The coordinator does not change the engines. *)
LEMMA CoordUnprimed ==
    ASSUME eng' = eng
    PROVE  CoordInv' <=>
            /\ client'.wave <= Wave /\ coord'.wave <= Wave
            /\ \/ coord'.wave = Wave \/ Ends(eng[0])
               \/ \E m \in Msgs(toCoord'[0]) : m.kind = "complete" /\ m.wave = Wave - 1
            /\ coord'.wave = Wave /\ coord'.running => \E e \in Engine : Runs(eng[e])
<1>1. Wave' = Wave
  BY DEF Wave, WaveOf, Ends, Runs, Syncs
<1>2. EndSent' <=> \E m \in Msgs(toCoord'[0]) : m.kind = "complete" /\ m.wave = Wave' - 1
  BY DEF EndSent, Msgs
<1>3. CoordInv' <=>
        /\ client'.wave <= Wave' /\ coord'.wave <= Wave'
        /\ coord'.wave = Wave' \/ Ends(eng[0]) \/ EndSent'
        /\ coord'.wave = Wave' /\ coord'.running => \E e \in Engine : Runs(eng[e])
  BY DEF CoordInv, Ends, Runs, Syncs
<1> QED BY <1>1, <1>2, <1>3

LEMMA WaveCompleteWaves ==
    ASSUME WavesInv, NEW e \in Engine, WaveComplete(e) PROVE WavesInv'
<1> DEFINE m == Head(toCoord[e])
<1>0. TypeInv /\ Wave \in Nat /\ coord.wave \in Nat
  BY WaveFacts DEF WavesInv, TypeInv
<1>1. /\ m \in Msgs(toCoord[e]) /\ m \in CoordMsg
      /\ toCoord' \in [Engine -> Seq(CoordMsg)]
      /\ \A f \in Engine : Msgs(toCoord'[f]) \subseteq Msgs(toCoord[f])
      /\ \A f \in Engine : \A x \in Msgs(toCoord[f]) :
            x \in Msgs(toCoord'[f]) \/ (f = e /\ x = m)
  BY <1>0, NoteTaken DEF WaveComplete
<1>2. /\ m.kind = "complete" /\ UNCHANGED <<eng, fromClient, starts, call, client>>
      /\ coord' = IF coord.wave <= m.wave THEN [wave |-> m.wave + 1, running |-> FALSE] ELSE coord
  BY DEF WaveComplete
<1> HIDE DEF m
<1>3. m.wave \in Nat /\ m.wave < Wave
  BY <1>1, <1>2 DEF CoordMsg, WavesInv, EngineWaveInv, NoteInv
<1>4. TypeInv'
  BY <1>0, <1>1, <1>2, <1>3 DEF TypeInv
<1>5. WavesKept
  BY <1>2, EngUnchanged
<1>6. \A f \in Engine : EngineWaveInv(f)'
  BY <1>1, <1>2, <1>5, ChannelsMove
<1>7. CoordInv
  BY DEF WavesInv
<1>8. 0 \in Engine
  BY WaveFacts
<1>9. CASE coord.wave <= m.wave
  <2>1. coord'.wave = m.wave + 1 /\ ~coord'.running
    BY <1>2, <1>9
  <2>2. m.wave + 1 <= Wave /\ coord.wave # Wave
    BY <1>0, <1>3, <1>9
  <2>3. ASSUME EndSent, m.wave + 1 # Wave
        PROVE  \E x \in Msgs(toCoord'[0]) : x.kind = "complete" /\ x.wave = Wave - 1
    <3>1. PICK x \in Msgs(toCoord[0]) : x.kind = "complete" /\ x.wave = Wave - 1
      BY <2>3 DEF EndSent
    <3>2. x # m
      BY <1>0, <1>3, <2>3, <3>1
    <3> QED BY <1>1, <1>8, <3>1, <3>2
  <2>4. client'.wave <= Wave /\ (Ends(eng[0]) \/ EndSent)
    BY <1>2, <1>7, <2>2 DEF CoordInv
  <2>5. CoordInv'
    BY <1>2, <2>1, <2>2, <2>3, <2>4, CoordUnprimed
  <2> QED BY <1>4, <1>5, <1>6, <2>5, WavesFrom
<1>10. CASE ~(coord.wave <= m.wave)
  <2>1. coord' = coord
    BY <1>2, <1>10
  <2>2. ASSUME EndSent, coord.wave # Wave
        PROVE  \E x \in Msgs(toCoord'[0]) : x.kind = "complete" /\ x.wave = Wave - 1
    <3>1. PICK x \in Msgs(toCoord[0]) : x.kind = "complete" /\ x.wave = Wave - 1
      BY <2>2 DEF EndSent
    <3>2. coord.wave <= Wave
      BY <1>7 DEF CoordInv
    <3>3. x # m
      BY <1>0, <1>3, <1>10, <2>2, <3>1, <3>2
    <3> QED BY <1>1, <1>8, <3>1, <3>3
  <2>3. CoordInv'
    BY <1>2, <1>7, <2>1, <2>2, CoordUnprimed DEF CoordInv
  <2> QED BY <1>4, <1>5, <1>6, <2>3, WavesFrom
<1> QED BY <1>9, <1>10

LEMMA StartWaveWaves ==
    ASSUME WavesInv, NEW e \in Engine, StartWave(e) PROVE WavesInv'
<1> DEFINE m == Head(toCoord[e])
           x == [wave |-> m.wave, exclude |-> e]
<1>0. TypeInv /\ Wave \in Nat /\ coord.wave \in Nat /\ 0 \in Engine /\ CoordInv
  BY WaveFacts DEF WavesInv, TypeInv
<1>1. /\ m \in Msgs(toCoord[e]) /\ m \in CoordMsg
      /\ toCoord' \in [Engine -> Seq(CoordMsg)]
      /\ \A f \in Engine : Msgs(toCoord'[f]) \subseteq Msgs(toCoord[f])
      /\ \A f \in Engine : \A y \in Msgs(toCoord[f]) :
            y \in Msgs(toCoord'[f]) \/ (f = e /\ y = m)
  BY <1>0, NoteTaken DEF StartWave
<1>2. /\ m.kind = "start" /\ UNCHANGED <<eng, fromClient, call, client>>
      /\ IF NewWave(m.wave)
         THEN /\ coord' = [wave |-> m.wave, running |-> TRUE]
              /\ starts' = [f \in Engine |-> Append(starts[f], x)]
         ELSE UNCHANGED <<coord, starts>>
  BY DEF StartWave
<1> HIDE DEF m
<1>3. m.wave \in Nat /\ (m.wave < Wave \/ (m.wave = Wave /\ Runs(eng[e])))
  BY <1>1, <1>2 DEF CoordMsg, WavesInv, EngineWaveInv, NoteInv
<1>4. x \in StartMsg /\ x.wave <= Wave
  BY <1>0, <1>3 DEF StartMsg
<1> HIDE DEF x
<1>5. WavesKept
  BY <1>2, EngUnchanged
<1>6. ASSUME EndSent PROVE \E y \in Msgs(toCoord'[0]) : y.kind = "complete" /\ y.wave = Wave - 1
  <2>1. PICK y \in Msgs(toCoord[0]) : y.kind = "complete" /\ y.wave = Wave - 1
    BY <1>6 DEF EndSent
  <2> QED BY <1>0, <1>1, <1>2, <2>1
<1>7. CASE NewWave(m.wave)
  <2>1. coord'.wave = m.wave /\ m.wave <= Wave /\ coord' \in [wave : Nat, running : BOOLEAN]
    <3>1. coord' = [wave |-> m.wave, running |-> TRUE]
      BY <1>2, <1>7
    <3>2. m.wave <= Wave
      BY <1>0, <1>3
    <3> QED BY <1>3, <3>1, <3>2
  <2>2. ASSUME NEW f \in Engine
        PROVE  starts'[f] \in Seq(StartMsg) /\ Msgs(starts'[f]) = Msgs(starts[f]) \union {x}
    <3>1. starts[f] \in Seq(StartMsg)
      BY <1>0 DEF TypeInv
    <3>2. starts'[f] = Append(starts[f], x)
      BY <1>2, <1>7
    <3>3. Append(starts[f], x) \in Seq(StartMsg) /\ Msgs(Append(starts[f], x)) = Msgs(starts[f]) \union {x}
      BY <1>4, <3>1, MsgsAppend
    <3> QED BY <3>2, <3>3
  <2>3. starts' \in [Engine -> Seq(StartMsg)]
    <3>1. starts' = [f \in Engine |-> starts'[f]]
      BY <1>2, <1>7
    <3> QED BY <2>2, <3>1
  <2>4. TypeInv'
    BY <1>0, <1>1, <1>2, <2>1, <2>3 DEF TypeInv
  <2>5. \A f \in Engine : EngineWaveInv(f)'
    <3>1. \A f \in Engine : \A y \in Msgs(starts'[f]) : y \in Msgs(starts[f]) \/ y.wave <= Wave
      BY <1>4, <2>2
    <3> QED BY <1>1, <1>2, <1>5, <3>1, ChannelsMove
  <2>6. m.wave = Wave \/ Ends(eng[0]) \/ EndSent
    <3>1. CASE coord.wave = Wave
      BY <1>0, <1>3, <1>7, <3>1 DEF NewWave
    <3>2. CASE coord.wave # Wave
      BY <1>0, <3>2 DEF CoordInv
    <3> QED BY <3>1, <3>2
  <2>7. CoordInv'
    BY <1>0, <1>2, <1>3, <1>6, <2>1, <2>6, CoordUnprimed DEF CoordInv
  <2> QED BY <1>5, <2>4, <2>5, <2>7, WavesFrom
<1>8. CASE ~NewWave(m.wave)
  <2>1. UNCHANGED <<coord, starts>>
    BY <1>2, <1>8
  <2>2. TypeInv'
    BY <1>0, <1>1, <1>2, <2>1 DEF TypeInv
  <2>3. \A f \in Engine : EngineWaveInv(f)'
    BY <1>1, <1>2, <1>5, <2>1, ChannelsMove
  <2>4. CoordInv'
    BY <1>0, <1>2, <1>6, <2>1, CoordUnprimed DEF CoordInv
  <2> QED BY <1>5, <2>2, <2>3, <2>4, WavesFrom
<1> QED BY <1>7, <1>8

(* The client only sends waves that the coordinator has published. *)
LEMMA ClientSends ==
    ASSUME WavesInv, UNCHANGED <<eng, starts, toCoord, coord>>, TypeInv', client'.wave <= Wave,
           \A e \in Engine : \A m \in Msgs(fromClient'[e]) : m \in Msgs(fromClient[e]) \/ AddInv(m)
    PROVE  WavesInv'
<1>1. WavesKept
  BY EngUnchanged
<1>2. \A e \in Engine : EngineWaveInv(e)'
  BY <1>1, ChannelsMove
<1>3. CoordInv'
  BY <1>1, CoordKept
<1> QED BY <1>1, <1>2, <1>3, WavesFrom

LEMMA SendAddEffect ==
    ASSUME WavesInv, NEW e \in Engine, SendAdd(e)
    PROVE  \E m \in ClientMsg :
              /\ m.kind = "add" /\ m.wave \in Nat /\ m.wave <= coord.wave
              /\ fromClient' \in [Engine -> Seq(ClientMsg)]
              /\ fromClient'[e] = Append(fromClient[e], m)
              /\ \A f \in Engine : f # e => fromClient'[f] = fromClient[f]
              /\ client' = [client EXCEPT !.adds = client.adds + 1, !.wave = m.wave]
              /\ UNCHANGED <<eng, starts, toCoord, coord, call>>
<1>0. TypeInv /\ client.wave \in Nat /\ coord.wave \in Nat /\ client.adds \in Nat
  BY DEF WavesInv, TypeInv
<1>1. PICK n \in 1 .. MaxSteps, w \in client.wave .. coord.wave :
        /\ fromClient' = [fromClient EXCEPT ![e] =
                              Append(fromClient[e], [kind |-> "add", wave |-> w, steps |-> n])]
        /\ client' = [client EXCEPT !.adds = client.adds + 1, !.wave = w]
  BY DEF SendAdd
<1> DEFINE m == [kind |-> "add", wave |-> w, steps |-> n]
<1>2. w \in Nat /\ w <= coord.wave
  BY <1>0
<1>3. m \in ClientMsg /\ m.kind = "add" /\ m.wave = w
  BY <1>2 DEF ClientMsg
<1>4. fromClient' = [fromClient EXCEPT ![e] = Append(fromClient[e], m)]
  BY <1>1
<1> HIDE DEF m
<1>5. fromClient[e] \in Seq(ClientMsg)
  BY <1>0 DEF TypeInv
<1>6. Append(fromClient[e], m) \in Seq(ClientMsg)
  BY <1>3, <1>5, MsgsAppend
<1>7. /\ fromClient' \in [Engine -> Seq(ClientMsg)]
      /\ fromClient'[e] = Append(fromClient[e], m)
      /\ \A f \in Engine : f # e => fromClient'[f] = fromClient[f]
  BY <1>0, <1>4, <1>6 DEF TypeInv
<1> WITNESS m \in ClientMsg
<1> QED BY <1>1, <1>2, <1>3, <1>7 DEF SendAdd

LEMMA SendAddWaves ==
    ASSUME WavesInv, NEW e \in Engine, SendAdd(e) PROVE WavesInv'
<1>0. TypeInv /\ Wave \in Nat /\ CoordInv /\ coord.wave \in Nat
  BY WaveFacts DEF WavesInv, TypeInv
<1>1. PICK m \in ClientMsg :
              /\ m.kind = "add" /\ m.wave \in Nat /\ m.wave <= coord.wave
              /\ fromClient' \in [Engine -> Seq(ClientMsg)]
              /\ fromClient'[e] = Append(fromClient[e], m)
              /\ \A f \in Engine : f # e => fromClient'[f] = fromClient[f]
              /\ client' = [client EXCEPT !.adds = client.adds + 1, !.wave = m.wave]
              /\ UNCHANGED <<eng, starts, toCoord, coord, call>>
  BY SendAddEffect
<1>2. TypeInv' /\ client'.wave = m.wave
  <2>1. client \in [state : {"normal", "pausing", "paused", "resuming"},
                     wave : Nat, adds : Nat, calls : Nat]
    BY <1>0 DEF TypeInv
  <2>2. /\ client'.wave = m.wave
        /\ client' \in [state : {"normal", "pausing", "paused", "resuming"},
                        wave : Nat, adds : Nat, calls : Nat]
    <3>1. m.wave \in Nat /\ client' = [client EXCEPT !.adds = client.adds + 1, !.wave = m.wave]
      BY <1>1
    <3>2. client.adds + 1 \in Nat
      BY <2>1
    <3> QED BY <2>1, <3>1, <3>2
  <2> QED BY <1>0, <1>1, <2>2 DEF TypeInv
<1>3. m.wave <= Wave
  BY <1>0, <1>1 DEF CoordInv
<1>4. AddInv(m)
  BY <1>3 DEF AddInv
<1>5. fromClient[e] \in Seq(ClientMsg)
  BY <1>0 DEF TypeInv
<1>6. Msgs(fromClient'[e]) = Msgs(fromClient[e]) \union {m}
  BY <1>1, <1>5, MsgsAppend
<1>7. ASSUME NEW f \in Engine, NEW x \in Msgs(fromClient'[f])
      PROVE  x \in Msgs(fromClient[f]) \/ AddInv(x)
  <2>1. CASE f = e
    <3>1. x \in Msgs(fromClient[e]) \/ x = m
      BY <1>6, <2>1
    <3> QED BY <1>4, <2>1, <3>1
  <2>2. CASE f # e
    BY <1>1, <2>2
  <2> QED BY <2>1, <2>2
<1> QED BY <1>1, <1>2, <1>3, <1>7, ClientSends

(* A call goes to every engine. *)
LEMMA CallAllEffect ==
    ASSUME TypeInv, NEW m \in ClientMsg, NEW st \in {"pausing", "resuming"}, CallAll(m, st)
    PROVE  /\ TypeInv' /\ client'.state = st /\ client'.wave = client.wave
           /\ \A e \in Engine : /\ fromClient'[e] = Append(fromClient[e], m)
                                /\ Msgs(fromClient'[e]) = Msgs(fromClient[e]) \union {m}
                                /\ call'[e] = "sent"
           /\ UNCHANGED <<eng, starts, toCoord, coord>>
<1>1. /\ fromClient' = [e \in Engine |-> Append(fromClient[e], m)]
      /\ call' = [e \in Engine |-> "sent"]
      /\ client' = [client EXCEPT !.state = st, !.calls = client.calls + 1]
      /\ UNCHANGED <<eng, starts, toCoord, coord>>
  BY DEF CallAll
<1>2. ASSUME NEW e \in Engine
      PROVE  /\ Append(fromClient[e], m) \in Seq(ClientMsg)
             /\ Msgs(Append(fromClient[e], m)) = Msgs(fromClient[e]) \union {m}
  <2>1. fromClient[e] \in Seq(ClientMsg)
    BY DEF TypeInv
  <2> QED BY <2>1, MsgsAppend
<1>3. client \in [state : {"normal", "pausing", "paused", "resuming"},
                  wave : Nat, adds : Nat, calls : Nat]
  BY DEF TypeInv
<1>4. client.calls + 1 \in Nat /\ st \in {"normal", "pausing", "paused", "resuming"}
  BY <1>3
<1>5. /\ client' \in [state : {"normal", "pausing", "paused", "resuming"},
                      wave : Nat, adds : Nat, calls : Nat]
      /\ client'.state = st /\ client'.wave = client.wave
  BY <1>1, <1>3, <1>4
<1>6. fromClient' \in [Engine -> Seq(ClientMsg)]
  BY <1>1, <1>2
<1>7. call' \in [Engine -> {"none", "sent", "waiting", "done"}]
  BY <1>1
<1>8. TypeInv'
  BY <1>1, <1>5, <1>6, <1>7 DEF TypeInv
<1> QED BY <1>1, <1>2, <1>5, <1>8

LEMMA CallMsgs ==
    /\ \A mode \in PauseModes : /\ [kind |-> "pause", mode |-> mode] \in ClientMsg
                                /\ [kind |-> "pause", mode |-> mode].kind = "pause"
    /\ [kind |-> "resume"] \in ClientMsg /\ [kind |-> "resume"].kind = "resume"
BY DEF ClientMsg

LEMMA CallAllWaves ==
    ASSUME WavesInv, NEW m \in ClientMsg, m.kind # "add",
           NEW st \in {"pausing", "resuming"}, CallAll(m, st)
    PROVE  WavesInv'
<1>1. /\ TypeInv' /\ client'.wave = client.wave
      /\ \A e \in Engine : Msgs(fromClient'[e]) = Msgs(fromClient[e]) \union {m}
      /\ UNCHANGED <<eng, starts, toCoord, coord>>
  BY CallAllEffect DEF WavesInv
<1>2. AddInv(m)
  BY DEF AddInv
<1>3. client'.wave <= Wave
  BY <1>1 DEF WavesInv, CoordInv
<1> QED BY <1>1, <1>2, <1>3, ClientSends

LEMMA CallReturnsEffect ==
    ASSUME TypeInv, CallReturns
    PROVE  /\ TypeInv' /\ client'.wave = client.wave
           /\ client.state = "pausing" => client'.state = "paused"
           /\ client.state = "resuming" => client'.state = "normal"
           /\ client.state \in {"pausing", "resuming"}
           /\ \A e \in Engine : call[e] = "done" /\ call'[e] = "none"
           /\ UNCHANGED <<eng, fromClient, starts, toCoord, coord>>
<1> DEFINE st == IF client.state = "pausing" THEN "paused" ELSE "normal"
<1>1. /\ client.state \in {"pausing", "resuming"}
      /\ \A e \in Engine : call[e] = "done"
      /\ call' = [e \in Engine |-> "none"]
      /\ client' = [client EXCEPT !.state = st]
      /\ UNCHANGED <<eng, fromClient, starts, toCoord, coord>>
  BY DEF CallReturns
<1>2. client \in [state : {"normal", "pausing", "paused", "resuming"},
                  wave : Nat, adds : Nat, calls : Nat]
  BY DEF TypeInv
<1>3. st \in {"normal", "pausing", "paused", "resuming"}
  OBVIOUS
<1>4. /\ client' \in [state : {"normal", "pausing", "paused", "resuming"},
                      wave : Nat, adds : Nat, calls : Nat]
      /\ client'.state = st /\ client'.wave = client.wave
  <2> HIDE DEF st
  <2> QED BY <1>1, <1>2, <1>3
<1>5. call' \in [Engine -> {"none", "sent", "waiting", "done"}]
  BY <1>1
<1>6. TypeInv'
  BY <1>1, <1>4, <1>5 DEF TypeInv
<1> QED BY <1>1, <1>4, <1>6

LEMMA CallReturnsWaves == ASSUME WavesInv, CallReturns PROVE WavesInv'
<1>1. /\ TypeInv' /\ client'.wave = client.wave
      /\ UNCHANGED <<eng, fromClient, starts, toCoord, coord>>
  BY CallReturnsEffect DEF WavesInv
<1>2. client'.wave <= Wave
  BY <1>1 DEF WavesInv, CoordInv
<1> QED BY <1>1, <1>2, ClientSends

LEMMA NotifyIdleWaves ==
    ASSUME WavesInv, NEW e \in Engine, NotifyIdle(e) PROVE WavesInv'
<1>1. /\ UNCHANGED <<eng, fromClient, starts, toCoord, coord, client>>
      /\ call' = [call EXCEPT ![e] = "done"]
  BY DEF NotifyIdle
<1>2. TypeInv'
  BY <1>1 DEF WavesInv, TypeInv
<1>3. client'.wave <= Wave
  BY <1>1 DEF WavesInv, CoordInv
<1> QED BY <1>1, <1>2, <1>3, ClientSends

LEMMA WavesInit == ASSUME Init PROVE WavesInv
<1>1. NewEngine \in EngineState /\ NewEngine.at = "loop" /\ NewEngine.steps = 0
      /\ NewEngine.wave = 0 /\ ~NewEngine.running
  BY WavesAssumption DEF NewEngine, EngineState, Place, PauseState
<1>2. 0 \in Engine
  BY WavesAssumption DEF Engine
<1>3. TypeInv
  BY <1>1 DEF Init, TypeInv
<1>4. \A e \in Engine : eng[e].at = "loop" /\ eng[e].steps = 0 /\ eng[e].wave = 0
  BY <1>1 DEF Init
<1>5. \A e \in Engine : ~Ends(eng[e]) /\ WaveOf(eng[e]) = 0 /\ StepOf(eng[e]) = 0
  BY <1>4 DEF Ends, WaveOf, StepOf
<1>6. Wave = 0
  BY <1>2, <1>5 DEF Wave
<1>7. \A e, f \in Engine : StepsInv(e, f)
  BY <1>4, <1>5 DEF StepsInv
<1>8. \A e \in Engine : EngineWaveInv(e)
  BY <1>5, <1>6, MsgsEmpty DEF Init, EngineWaveInv
<1>9. CoordInv
  BY <1>6 DEF Init, CoordInv
<1>10. \A e \in Engine : Settled(e)
  BY <1>4 DEF Settled
<1> QED BY <1>3, <1>7, <1>8, <1>9, <1>10 DEF WavesInv

LEMMA WavesNext == ASSUME WavesInv, [Next]_vars PROVE WavesInv'
<1>1. CASE UNCHANGED vars
  <2>1. UNCHANGED <<eng, fromClient, starts, toCoord, coord, call, client>>
    BY <1>1 DEF vars
  <2>2. TypeInv'
    BY <2>1 DEF WavesInv, TypeInv
  <2>3. client'.wave <= Wave
    BY <2>1 DEF WavesInv, CoordInv
  <2> QED BY <2>1, <2>2, <2>3, ClientSends
<1>2. ASSUME NEW e \in Engine, EngineStep(e) PROVE WavesInv'
  BY <1>2, LoopTopWaves, NotifyIdleWaves, AddRequestWaves, PauseWaves, ResumeWaves,
     StartDPWaveWaves, StepWaves, EndStepWaves DEF EngineStep, HandleInput
<1>3. ASSUME NEW e \in Engine, Coordinate(e) PROVE WavesInv'
  BY <1>3, WaveCompleteWaves, StartWaveWaves DEF Coordinate
<1>4. CASE SendPause
  BY <1>4, CallMsgs, CallAllWaves DEF SendPause
<1>5. CASE SendResume
  BY <1>5, CallMsgs, CallAllWaves DEF SendResume
<1> QED BY <1>1, <1>2, <1>3, <1>4, <1>5, SendAddWaves, AllReduceWaves, ResumeBarrierWaves,
           CallReturnsWaves DEF Next

-----------------------------------------------------------------------------
(* Pauses *)

LEMMA ClientPrimed ==
    ClientInv' <=>
        /\ client'.state = "normal" => \A e \in Engine : Free(eng'[e]) /\ call'[e] = "none"
        /\ client'.state = "paused" => \A e \in Engine : Quiet(eng'[e]) /\ call'[e] = "none"
        /\ client'.state = "pausing" =>
              /\ \A e \in Engine : PausingInv(eng'[e], call'[e])
              /\ \A e, f \in Engine :
                    Passed(eng'[e], call'[e]) =>
                        Passed(eng'[f], call'[f]) /\ (Runs(eng'[f]) <=> Runs(eng'[e]))
        /\ client'.state = "resuming" =>
              \/ \A e \in Engine : Free(eng'[e]) /\ call'[e] = "done"
              \/ \A e \in Engine : call'[e] = "sent" /\ (Quiet(eng'[e]) \/ AtBarrier(eng'[e]))
BY DEF ClientInv, PausingInv, Passed, Heard, Free, Quiet, AtBarrier, Pends, Ignores, Runs, Decides,
       Syncs, HasWork, HasUnfinished

LEMMA CallPrimed ==
    ASSUME NEW e \in Engine
    PROVE  CallInv(e)' <=>
              /\ OneCall(fromClient'[e])
              /\ \A m \in Msgs(fromClient'[e]) :
                    /\ m.kind = "pause" => call'[e] = "sent" /\ client'.state = "pausing"
                    /\ m.kind = "resume" =>
                          call'[e] = "sent" /\ client'.state = "resuming" /\ eng'[e].at # "resume"
BY DEF CallInv, OneCall, Msgs

(* What an engine does by itself while a call is under way. *)
Steady(g, h) ==
    /\ g.at # "resume" /\ h.at # "resume" /\ h.pause = g.pause
    /\ (Pends(h) <=> Pends(g)) /\ (h.pending => g.pending)
    /\ (Ignores(g) => Ignores(h)) /\ (Runs(g) => Runs(h))
    /\ Ignores(g) /\ g.pause # "unpaused" => (Runs(h) <=> Runs(g))
    /\ g.pause # "unpaused" /\ HasUnfinished(h) => HasUnfinished(g)
    /\ Quiet(g) => Quiet(h)

LEMMA SteadyPauses ==
    ASSUME ClientInv, NEW e \in Engine, Touches(e), Steady(eng[e], eng'[e]),
           call' = call, client' = client
    PROVE  ClientInv'
<1> DEFINE g == eng[e]
           h == eng'[e]
<1>1. \A f \in Engine : f # e => eng'[f] = eng[f]
  BY DEF Touches
<1>2. Free(g) => Free(h)
  BY DEF Steady, Free
<1>3. ~AtBarrier(g)
  BY DEF Steady, AtBarrier
<1>4. CASE client.state = "pausing"
  <2>1. /\ \A f \in Engine : PausingInv(eng[f], call[f])
        /\ \A f, k \in Engine :
              Passed(eng[f], call[f]) =>
                  Passed(eng[k], call[k]) /\ (Runs(eng[k]) <=> Runs(eng[f]))
    BY <1>4 DEF ClientInv
  <2>2. Passed(h, call[e]) <=> Passed(g, call[e])
    BY DEF Steady, Passed
  <2>3. Passed(g, call[e]) => (Runs(h) <=> Runs(g))
    BY <2>1 DEF PausingInv, Passed, Steady
  <2>4. PausingInv(h, call[e])
    <3>1. PausingInv(g, call[e])
      BY <2>1
    <3>2. Passed(h, call[e]) /\ ~Runs(h) => ~HasUnfinished(h)
      BY <2>2, <2>3, <3>1 DEF PausingInv, Passed, Steady
    <3> QED BY <3>1, <3>2 DEF PausingInv, Steady
  <2>5. \A f \in Engine : PausingInv(eng'[f], call[f])
    BY <1>1, <2>1, <2>4
  <2>6. ASSUME NEW f \in Engine, NEW k \in Engine, Passed(eng'[f], call[f])
        PROVE  Passed(eng'[k], call[k]) /\ (Runs(eng'[k]) <=> Runs(eng'[f]))
    <3>1. Passed(eng[f], call[f])
      BY <1>1, <2>2, <2>6
    <3>2. Passed(eng[k], call[k]) /\ Passed(g, call[e]) /\ (Runs(eng[k]) <=> Runs(eng[f]))
      BY <2>1, <3>1
    <3>3. (Runs(eng'[f]) <=> Runs(eng[f])) /\ (Runs(eng'[k]) <=> Runs(eng[k]))
      BY <1>1, <2>3, <3>2
    <3>4. Passed(eng'[k], call[k])
      BY <1>1, <2>2, <3>2
    <3> QED BY <3>2, <3>3, <3>4
  <2> QED BY <1>4, <2>5, <2>6, ClientPrimed
<1>5. CASE client.state = "normal"
  <2>1. \A f \in Engine : Free(eng'[f]) /\ call'[f] = "none"
    BY <1>1, <1>2, <1>5 DEF ClientInv
  <2> QED BY <1>5, <2>1, ClientPrimed
<1>6. CASE client.state = "paused"
  <2>1. \A f \in Engine : Quiet(eng'[f]) /\ call'[f] = "none"
    BY <1>1, <1>6 DEF ClientInv, Steady
  <2> QED BY <1>6, <2>1, ClientPrimed
<1>7. CASE client.state = "resuming"
  <2>1. CASE \A f \in Engine : Free(eng[f]) /\ call[f] = "done"
    <3>1. \A f \in Engine : Free(eng'[f]) /\ call'[f] = "done"
      BY <1>1, <1>2, <2>1
    <3> QED BY <1>7, <3>1, ClientPrimed
  <2>2. CASE \A f \in Engine : call[f] = "sent" /\ (Quiet(eng[f]) \/ AtBarrier(eng[f]))
    <3>1. Quiet(h)
      BY <1>3, <2>2 DEF Steady
    <3>2. \A f \in Engine : call'[f] = "sent" /\ (Quiet(eng'[f]) \/ AtBarrier(eng'[f]))
      BY <1>1, <2>2, <3>1
    <3> QED BY <1>7, <3>2, ClientPrimed
  <2> QED BY <1>7, <2>1, <2>2 DEF ClientInv
<1>8. CASE client.state \notin {"normal", "paused", "pausing", "resuming"}
  BY <1>8, ClientPrimed
<1> QED BY <1>4, <1>5, <1>6, <1>7, <1>8

LEMMA HandlesCalls ==
    ASSUME TypeInv, NEW e \in Engine, NEW kind, Handles(e, kind), \A f \in Engine : CallInv(f)
    PROVE  /\ \A f \in Engine : OneCall(fromClient'[f])
           /\ kind # "add" => \A m \in Msgs(fromClient'[e]) : m.kind = "add"
           /\ kind = "pause" => call[e] = "sent" /\ client.state = "pausing"
           /\ kind = "resume" => call[e] = "sent" /\ client.state = "resuming"
<1>1. /\ fromClient[e] \in Seq(ClientMsg) /\ fromClient[e] # <<>>
      /\ Head(fromClient[e]).kind = kind /\ Head(fromClient[e]) \in Msgs(fromClient[e])
      /\ \A f \in Engine : f # e => fromClient'[f] = fromClient[f]
      /\ fromClient'[e] = Tail(fromClient[e])
  BY HandlesEffect
<1>2. \A f \in Engine : OneCall(fromClient[f])
  BY DEF CallInv
<1>3. /\ OneCall(Tail(fromClient[e]))
      /\ kind # "add" => \A m \in Msgs(Tail(fromClient[e])) : m.kind = "add"
  BY <1>1, <1>2, MsgsTail
<1>4. \A f \in Engine : OneCall(fromClient'[f])
  BY <1>1, <1>2, <1>3
<1>5. /\ kind = "pause" => call[e] = "sent" /\ client.state = "pausing"
      /\ kind = "resume" => call[e] = "sent" /\ client.state = "resuming"
  BY <1>1 DEF CallInv
<1> QED BY <1>1, <1>3, <1>4, <1>5

(* Messages that are left keep their meaning. *)
LEMMA CallsKept ==
    ASSUME \A f \in Engine : CallInv(f), call' = call, client' = client,
           \A f \in Engine : /\ OneCall(fromClient'[f])
                             /\ Msgs(fromClient'[f]) \subseteq Msgs(fromClient[f])
                             /\ eng'[f].at = "resume" => eng[f].at = "resume"
    PROVE  \A f \in Engine : CallInv(f)'
<1> SUFFICES ASSUME NEW f \in Engine PROVE CallInv(f)'
  OBVIOUS
<1>1. \A m \in Msgs(fromClient'[f]) :
         /\ m.kind = "pause" => call'[f] = "sent" /\ client'.state = "pausing"
         /\ m.kind = "resume" =>
               call'[f] = "sent" /\ client'.state = "resuming" /\ eng'[f].at # "resume"
  BY DEF CallInv
<1> QED BY <1>1, CallPrimed

LEMMA SteadyCalls ==
    ASSUME \A f \in Engine : CallInv(f), NEW e \in Engine, Touches(e), eng'[e].at # "resume",
           UNCHANGED <<fromClient, call, client>>
    PROVE  \A f \in Engine : CallInv(f)'
<1>1. \A f \in Engine : eng'[f].at = "resume" => eng[f].at = "resume"
  BY DEF Touches
<1>2. \A f \in Engine : OneCall(fromClient'[f]) /\ Msgs(fromClient'[f]) \subseteq Msgs(fromClient[f])
  BY DEF CallInv
<1> QED BY <1>1, <1>2, CallsKept

LEMMA LoopTopPauses ==
    ASSUME TypeInv, ClientsInv, NEW e \in Engine, LoopTop(e) PROVE ClientsInv'
<1> DEFINE g == eng[e]
           h == eng'[e]
<1>1. /\ Touches(e) /\ g.at = "loop" /\ h.at = "input" /\ SameWave(g, h) /\ SamePause(g, h)
      /\ h.finished = g.finished /\ h.wait = g.wait
  BY LoopTopEffect
<1>2. Steady(g, h)
  BY <1>1 DEF Steady, SameWave, SamePause, Pends, Ignores, Runs, Decides, Quiet, HasUnfinished
<1>3. UNCHANGED <<fromClient, call, client>>
  BY DEF LoopTop
<1>4. ClientInv'
  BY <1>1, <1>2, <1>3, SteadyPauses DEF ClientsInv
<1>5. \A f \in Engine : CallInv(f)'
  BY <1>1, <1>3, SteadyCalls DEF ClientsInv
<1> QED BY <1>4, <1>5 DEF ClientsInv

LEMMA AddRequestPauses ==
    ASSUME TypeInv, ClientsInv, NEW e \in Engine, AddRequest(e) PROVE ClientsInv'
<1> DEFINE g == eng[e]
           h == eng'[e]
<1>1. /\ Touches(e) /\ g.at = "input" /\ h.at = "input" /\ SamePause(g, h)
      /\ h.finished = g.finished
      /\ SameWave(g, h) \/ h.running = (g.running \/ StartsWave(g))
  BY AddRequestEffect
<1>2. Handles(e, "add") /\ call' = call /\ client' = client
  BY DEF AddRequest
<1>3. /\ g.running => h.running
      /\ g.pause # "unpaused" => (h.running <=> g.running)
  BY <1>1, Zenon DEF SameWave, StartsWave
<1>4. g.pause # "unpaused" /\ HasUnfinished(h) => HasUnfinished(g)
  BY <1>1, Fields DEF HasUnfinished, SamePause, PauseState
<1>5. Quiet(g) => Quiet(h)
  BY <1>1, <1>3, <1>4 DEF Quiet, HasWork, SamePause
<1>6. Steady(g, h)
  BY <1>1, <1>3, <1>4, <1>5 DEF Steady, SamePause, Pends, Ignores, Runs, Decides
<1>7. ClientInv'
  BY <1>1, <1>2, <1>6, SteadyPauses DEF ClientsInv
<1>8. \A f \in Engine : /\ OneCall(fromClient'[f])
                        /\ Msgs(fromClient'[f]) \subseteq Msgs(fromClient[f])
                        /\ eng'[f].at = "resume" => eng[f].at = "resume"
  <2>1. \A f \in Engine : OneCall(fromClient'[f])
    BY <1>2, HandlesCalls DEF ClientsInv
  <2>2. \A f \in Engine : Msgs(fromClient'[f]) \subseteq Msgs(fromClient[f])
    BY <1>2, HandlesEffect
  <2>3. \A f \in Engine : eng'[f].at = "resume" => eng[f].at = "resume"
    BY <1>1 DEF Touches
  <2> QED BY <2>1, <2>2, <2>3
<1>9. \A f \in Engine : CallInv(f)'
  BY <1>2, <1>8, CallsKept DEF ClientsInv
<1> QED BY <1>7, <1>9 DEF ClientsInv

LEMMA StartDPWavePauses ==
    ASSUME TypeInv, ClientsInv, NEW e \in Engine, StartDPWave(e) PROVE ClientsInv'
<1> DEFINE g == eng[e]
           h == eng'[e]
<1>1. /\ Touches(e) /\ g.at = "input" /\ h.at = "input" /\ SamePause(g, h)
      /\ h.finished = g.finished /\ h.wait = g.wait
      /\ SameWave(g, h) \/ (~g.ignore /\ h.running)
  BY StartDPWaveEffect
<1>2. (g.running => h.running) /\ (g.ignore => h.running = g.running)
  BY <1>1 DEF SameWave
<1>3. HasUnfinished(h) <=> HasUnfinished(g)
  BY <1>1 DEF HasUnfinished, SamePause
<1>4. Steady(g, h)
  BY <1>1, <1>2, <1>3
  DEF Steady, SamePause, Pends, Ignores, Runs, Decides, Quiet, HasWork
<1>5. UNCHANGED <<fromClient, call, client>>
  BY DEF StartDPWave
<1>6. ClientInv'
  BY <1>1, <1>4, <1>5, SteadyPauses DEF ClientsInv
<1>7. \A f \in Engine : CallInv(f)'
  BY <1>1, <1>5, SteadyCalls DEF ClientsInv
<1> QED BY <1>6, <1>7 DEF ClientsInv

LEMMA StepPauses ==
    ASSUME TypeInv, ClientsInv, NEW e \in Engine, Step(e) PROVE ClientsInv'
<1> DEFINE g == eng[e]
           h == eng'[e]
<1>1. /\ Touches(e) /\ g.at = "input" /\ h.at \in {"loop", "step"} /\ SamePause(g, h)
      /\ h.running = g.running /\ HasWork(g)
  BY StepEffect
<1>2. g.pause # "unpaused" /\ HasUnfinished(h) => HasUnfinished(g)
  BY <1>1, Fields DEF HasUnfinished, SamePause, PauseState
<1>3. Steady(g, h)
  BY <1>1, <1>2 DEF Steady, SamePause, Pends, Ignores, Runs, Decides, Quiet
<1>4. UNCHANGED <<fromClient, call, client>>
  BY DEF Step
<1>5. ClientInv'
  BY <1>1, <1>3, <1>4, SteadyPauses DEF ClientsInv
<1>6. \A f \in Engine : CallInv(f)'
  BY <1>1, <1>4, SteadyCalls DEF ClientsInv
<1> QED BY <1>5, <1>6 DEF ClientsInv

LEMMA EndStepPauses ==
    ASSUME TypeInv, ClientsInv, NEW e \in Engine, EndStep(e) PROVE ClientsInv'
<1> DEFINE g == eng[e]
           h == eng'[e]
<1>1. /\ Touches(e) /\ g.at = "synced" /\ h.at = "loop"
      /\ h.running = Runs(g) /\ h.pending = Pends(g) /\ h.ignore = Ignores(g)
      /\ h.pause = g.pause /\ h.run = g.run /\ h.wait = g.wait
  BY EndStepEffect
<1>2. HasUnfinished(h) <=> HasUnfinished(g)
  BY <1>1 DEF HasUnfinished
<1>3. (Runs(h) <=> Runs(g)) /\ (Pends(h) <=> Pends(g)) /\ (Ignores(h) <=> Ignores(g)) /\ ~Quiet(g)
  BY <1>1 DEF Pends, Ignores, Runs, Decides, Quiet
<1>4. h.pending => g.pending
  BY <1>1 DEF Pends
<1>5. Steady(g, h)
  BY <1>1, <1>2, <1>3, <1>4 DEF Steady
<1>6. UNCHANGED <<fromClient, call, client>>
  BY DEF EndStep
<1>7. ClientInv'
  BY <1>1, <1>5, <1>6, SteadyPauses DEF ClientsInv
<1>8. \A f \in Engine : CallInv(f)'
  BY <1>1, <1>6, SteadyCalls DEF ClientsInv
<1> QED BY <1>7, <1>8 DEF ClientsInv

LEMMA PausePauses ==
    ASSUME TypeInv, ClientsInv, NEW e \in Engine, Pause(e) PROVE ClientsInv'
<1> DEFINE g == eng[e]
           h == eng'[e]
<1>1. /\ Touches(e) /\ g.at = "input" /\ h.at = "input" /\ h.running /\ h.pending
      /\ h.pause # "unpaused"
  BY PauseEffect
<1>2. /\ Handles(e, "pause") /\ client' = client /\ call' = [call EXCEPT ![e] = "waiting"]
  BY DEF Pause
<1>3. /\ call'[e] = "waiting" /\ \A f \in Engine : f # e => call'[f] = call[f] /\ eng'[f] = eng[f]
  BY <1>1, <1>2 DEF TypeInv, Touches
<1>4. /\ \A f \in Engine : OneCall(fromClient'[f])
      /\ \A m \in Msgs(fromClient'[e]) : m.kind = "add"
      /\ call[e] = "sent" /\ client.state = "pausing"
  BY <1>2, HandlesCalls DEF ClientsInv
<1>5. \A f \in Engine : f # e => fromClient'[f] = fromClient[f]
  BY <1>2, HandlesEffect
<1>6. /\ \A f \in Engine : PausingInv(eng[f], call[f])
      /\ \A f, k \in Engine : Passed(eng[f], call[f]) => Passed(eng[k], call[k])
  BY <1>4 DEF ClientsInv, ClientInv
<1>7. \A f \in Engine : ~Passed(eng[f], call[f])
  BY <1>4, <1>6 DEF Passed, Heard
<1>8. Pends(h) /\ Runs(h) /\ ~Passed(h, "waiting")
  BY <1>1 DEF Pends, Runs, Decides, Passed
<1>9. PausingInv(h, "waiting")
  BY <1>1, <1>8 DEF PausingInv
<1>10. \A f \in Engine : PausingInv(eng'[f], call'[f]) /\ ~Passed(eng'[f], call'[f])
  BY <1>3, <1>6, <1>7, <1>8, <1>9
<1>11. ClientInv'
  BY <1>2, <1>4, <1>10, ClientPrimed
<1>12. ASSUME NEW f \in Engine PROVE CallInv(f)'
  <2>1. CASE f = e
    BY <1>4, <2>1, CallPrimed
  <2>2. CASE f # e
    <3>1. CallInv(f)
      BY DEF ClientsInv
    <3> QED BY <1>2, <1>3, <1>5, <2>2, <3>1, CallPrimed DEF CallInv
  <2> QED BY <2>1, <2>2
<1> QED BY <1>11, <1>12 DEF ClientsInv

LEMMA ResumePauses ==
    ASSUME TypeInv, ClientsInv, NEW e \in Engine, Resume(e) PROVE ClientsInv'
<1> DEFINE g == eng[e]
           h == eng'[e]
<1>1. Handles(e, "resume") /\ client' = client
  BY DEF Resume
<1>2. /\ \A f \in Engine : OneCall(fromClient'[f])
      /\ \A m \in Msgs(fromClient'[e]) : m.kind = "add"
      /\ call[e] = "sent" /\ client.state = "resuming"
  BY <1>1, HandlesCalls DEF ClientsInv
<1>3. /\ \A f \in Engine : f # e => fromClient'[f] = fromClient[f]
      /\ g.at = "input"
  BY <1>1, HandlesEffect
<1>4. \A f \in Engine : call[f] = "sent" /\ (Quiet(eng[f]) \/ AtBarrier(eng[f]))
  BY <1>2 DEF ClientsInv, ClientInv
<1>5. ~g.pending /\ ~g.running
  BY <1>3, <1>4 DEF Quiet, AtBarrier, HasWork
<1>6. /\ Touches(e) /\ call' = call /\ h.at = "resume" /\ SameWave(g, h) /\ ~h.pending
  BY <1>5, ResumeEffect
<1>7. AtBarrier(h)
  BY <1>5, <1>6 DEF AtBarrier, SameWave
<1>8. \A f \in Engine : f # e => eng'[f] = eng[f]
  BY <1>6 DEF Touches
<1>9. \A f \in Engine : call'[f] = "sent" /\ (Quiet(eng'[f]) \/ AtBarrier(eng'[f]))
  BY <1>4, <1>6, <1>7, <1>8
<1>10. ClientInv'
  BY <1>1, <1>2, <1>9, ClientPrimed
<1>11. ASSUME NEW f \in Engine PROVE CallInv(f)'
  <2>1. CASE f = e
    BY <1>2, <2>1, CallPrimed
  <2>2. CASE f # e
    <3>1. CallInv(f)
      BY DEF ClientsInv
    <3> QED BY <1>1, <1>3, <1>6, <1>8, <2>2, <3>1, CallPrimed DEF CallInv
  <2> QED BY <2>1, <2>2
<1> QED BY <1>10, <1>11 DEF ClientsInv

LEMMA NotifyIdlePauses ==
    ASSUME TypeInv, ClientsInv, NEW e \in Engine, NotifyIdle(e) PROVE ClientsInv'
<1> DEFINE g == eng[e]
<1>1. /\ g.at = "input" /\ ~HasWork(g) /\ call[e] = "waiting"
      /\ call' = [call EXCEPT ![e] = "done"] /\ UNCHANGED <<eng, fromClient, client>>
  BY DEF NotifyIdle
<1>2. call'[e] = "done" /\ \A f \in Engine : f # e => call'[f] = call[f]
  BY <1>1 DEF TypeInv
<1>3. client.state = "pausing"
  <2>1. client.state \in {"normal", "pausing", "paused", "resuming"}
    BY DEF TypeInv
  <2> QED BY <1>1, <2>1 DEF ClientsInv, ClientInv
<1>4. /\ \A f \in Engine : PausingInv(eng[f], call[f])
      /\ \A f, k \in Engine :
            Passed(eng[f], call[f]) =>
                Passed(eng[k], call[k]) /\ (Runs(eng[k]) <=> Runs(eng[f]))
  BY <1>3 DEF ClientsInv, ClientInv
<1>5. ~Runs(g) /\ ~HasUnfinished(g)
  BY <1>1 DEF Runs, HasWork
<1>6. PausingInv(g, "waiting")
  BY <1>1, <1>4
<1>7. ~Pends(g) /\ Ignores(g) /\ g.pause # "unpaused"
  BY <1>5, <1>6 DEF PausingInv, Heard
<1>8. Quiet(g)
  BY <1>1, <1>7 DEF Quiet, Pends, Ignores, Decides
<1>9. PausingInv(g, "done")
  BY <1>5, <1>6, <1>7, <1>8 DEF PausingInv, Heard
<1>10. Passed(g, "done") <=> Passed(g, call[e])
  BY <1>1 DEF Passed, Heard
<1>11. \A f \in Engine : Passed(eng'[f], call'[f]) <=> Passed(eng[f], call[f])
  BY <1>1, <1>2, <1>10
<1>12. \A f \in Engine : PausingInv(eng'[f], call'[f])
  BY <1>1, <1>2, <1>4, <1>9
<1>13. ASSUME NEW f \in Engine, NEW k \in Engine, Passed(eng'[f], call'[f])
       PROVE  Passed(eng'[k], call'[k]) /\ (Runs(eng'[k]) <=> Runs(eng'[f]))
  <2>1. Passed(eng[k], call[k]) /\ (Runs(eng[k]) <=> Runs(eng[f]))
    BY <1>4, <1>11, <1>13
  <2> QED BY <1>1, <1>11, <2>1
<1>14. ClientInv'
  BY <1>1, <1>3, <1>12, <1>13, ClientPrimed
<1>15. ASSUME NEW f \in Engine PROVE CallInv(f)'
  <2>1. CallInv(f)
    BY DEF ClientsInv
  <2> QED BY <1>1, <1>2, <2>1, CallPrimed DEF CallInv
<1> QED BY <1>14, <1>15 DEF ClientsInv

LEMMA AllReducePauses == ASSUME WavesInv, ClientsInv, AllReduce PROVE ClientsInv'
<1>0. TypeInv /\ 0 \in Engine
  BY WaveFacts DEF WavesInv
<1>1. /\ eng' \in [Engine -> EngineState]
      /\ \A e \in Engine :
            /\ eng[e].at = "step" /\ eng'[e].at = "synced" /\ SameWave(eng[e], eng'[e])
            /\ eng'[e].pending = eng[e].pending /\ eng'[e].ignore = eng[e].ignore
            /\ eng'[e].pause = eng[e].pause
            /\ eng'[e].consensus <=> \A f \in Engine : eng[f].pending
            /\ ~eng'[e].unfinished => ~HasUnfinished(eng'[e])
      /\ \A e, f \in Engine :
            /\ eng'[e].unfinished = eng'[f].unfinished /\ eng'[e].consensus = eng'[f].consensus
            /\ ~eng'[e].unfinished => eng[e].pending = eng[f].pending
  BY <1>0, AllReduceEffect
<1>2. UNCHANGED <<fromClient, call, client>>
  BY DEF AllReduce
<1>3. \A e, f \in Engine : eng'[e].steps = eng'[f].steps
  BY <1>1 DEF WavesInv, StepsInv, SameWave
<1>4. /\ \A e, f \in Engine : Decides(eng'[e]) <=> Decides(eng'[f])
      /\ \A e, f \in Engine : Runs(eng'[e]) <=> Runs(eng'[f])
  BY <1>1, <1>3 DEF Runs, Syncs, Decides
<1>5. \A e \in Engine :
        /\ Pends(eng'[e]) <=> eng[e].pending /\ ~(Decides(eng'[e]) /\ eng'[e].consensus)
        /\ Ignores(eng'[e]) <=> eng[e].ignore \/ (Decides(eng'[e]) /\ eng'[e].consensus)
        /\ ~Runs(eng'[e]) => Decides(eng'[e]) /\ ~eng'[e].unfinished
        /\ (Pends(eng[e]) <=> eng[e].pending) /\ (Ignores(eng[e]) <=> eng[e].ignore)
  BY <1>1 DEF Pends, Ignores, Runs, Decides
<1>6. ASSUME client.state = "pausing" PROVE ClientInv'
  <2>1. /\ \A e \in Engine : PausingInv(eng[e], call[e])
        /\ \A e, f \in Engine : Passed(eng[e], call[e]) => Passed(eng[f], call[f])
    BY <1>6 DEF ClientsInv, ClientInv
  <2>2. ASSUME NEW e \in Engine PROVE PausingInv(eng'[e], call[e])
    <3>1. PausingInv(eng[e], call[e]) /\ call[e] # "done"
      BY <1>1, <2>1 DEF PausingInv, Quiet
    <3>2. Pends(eng'[e]) => call[e] = "waiting" /\ Runs(eng'[e])
      <4>1. eng[e].pending /\ ~eng'[e].unfinished => eng'[e].consensus
        BY <1>1
      <4> QED BY <1>5, <3>1, <4>1 DEF PausingInv
    <3>3. Heard(call[e]) => Pends(eng'[e]) \/ Ignores(eng'[e])
      BY <1>5, <3>1 DEF PausingInv
    <3>4. ~Runs(eng'[e]) => ~HasUnfinished(eng'[e])
      BY <1>1, <1>5
    <3> QED BY <1>1, <3>1, <3>2, <3>3, <3>4 DEF PausingInv
  <2>3. ASSUME NEW e \in Engine, NEW f \in Engine, Passed(eng'[e], call[e])
        PROVE  Passed(eng'[f], call[f]) /\ (Runs(eng'[f]) <=> Runs(eng'[e]))
    <3>1. CASE ~eng[e].pending
      <4>1. Passed(eng[f], call[f])
        BY <1>5, <2>1, <2>3, <3>1 DEF Passed
      <4> QED BY <1>4, <1>5, <4>1 DEF Passed
    <3>2. CASE eng[e].pending
      <4>1. Decides(eng'[e]) /\ eng'[e].consensus
        BY <1>5, <2>3, <3>2 DEF Passed
      <4>2. eng[f].pending /\ Decides(eng'[f]) /\ eng'[f].consensus
        BY <1>1, <1>4, <4>1
      <4>3. call[f] = "waiting"
        BY <1>5, <2>1, <4>2 DEF PausingInv
      <4> QED BY <1>4, <1>5, <4>2, <4>3 DEF Passed, Heard
    <3> QED BY <3>1, <3>2
  <2> QED BY <1>2, <1>6, <2>2, <2>3, ClientPrimed
<1>7. \A e \in Engine : Free(eng[e]) => Free(eng'[e])
  BY <1>1 DEF Free
<1>8. ~Quiet(eng[0]) /\ ~AtBarrier(eng[0])
  BY <1>0, <1>1 DEF Quiet, AtBarrier
<1>9. ASSUME client.state # "pausing" PROVE ClientInv'
  BY <1>0, <1>2, <1>7, <1>8, <1>9, ClientPrimed DEF ClientsInv, ClientInv
<1>10. \A f \in Engine : CallInv(f)'
  <2>1. \A f \in Engine : /\ OneCall(fromClient'[f])
                          /\ Msgs(fromClient'[f]) \subseteq Msgs(fromClient[f])
                          /\ eng'[f].at = "resume" => eng[f].at = "resume"
    BY <1>1, <1>2 DEF ClientsInv, CallInv
  <2> QED BY <1>2, <2>1, CallsKept DEF ClientsInv
<1> QED BY <1>6, <1>9, <1>10 DEF ClientsInv

LEMMA ResumeBarrierPauses == ASSUME WavesInv, ClientsInv, ResumeBarrier PROVE ClientsInv'
<1>0. TypeInv /\ 0 \in Engine /\ client.state \in {"normal", "pausing", "paused", "resuming"}
  BY WaveFacts DEF WavesInv, TypeInv
<1>1. \A e \in Engine :
        /\ eng[e].at = "resume" /\ eng'[e].at = "input"
        /\ eng'[e].pending = eng[e].pending /\ call'[e] = "done"
  BY <1>0, ResumeBarrierEffect
<1>2. fromClient' = fromClient /\ client' = client
  BY DEF ResumeBarrier
<1>3. ~Free(eng[0]) /\ ~Quiet(eng[0]) /\ ~PausingInv(eng[0], call[0])
  BY <1>0, <1>1 DEF Free, Quiet, PausingInv
<1>4. /\ client.state = "resuming"
      /\ \A e \in Engine : Quiet(eng[e]) \/ AtBarrier(eng[e])
  BY <1>0, <1>3 DEF ClientsInv, ClientInv
<1>5. \A e \in Engine : Free(eng'[e]) /\ call'[e] = "done"
  BY <1>1, <1>4 DEF Free, Quiet, AtBarrier
<1>6. ClientInv'
  BY <1>2, <1>4, <1>5, ClientPrimed
<1>7. ASSUME NEW f \in Engine PROVE CallInv(f)'
  <2>1. CallInv(f)
    BY DEF ClientsInv
  <2>2. \A m \in Msgs(fromClient[f]) : m.kind # "pause" /\ m.kind # "resume"
    BY <1>1, <1>4, <2>1 DEF CallInv
  <2> QED BY <1>2, <2>1, <2>2, CallPrimed DEF CallInv
<1> QED BY <1>6, <1>7 DEF ClientsInv

LEMMA ClientQuiet ==
    ASSUME ClientInv, UNCHANGED <<eng, call>>, client'.state = client.state
    PROVE  ClientInv'
BY ClientPrimed DEF ClientInv

LEMMA CoordinatePauses ==
    ASSUME ClientsInv, UNCHANGED <<eng, fromClient, call, client>> PROVE ClientsInv'
<1>1. ClientInv'
  BY ClientQuiet DEF ClientsInv
<1>2. \A f \in Engine : CallInv(f)'
  BY CallsKept DEF ClientsInv, CallInv
<1> QED BY <1>1, <1>2 DEF ClientsInv

LEMMA SendAddPauses ==
    ASSUME WavesInv, ClientsInv, NEW e \in Engine, SendAdd(e) PROVE ClientsInv'
<1>1. PICK m \in ClientMsg :
        /\ m.kind = "add" /\ fromClient'[e] = Append(fromClient[e], m)
        /\ \A f \in Engine : f # e => fromClient'[f] = fromClient[f]
        /\ client' = [client EXCEPT !.adds = client.adds + 1, !.wave = m.wave]
        /\ UNCHANGED <<eng, call>>
  BY SendAddEffect
<1>2. client'.state = client.state /\ fromClient[e] \in Seq(ClientMsg)
  BY <1>1 DEF WavesInv, TypeInv
<1>3. ClientInv'
  BY <1>1, <1>2, ClientQuiet DEF ClientsInv
<1>4. /\ Msgs(fromClient'[e]) = Msgs(fromClient[e]) \union {m}
      /\ OneCall(fromClient[e]) => OneCall(fromClient'[e])
  BY <1>1, <1>2, MsgsAppend
<1>5. ASSUME NEW f \in Engine PROVE CallInv(f)'
  <2>1. CallInv(f)
    BY DEF ClientsInv
  <2>2. CASE f = e
    BY <1>1, <1>2, <1>4, <2>1, <2>2, CallPrimed DEF CallInv
  <2>3. CASE f # e
    BY <1>1, <1>2, <2>1, <2>3, CallPrimed DEF CallInv
  <2> QED BY <2>2, <2>3
<1> QED BY <1>3, <1>5 DEF ClientsInv

(* A call finds no message of the one before it. *)
LEMMA CallAllCalls ==
    ASSUME TypeInv, ClientsInv, NEW m \in ClientMsg, NEW st \in {"pausing", "resuming"},
           CallAll(m, st), client.state \in {"normal", "paused"},
           m.kind = "pause" => st = "pausing",
           m.kind = "resume" => st = "resuming" /\ \A e \in Engine : eng[e].at # "resume"
    PROVE  \A e \in Engine : CallInv(e)'
<1> SUFFICES ASSUME NEW e \in Engine PROVE CallInv(e)'
  OBVIOUS
<1>1. /\ client'.state = st /\ call'[e] = "sent" /\ eng' = eng
      /\ fromClient'[e] = Append(fromClient[e], m)
      /\ Msgs(fromClient'[e]) = Msgs(fromClient[e]) \union {m}
  BY CallAllEffect
<1>2. call[e] = "none" /\ CallInv(e)
  BY DEF ClientsInv, ClientInv
<1>3. fromClient[e] \in Seq(ClientMsg)
  BY DEF TypeInv
<1>4. \A x \in Msgs(fromClient[e]) : x.kind = "add"
  <2>1. \A x \in Msgs(fromClient[e]) : x.kind \in {"add", "pause", "resume"}
    BY <1>3, MsgsTyped DEF ClientMsg
  <2> QED BY <1>2, <2>1 DEF CallInv
<1>5. OneCall(fromClient'[e])
  BY <1>1, <1>3, <1>4, MsgsAppend
<1> QED BY <1>1, <1>4, <1>5, CallPrimed

LEMMA SendPausePauses == ASSUME TypeInv, ClientsInv, SendPause PROVE ClientsInv'
<1>1. PICK mode \in PauseModes : CallAll([kind |-> "pause", mode |-> mode], "pausing")
  BY DEF SendPause
<1> DEFINE m == [kind |-> "pause", mode |-> mode]
<1>2. m \in ClientMsg /\ m.kind = "pause"
  BY CallMsgs
<1>3. client.state \in {"normal", "paused"}
  BY DEF SendPause
<1> HIDE DEF m
<1>4. CallAll(m, "pausing")
  BY <1>1 DEF m
<1>5. client'.state = "pausing" /\ eng' = eng /\ \A e \in Engine : call'[e] = "sent"
  BY <1>2, <1>4, CallAllEffect
<1>6. \A e \in Engine : ~eng[e].pending /\ eng[e].at # "resume"
  BY <1>3 DEF ClientsInv, ClientInv, Free, Quiet
<1>7. \A e \in Engine : ~Passed(eng'[e], call'[e])
  BY <1>5 DEF Passed, Heard
<1>8. ASSUME NEW e \in Engine PROVE PausingInv(eng'[e], call'[e])
  BY <1>5, <1>6, <1>7 DEF PausingInv, Pends, Heard
<1>9. ClientInv'
  BY <1>5, <1>7, <1>8, ClientPrimed
<1>10. \A e \in Engine : CallInv(e)'
  BY <1>2, <1>3, <1>4, CallAllCalls
<1> QED BY <1>9, <1>10 DEF ClientsInv

LEMMA SendResumePauses ==
    ASSUME TypeInv, ClientsInv, SendResume, ~RedundantResume PROVE ClientsInv'
<1>1. client.state = "paused" /\ CallAll([kind |-> "resume"], "resuming")
  BY DEF SendResume
<1> DEFINE m == [kind |-> "resume"]
<1>2. m \in ClientMsg /\ m.kind = "resume"
  BY CallMsgs
<1> HIDE DEF m
<1>3. CallAll(m, "resuming")
  BY <1>1 DEF m
<1>4. client'.state = "resuming" /\ eng' = eng /\ \A e \in Engine : call'[e] = "sent"
  BY <1>2, <1>3, CallAllEffect
<1>5. \A e \in Engine : Quiet(eng[e])
  BY <1>1 DEF ClientsInv, ClientInv
<1>6. ClientInv'
  BY <1>4, <1>5, ClientPrimed
<1>7. \A e \in Engine : eng[e].at # "resume"
  BY <1>5 DEF Quiet
<1>8. \A e \in Engine : CallInv(e)'
  BY <1>1, <1>2, <1>3, <1>7, CallAllCalls
<1> QED BY <1>6, <1>8 DEF ClientsInv

LEMMA CallReturnsPauses == ASSUME TypeInv, ClientsInv, CallReturns PROVE ClientsInv'
<1>1. /\ client.state = "pausing" => client'.state = "paused"
      /\ client.state = "resuming" => client'.state = "normal"
      /\ client.state \in {"pausing", "resuming"}
      /\ \A e \in Engine : call[e] = "done" /\ call'[e] = "none"
      /\ UNCHANGED <<eng, fromClient>>
  BY CallReturnsEffect
<1>2. ASSUME client.state = "pausing" PROVE ClientInv'
  <2>1. \A e \in Engine : Quiet(eng[e])
    BY <1>1, <1>2 DEF ClientsInv, ClientInv, PausingInv
  <2> QED BY <1>1, <1>2, <2>1, ClientPrimed
<1>3. ASSUME client.state = "resuming" PROVE ClientInv'
  <2>1. \A e \in Engine : Free(eng[e]) \/ call[e] = "sent"
    BY <1>3 DEF ClientsInv, ClientInv
  <2>2. \A e \in Engine : Free(eng[e])
    BY <1>1, <2>1
  <2> QED BY <1>1, <1>3, <2>2, ClientPrimed
<1>4. ASSUME NEW e \in Engine PROVE CallInv(e)'
  <2>1. CallInv(e)
    BY DEF ClientsInv
  <2> QED BY <1>1, <2>1, CallPrimed DEF CallInv
<1> QED BY <1>1, <1>2, <1>3, <1>4 DEF ClientsInv

LEMMA PausesInit == ASSUME Init PROVE ClientsInv
<1>1. \A e \in Engine : /\ eng[e].at = "loop" /\ ~eng[e].pending
                        /\ fromClient[e] = <<>> /\ call[e] = "none"
  BY DEF Init, NewEngine
<1>2. client.state = "normal"
  BY DEF Init
<1>3. ClientInv
  BY <1>1, <1>2 DEF ClientInv, Free
<1>4. \A e \in Engine : CallInv(e)
  BY <1>1, MsgsEmpty DEF CallInv
<1> QED BY <1>3, <1>4 DEF ClientsInv

LEMMA PausesNext ==
    ASSUME ~RedundantResume, WavesInv, ClientsInv, [Next]_vars PROVE ClientsInv'
<1>0. TypeInv
  BY DEF WavesInv
<1>1. CASE UNCHANGED vars
  BY <1>1, CoordinatePauses DEF vars
<1>2. ASSUME NEW e \in Engine, EngineStep(e) PROVE ClientsInv'
  BY <1>0, <1>2, LoopTopPauses, NotifyIdlePauses, AddRequestPauses, PausePauses, ResumePauses,
     StartDPWavePauses, StepPauses, EndStepPauses DEF EngineStep, HandleInput
<1>3. ASSUME NEW e \in Engine, Coordinate(e) PROVE ClientsInv'
  <2>1. UNCHANGED <<eng, fromClient, call, client>>
    BY <1>3 DEF Coordinate, WaveComplete, StartWave
  <2> QED BY <2>1, CoordinatePauses
<1> QED BY <1>0, <1>1, <1>2, <1>3, SendAddPauses, AllReducePauses, ResumeBarrierPauses,
           SendPausePauses, SendResumePauses, CallReturnsPauses DEF Next

-----------------------------------------------------------------------------
(* Theorems *)

(* run_busy_loop and process_input_socket: once all engines are idle and no
   notification is on its way, the coordinator's engines_running is false and
   its current_wave is that of every engine, whatever the client does. *)
THEOREM CoordinatorCorrect == Spec => []CoordinatorAgrees
<1>1. ASSUME WavesInv PROVE CoordinatorAgrees
  <2> SUFFICES ASSUME AtRest
               PROVE  ~coord.running /\ \A e \in Engine : eng[e].wave = coord.wave
    BY DEF CoordinatorAgrees
  <2>1. \A e \in Engine : ~Ends(eng[e]) /\ ~Runs(eng[e])
    BY DEF AtRest, Ends, Runs, HasWork
  <2>2. 0 \in Engine
    BY <1>1, WaveFacts
  <2>3. Msgs(toCoord[0]) = {}
    BY <2>2, MsgsEmpty DEF AtRest
  <2>4. coord.wave = Wave
    BY <1>1, <2>1, <2>2, <2>3 DEF WavesInv, CoordInv, EndSent
  <2>5. ~coord.running
    BY <1>1, <2>1, <2>4 DEF WavesInv, CoordInv
  <2>6. \A e \in Engine : eng[e].wave = Wave
    BY <1>1, <2>1 DEF WavesInv, EngineWaveInv, WaveOf
  <2> QED BY <2>4, <2>5, <2>6
<1> QED BY <1>1, WavesInit, WavesNext, PTL DEF Spec

LEMMA WellFormed == ASSUME TypeInv PROVE TypeOK
<1>1. ASSUME NEW e \in Engine
      PROVE  /\ eng[e].at \in Place /\ eng[e].pause \in PauseState
             /\ eng[e].wave \in Nat /\ eng[e].steps \in Nat
             /\ eng[e].run \in 0 .. MaxSteps /\ eng[e].wait \in 0 .. MaxSteps
             /\ call[e] \in {"none", "sent", "waiting", "done"}
  BY Fields DEF TypeInv
<1>2. /\ coord.wave \in Nat /\ coord.running \in BOOLEAN
      /\ client.state \in {"normal", "pausing", "paused", "resuming"}
  BY DEF TypeInv
<1> QED BY <1>1, <1>2 DEF TypeOK, Place, PauseState

(* run_busy_loop, sync_dp_state and resume_scheduler: provided the client
   resumes only engines that it has paused, engines that wait in a collective
   wait in the same one, for any number of engines and any dp_sync_interval. *)
THEOREM EnginesInLockstep == ASSUME ~RedundantResume PROVE Spec => []Lockstep
<1>1. ASSUME WavesInv, ClientsInv PROVE Lockstep
  <2>1. TypeInv
    BY <1>1 DEF WavesInv
  <2>2. ASSUME NEW e \in Engine, NEW f \in Engine, eng[e].at = "step", eng[f].at = "resume"
        PROVE  FALSE
    <3>1. client.state \in {"normal", "pausing", "paused", "resuming"}
      BY <2>1 DEF TypeInv
    <3>2. ~Free(eng[f]) /\ ~Quiet(eng[f]) /\ ~PausingInv(eng[f], call[f])
      BY <2>2 DEF Free, Quiet, PausingInv
    <3>3. Quiet(eng[e]) \/ AtBarrier(eng[e])
      BY <1>1, <3>1, <3>2 DEF ClientsInv, ClientInv
    <3> QED BY <2>2, <3>3 DEF Quiet, AtBarrier
  <2>3. CollectivesMatch
    BY <1>1, <2>2 DEF CollectivesMatch, WavesInv, StepsInv
  <2> QED BY <2>1, <2>3, WellFormed DEF Lockstep
<1>2. Init => WavesInv /\ ClientsInv
  BY WavesInit, PausesInit
<1>3. WavesInv /\ ClientsInv /\ [Next]_vars => WavesInv' /\ ClientsInv'
  BY WavesNext, PausesNext
<1> QED BY <1>1, <1>2, <1>3, PTL DEF Spec

(* pause_generation and ignore_start_dp_wave: under the same proviso, from the
   moment the pause has returned until the client resumes no engine runs. *)
THEOREM PauseHolds == ASSUME ~RedundantResume PROVE Spec => []PausedStaysPaused
<1>1. ASSUME ClientsInv PROVE PausedStaysPaused
  BY <1>1 DEF ClientsInv, ClientInv, Quiet, HasWork, PausedStaysPaused
<1>2. Init => WavesInv /\ ClientsInv
  BY WavesInit, PausesInit
<1>3. WavesInv /\ ClientsInv /\ [Next]_vars => WavesInv' /\ ClientsInv'
  BY WavesNext, PausesNext
<1> QED BY <1>1, <1>2, <1>3, PTL DEF Spec

=============================================================================
