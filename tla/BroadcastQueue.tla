--------------------------- MODULE BroadcastQueue ---------------------------
(***************************************************************************)
(* What the callers of MessageQueue rely on: a bounded queue with one      *)
(* writer from which every reader takes every message, once and in order,  *)
(* at its own pace (shm_broadcast.py: "a queue where only one will         *)
(* enqueue and multiple will dequeue").                                    *)
(***************************************************************************)
EXTENDS Naturals, Sequences

CONSTANTS
    Reader,      \* the readers
    Message,     \* what may be sent
    Capacity     \* how far the writer may be ahead of a reader

VARIABLES
    log,     \* the messages sent, in order
    taken,   \* taken[r]: the messages that dequeue has returned to reader r
    left     \* the readers that were shut down

Init == log = <<>> /\ taken = [r \in Reader |-> <<>>] /\ left = {}

Send(m) ==
    /\ \A r \in Reader : Len(log) < Len(taken[r]) + Capacity
    /\ log' = Append(log, m)
    /\ UNCHANGED <<taken, left>>

Take(r) ==
    /\ r \notin left
    /\ Len(taken[r]) < Len(log)
    /\ taken' = [taken EXCEPT ![r] = Append(@, log[Len(@) + 1])]
    /\ UNCHANGED <<log, left>>

Leave(r) == left' = left \cup {r} /\ UNCHANGED <<log, taken>>

Next ==
    \/ \E m \in Message : Send(m)
    \/ \E r \in Reader : Take(r) \/ Leave(r)

Safety == Init /\ [][Next]_<<log, taken, left>>

Spec ==
    /\ Safety
    /\ \A r \in Reader : WF_<<log, taken, left>>(Take(r))
=============================================================================
