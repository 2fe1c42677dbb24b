-------------------------- MODULE MCShmRingBuffer --------------------------
(* Two readers and a ring of two slots that the writer goes round. *)
EXTENDS ShmRingBuffer

CONSTANTS x, y

MCReader == {x, y}
MCHasty == {y}
MCStoppable == {x}
=============================================================================
