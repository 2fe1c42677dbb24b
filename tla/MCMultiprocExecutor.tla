------------------------ MODULE MCMultiprocExecutor ------------------------
(* Two workers whose queues hold one message. *)
EXTENDS MultiprocExecutor
=============================================================================
