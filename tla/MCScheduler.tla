---------------------------- MODULE MCScheduler ----------------------------
(* Two requests in a pool that cannot hold both to the end. *)
EXTENDS Scheduler

CONSTANTS r1, r2, a, b, e

MCReq == {r1, r2}
MCToken == {a, b, e}
MCSampled == {a, e}
MCSampledA == {a}
(* Prompts that share their first block. *)
MCPromptShared == (r1 :> <<a, a, a>>) @@ (r2 :> <<a, a, b>>)
MCRank == (r1 :> 2) @@ (r2 :> 1)
(* A prompt that LongPrefill cuts into chunks, and one that shares nothing with
   it, so that each request can push the other out of the cache. *)
MCLongPrompt == (r1 :> <<a, a, a, a, a, a, a>>) @@ (r2 :> <<b, b>>)

(* The schedulers: first come first served, with and without run-ahead within
   a request; one of each policy; and the priority policy without run-ahead. *)
FCFS == [async : BOOLEAN, priority : {FALSE}]
BothPolicies == {[async |-> TRUE, priority |-> TRUE], [async |-> FALSE, priority |-> FALSE]}
SyncPriority == {[async |-> FALSE, priority |-> TRUE]}

MCBlock3 == 0 .. 3
MCBlockOrder3 == <<1, 2, 3>>
MCBlock5 == 0 .. 5
MCBlockOrder5 == <<1, 2, 3, 4, 5>>
MCBlock8 == 0 .. 8
MCBlockOrder8 == <<1, 2, 3, 4, 5, 6, 7, 8>>
============================================================================
