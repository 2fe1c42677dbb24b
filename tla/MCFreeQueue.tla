---------------------------- MODULE MCFreeQueue ----------------------------
(* A free list of four blocks. *)
EXTENDS FreeKVCacheBlockQueue

MCOrder == <<1, 2, 3, 4>>
============================================================================
