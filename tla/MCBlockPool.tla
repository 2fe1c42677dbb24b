---------------------------- MODULE MCBlockPool ----------------------------
(* A pool of three real blocks shared by two clients; the key k2 stands for a
   longer prefix than k1. *)
EXTENDS BlockPoolClients

CONSTANTS c1, c2, d1, k1, k2

MCBlock == 0 .. 3
MCClient == {c1, c2}
MCCopy == {d1}
MCKey == {k1, k2}
MCKeyTokens == [k \in MCKey |-> IF k = k1 THEN 1 ELSE 2]
MCBlockOrder == <<1, 2, 3>>

(* Keep is list filtering: it agrees with SelectSeq on every sequence of up to
   four blocks. *)
ASSUME KeepIsSelectSeq ==
    \A n \in 0 .. 4 : \A s \in [1 .. n -> MCBlock], X \in SUBSET MCBlock :
        Keep(s, X) = SelectSeq(s, LAMBDA b : b \in X)

ClientSymmetry == Permutations(MCClient)
============================================================================
