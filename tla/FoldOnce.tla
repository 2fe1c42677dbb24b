------------------------------ MODULE FoldOnce ------------------------------
(* Loops over sequences that accumulate a record: as FoldLeft, but the model
   checker evaluates each intermediate result once. *)
EXTENDS SequencesExt

Bind(v, F(_)) == CHOOSE y \in {F(x) : x \in {v}} : TRUE

Fold(op(_, _), base, seq) == FoldLeft(LAMBDA acc, x : Bind(acc, LAMBDA a : op(a, x)), base, seq)
=============================================================================
