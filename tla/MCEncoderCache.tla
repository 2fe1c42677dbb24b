-------------------------- MODULE MCEncoderCache --------------------------
(* Two entries fit.  One request repeats an image, one is shared, one needs
   more than is left. *)
EXTENDS EncoderCache

Image(h, s, l) == [hash |-> h, start |-> s, len |-> l]

Repeated == <<  <<Image("x", 0, 1), Image("x", 2, 1)>>, <<Image("y", 0, 1), Image("z", 1, 2)>>,
                <<Image("x", 0, 1)>> >>
Lengths == <<3, 3, 1>>
Sizes == "x" :> 1 @@ "y" :> 1 @@ "z" :> 2
=============================================================================
