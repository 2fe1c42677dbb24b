--------------------------- MODULE MCPhraseGuard ---------------------------
(* Phrases that share prefixes and overlap with tokens that straddle their
   boundaries; and a character of two tokens, two tokens to a frame. *)
EXTENDS PhraseGuard

Overlapping == {<< <<"a", "b", "c", "d">>, <<"b", "c">> >>, << <<"a", "b">>, <<"x", "c">> >>}
OverlapText == "a" :> <<"a">> @@ "b" :> <<"b">> @@ "xc" :> <<"x", "c">> @@ "c" :> <<"c">> @@ "eos" :> <<>>

Broken == {<< <<"a", "g1", "g2">>, <<"rep">> >>}
BrokenText == "a" :> <<"a">> @@ "lead" :> <<>> @@ "tail" :> <<"g1", "g2">> @@ "stop" :> <<"a">>

MCSetups ==
    {[phrases |-> list, text |-> OverlapText, stops |-> {"eos"}, include_stop |-> FALSE,
      max_tokens |-> 4, step |-> 1] : list \in Overlapping}
    \cup
    {[phrases |-> list, text |-> BrokenText, stops |-> {"stop"}, include_stop |-> TRUE,
      max_tokens |-> 3, step |-> 2] : list \in Broken}
=============================================================================
