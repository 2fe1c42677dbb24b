--------------------------- MODULE PhraseMatcher ---------------------------
(***************************************************************************)
(* The automaton that finds banned phrases in generated text               *)
(* (csrc/phrase_matcher.cpp) and, to compare it with, what it is meant to  *)
(* find.                                                                   *)
(*                                                                         *)
(* An automaton is a function from node numbers to nodes; node 0 is the    *)
(* root.  Byte positions count from 0, as in the code; a match may start   *)
(* before the data that is scanned, at a negative position.                *)
(***************************************************************************)
EXTENDS Integers, FoldOnce

Node == [edges |-> <<>>, failure |-> 0, depth |-> 0, terminal |-> 0]

RECURSIVE advance(_, _, _)
advance(nodes, state, byte) ==
    IF byte \in DOMAIN nodes[state].edges THEN nodes[state].edges[byte]
    ELSE IF state = 0 THEN 0 ELSE advance(nodes, nodes[state].failure, byte)

(* Follow or create the edge of one byte of a pattern. *)
AddByte(acc, byte) ==
    LET node == acc.nodes[acc.state]
        new == Cardinality(DOMAIN acc.nodes)
    IN  IF byte \in DOMAIN node.edges THEN [acc EXCEPT !.state = node.edges[byte]]
        ELSE [state |-> new,
              nodes |-> (acc.state :> [node EXCEPT !.edges = @ @@ byte :> new])
                        @@ (new :> [Node EXCEPT !.depth = node.depth + 1]) @@ acc.nodes]

add(nodes, pattern) ==
    LET end == Fold(AddByte, [nodes |-> nodes, state |-> 0], pattern)
    IN  [end.nodes EXCEPT ![end.state].terminal = Len(pattern)]

Children(nodes, n) == {nodes[n].edges[byte] : byte \in DOMAIN nodes[n].edges}

(* Slip: only the phrase that ends at the node itself counts. *)
LinkOwnTerminal(nodes, parent, byte) ==
    [nodes EXCEPT ![nodes[parent].edges[byte]].failure = advance(nodes, nodes[parent].failure, byte)]

Link(nodes, parent, byte) ==
    LET failure == advance(nodes, nodes[parent].failure, byte)
    IN  [nodes EXCEPT ![nodes[parent].edges[byte]] =
            [@ EXCEPT !.failure = failure,
                      !.terminal = Max({@, nodes[failure].terminal})]]

(* Breadth first, in any order within a level: the failure link of a child
   depends on shallower nodes only. *)
RECURSIVE finish(_, _)
finish(nodes, queue) ==
    IF queue = <<>> THEN nodes
    ELSE LET parent == Head(queue)
             bytes == SetToSeq(DOMAIN nodes[parent].edges)
         IN  finish(Fold(LAMBDA acc, byte : Link(acc, parent, byte), nodes, bytes),
                    Tail(queue) \o SetToSeq(Children(nodes, parent)))

compile(patterns) ==
    LET trie == Fold(add, 0 :> Node, patterns)
    IN  finish(trie, SetToSeq(Children(trie, 0)))

NoMatch == [found |-> FALSE, earliest |-> 0]

ScanByte(nodes, acc, byte) ==
    LET state == advance(nodes, acc.state, byte)
        start == acc.i + 1 - nodes[state].terminal
    IN  [state |-> state, i |-> acc.i + 1,
         match |-> IF nodes[state].terminal = 0 \/ (acc.match.found /\ start >= acc.match.earliest)
                   THEN acc.match ELSE [found |-> TRUE, earliest |-> start]]

scan(nodes, state, data) ==
    Bind(Fold(LAMBDA acc, byte : ScanByte(nodes, acc, byte),
              [state |-> state, i |-> 0, match |-> NoMatch], data),
         LAMBDA end : [state |-> end.state, match |-> end.match, suffix |-> nodes[end.state].depth])

-----------------------------------------------------------------------------
(* What the automaton is meant to compute *)

Occurs(pattern, text) ==
    \E k \in 0 .. Len(text) - Len(pattern) :
        SubSeq(text, k + 1, k + Len(pattern)) = pattern

ContainsPhrase(patterns, text) == \E p \in Range(patterns) : Occurs(p, text)

(* The longest end of the text that begins a phrase. *)
LivePrefix(patterns, text) ==
    LET lengths == {k \in 0 .. Len(text) :
                       \E p \in Range(patterns) : IsPrefix(SubSeq(text, Len(text) - k + 1, Len(text)), p)}
    IN  SubSeq(text, Len(text) - Max(lengths) + 1, Len(text))

(* The node that spells a word. *)
NodeOf(nodes, word) == Fold(LAMBDA n, byte : nodes[n].edges[byte], 0, word)
=============================================================================
