------------------------------ MODULE MCKnowledge ------------------------------
(* Documents of up to four lines, and another manual of three chunks. *)
EXTENDS KnowledgeInductive, SeedGraph, TLC

CONSTANT MCLines

Kinds ==
    {[size |-> 200, len |-> 2, worded |-> TRUE],    \* a title
     [size |-> 130, len |-> 2, worded |-> TRUE],    \* a heading
     [size |-> 130, len |-> 1, worded |-> FALSE],   \* a bullet in a heading's size
     [size |-> 105, len |-> 2, worded |-> TRUE],    \* a short line
     [size |-> 105, len |-> 9, worded |-> TRUE]}    \* a line that is too long

MCDocuments == UNION {[1..n -> Kinds] : n \in 0..MCLines}
MCShelf == {[doc |-> 2, seq |-> i, len |-> 12, score |-> 0, type |-> "manual"] : i \in 0..2}

Card(score) == [doc |-> 3, seq |-> 0, len |-> 6, score |-> score, type |-> "drawing"]
MCCards == {<<>>, <<Card(80), Card(25), Card(24)>>, <<Card(99), Card(99), Card(99)>>}
=============================================================================
