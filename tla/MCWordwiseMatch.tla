-------------------------- MODULE MCWordwiseMatch --------------------------
(***************************************************************************)
(* Every two texts of a few bytes out of two, each from every position: no *)
(* word, a word, two words, and bytes left over.                           *)
(***************************************************************************)
EXTENDS WordwiseMatch

MaxText == 5    \* bound: the length of the texts of which there are all

SomeTexts == {<<0, 0, 1, 0, 0, 0, 1, 1>>, <<1, 0, 0, 1, 0, 0, 0, 1>>, <<0, 0, 0, 0, 0, 0, 0, 0>>}
    \cup UNION {[1 .. k -> {0, 1}] : k \in 0 .. MaxText}
=============================================================================
