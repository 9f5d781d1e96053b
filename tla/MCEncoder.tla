------------------------------ MODULE MCEncoder ------------------------------
(***************************************************************************)
(* Encoder in the small format, with 128 byte values, so that half of them *)
(* are no digit anywhere, words of one byte, which makes half a word more  *)
(* than most of the deltas, and a window of two.  A copy costs six bytes   *)
(* and more, so that a source of a dozen bytes is long enough for copies   *)
(* to win, to tie and to lose.                                             *)
(***************************************************************************)
EXTENDS EncoderAgainstC, SmallFormat, SequencesExt

MaxTarget == 9     \* bound: the length of the targets tried against every source

\* Sources of every length around one window, one of equal blocks, one of two kinds of
\* block in turn, and two without a period, at an even and at an odd length.
Sources ==
    { <<>>, <<9>>, <<9, 0>>, <<9, 0, 9>>, <<0, 9, 9, 0>>,
      <<0, 0, 0, 0, 0, 0, 0, 0, 0, 0>>,
      <<9, 0, 0, 9, 9, 0, 0, 9, 9, 0, 0>>,
      <<9, 0, 0, 9, 9, 9, 0, 0, 0, 9, 0, 9>>,
      <<0, 9, 9, 9, 0, 9, 0, 0, 9, 9, 0, 0, 0>> }

\* A source with a piece of another put in, high bytes among it, or two pieces of it
\* swapped.
Edited ==
    LET s == <<9, 0, 0, 9, 9, 9, 0, 0, 0, 9, 0, 9, 4, 4>>
        t == <<64, 73, 73, 9, 67, 73, 0, 64>>
    IN  { <<s, SubSeq(s, 1, k) \o t \o SubSeq(s, k + 1, Len(s))>> : k \in 0 .. Len(s) }
          \cup { <<s \o t, SubSeq(s, k + 1, Len(s)) \o SubSeq(s, 1, k) \o t>> :
                    k \in 0 .. Len(s) }

\* One byte more than a length can say, once like a delta's end.
TooLong == { <<<<9>>, <<Semi>> \o [k \in 1 .. Word - 1 |-> 9]>>,
             <<[k \in 1 .. Word |-> 9], <<9, 0>>>> }

\* A target whose delta is as long as an int can say, and one as long as a length can.
Longest == { <<<<9>>, [k \in 1 .. len |-> 9]>> : len \in {Word \div 2 - 11, Word - 1} }

\* What other calls left in their tables, block numbers past any source's among them.
UsedTables == { <<0>>, <<3>>, <<1, 9>>, <<6, 0, 2>> }

SomePairs ==
    Sources \X UNION {[1 .. k -> {0, 9}] : k \in 0 .. MaxTarget}
      \cup Edited \cup TooLong \cup Longest
=============================================================================
