---------------------------- MODULE MCRoundTrip ----------------------------
(***************************************************************************)
(* RoundTrip in the small format.  The receiver's source is the right one, *)
(* a shorter one, or one in which two words, two bytes of different words  *)
(* or two neighbours have been swapped.                                    *)
(***************************************************************************)
EXTENDS RoundTrip, SmallFormat, SequencesExt

Swapped(s, j, k) == [s EXCEPT ![j] = s[k], ![k] = s[j]]

Drifted(s) ==
    {s} \cup { SubSeq(s, 1, Len(s) - 1) }
        \cup { Swapped(s, j, j + 2) : j \in 1 .. Len(s) - 2 }
        \cup { Swapped(s, j, j + 1) : j \in 1 .. Len(s) - 1 }

Text == <<9, 0, 0, 9, 9, 9, 4, 7, 0, 9, 1, 12, 4, 15>>
Patch == <<0, 9, 12, 9, 0, 9>>

\* Runs that match on both sides of a copy already made.
Runs == <<9, 0, 0, 9, 9, 9, 0, 0, 0, 9, 0, 9>>

\* A text with a patch put in, with a piece cut out, with its halves swapped; runs; and
\* a source a word or two long.
SomePairs ==
    { <<Text, SubSeq(Text, 1, k) \o Patch \o SubSeq(Text, k + 1, Len(Text))>> :
        k \in 0 .. Len(Text) }
    \cup { <<Text \o Patch, SubSeq(Text, 1, k) \o SubSeq(Text, k + 3, Len(Text))>> :
            k \in {1, 4, 7, 10} }
    \cup { <<Patch \o Text, SubSeq(Text, k + 1, Len(Text)) \o SubSeq(Text, 1, k)>> :
            k \in {0, 3, 5, 8, 11} }
    \cup { <<Runs, <<9, 9, 0, 0>> \o t>> : t \in [1 .. 5 -> {0, 9}] }
    \cup {Text, Patch, <<9>>, <<>>} \X {Text, Patch, <<9>>, <<>>}

UsedTables == { <<3, 1>> }

SomeDsts == { [arr |-> [k \in 1 .. 30 |-> 15], len |-> 2], [arr |-> <<15, 15, 15>>, len |-> 2] }
=============================================================================
