------------------------------ MODULE MCDecoder ------------------------------
(***************************************************************************)
(* Instances of Decoder in the small format: deltas assembled from         *)
(* commands as genvalid_test.go does, right and wrong in one place each.   *)
(***************************************************************************)
EXTENDS DecoderAgainstC, SmallFormat, FiniteSetsExt, SequencesExt

Num(v, c) == appendInt(<<>>, v, c)

\* ---------------------------------------------------- deltas from commands

Source == <<0, 9, 4, 8, 6>>      \* 4, 8 and 6 are a digit, '@' and ':'
Drifted == <<0, 9, 8, 4, 6>>     \* the words differ, their sum too
Swapped == <<4, 8, 0, 9, 6>>     \* two words swapped: the sum is the same

\* A command: its bytes, its count, and what it produces from Source.
Insert(p) == [bytes |-> Num(Len(p), Colon) \o p, cnt |-> Len(p), out |-> p]
Copy(o, k) == [bytes |-> Num(k, At) \o Num(o, Comma), cnt |-> k,
               out |-> SubSeq(Source, o + 1, o + k)]
Wrong(k, b) == [bytes |-> b, cnt |-> k, out |-> <<>>]

GoodCommands ==
    {Insert(<<>>), Insert(<<7>>), Insert(<<4, 6>>)}
        \cup {Copy(0, 2), Copy(3, 2), Copy(1, 4), Copy(4, 0), Copy(5, 0), Copy(2, 1)}

\* Counts and offsets past the source, past the delta and past a word's end, and
\* copies that end without their comma.
WrongCommands ==
    { Wrong(1, Num(1, At) \o Num(5, Comma)), Wrong(0, Num(0, At) \o Num(6, Comma)),
      Wrong(2, Num(2, At) \o Num(255, Comma)), Wrong(255, Num(255, At) \o Num(2, Comma)),
      Wrong(255, Num(255, Colon)), Wrong(3, Num(3, Colon) \o <<7>>),
      Wrong(128, Num(128, Colon)),
      Wrong(1, Num(1, At) \o Num(1, Semi)), Wrong(1, Num(1, At) \o Num(1, NewLine)) }

Commands == GoodCommands \cup WrongCommands

\* A delta that declares the sum of the counts, wrapped as a header would be, and
\* is right but for skew and bad.
Assembled(cmds, skew, bad) ==
    LET out == FlattenSeq([k \in 1 .. Len(cmds) |-> cmds[k].out])
        size == FoldSeq(LAMBDA c, s : s + c.cnt, skew, cmds)
    IN  Num(size % Word, NewLine)
          \o FlattenSeq([k \in 1 .. Len(cmds) |-> cmds[k].bytes])
          \o Num((checksum(out) + bad) % Word, Semi)

\* Copies that add up to more than a number holds: a total as wide as the counts
\* would wrap around, stay within the declared size and end at it.
Wide == [k \in 1 .. 200 |-> 9]
WideCopy(k) == Wrong(k, Num(k, At) \o Num(0, Comma))
WideDeltas ==
    LET out == [k \in 1 .. 100 |-> 9]
    IN  { Assembled(<<WideCopy(100), WideCopy(200), WideCopy(56)>>, 0, checksum(out)),
          Assembled(<<WideCopy(100), WideCopy(156), WideCopy(100)>>, 0, checksum(out)),
          Assembled(<<WideCopy(100)>>, 0, checksum(out)) }

AssembledDeltas == WideDeltas \cup
    { Assembled(cmds, d[1], d[2]) :
        cmds \in UNION {[1 .. k -> Commands] : k \in 0 .. 2}
                   \cup [1 .. 3 -> GoodCommands],
        d \in {<<0, 0>>, <<1, 0>>, <<0, 1>>, <<0, Word \div 2>>} }

\* ---------------------------------------------------- where an int is short

\* A 32-bit int is half as wide as the format's numbers.
HalfInt == Word \div 2 - 1

Int32Deltas == WideDeltas
    \cup { Assembled(cmds, 0, bad) :
            cmds \in UNION {[1 .. k -> Commands] : k \in 0 .. 1}, bad \in {0, 1} }
    \cup { Num(128, NewLine) \o Num(128, At) \o Num(0, Comma) \o Num(0, Semi) }

\* dst so long that a few more bytes are too many for an int, with and without
\* the array to take them.
LongDsts == { [arr |-> [k \in 1 .. l |-> 15], len |-> 125] : l \in {125, 127} }

\* ------------------------------------------------------------ the constants

AssembledOrigins == {Source, Swapped, Drifted, Wide}
Int32Origins == {Source, Swapped, Wide}

\* dst with room to spare, without, and empty; its bytes are not a new array's.
SomeDsts == { [arr |-> <<15, 15, 15, 15, 15, 15, 15, 15>>, len |-> 2],
              [arr |-> <<15, 15, 15>>, len |-> 2], [arr |-> <<>>, len |-> 0] }
=============================================================================
