--------------------------- MODULE MCDecoderShort ---------------------------
(***************************************************************************)
(* Instances of Decoder in which the delta is every short byte string over *)
(* the bytes the decoders tell apart, after each of a few headers.  The    *)
(* format is SmallFormat's with twice as many bytes, the upper half of     *)
(* them without a meaning, and with words of one byte: two digits are      *)
(* enough for a number to wrap around.                                     *)
(***************************************************************************)
EXTENDS DecoderAgainstC, DecoderAgainstJS, SmallFormat

Num(v, c) == appendInt(<<>>, v, c)

\* NUL, a zero digit, a digit, the command bytes.
ScanBytes == {NUL, 3, 4, At, Colon, Semi, Comma}

\* The same digit and the same operators with the top bit set, where bytes have one.
High(c) == c + ByteCard \div 2
HighBytes == {High(4), High(Semi), High(Comma)}

\* Headers: an empty number and 1, which short bodies can meet; one that wraps
\* around to 1 and the largest number, after which the bodies are a byte shorter.
Headers == { <<NewLine>>, Num(1, NewLine) }
LargeHeaders == { <<4, 3, 3, 4, NewLine>>, Num(Word - 1, NewLine) }
HighHeaders == { <<High(4), NewLine>>, <<High(3), NewLine>> }

\* A header without its newline.
Headless == { <<>>, <<4>>, <<NUL>>, <<At>>, <<4, At>>, <<4, 4, 4, 4>>,
              <<4, High(NewLine)>>, <<High(4)>> }

MaxBody == 5     \* bound: bytes after the header

Bodies(bytes, max) == UNION {[1 .. k -> bytes] : k \in 0 .. max}

\* The longest bodies go without a zero digit: no digit at all is a zero as well.
Split ==
    (Headless \X {<<>>})
      \cup (Headers \X Bodies(ScanBytes \ {3}, MaxBody))
      \cup ((Headers \cup LargeHeaders) \X Bodies(ScanBytes, MaxBody - 1))
      \cup ({<<NewLine>>} \X Bodies((ScanBytes \ {NUL}) \cup HighBytes, MaxBody - 1))
      \cup (HighHeaders \X Bodies((ScanBytes \ {NUL}) \cup HighBytes, MaxBody - 2))

ShortDeltas == {p[1] \o p[2] : p \in Split}

\* ------------------------------------------------------------ the constants

ShortOrigins == {<<>>, <<NUL>>}
OneDst == { [arr |-> <<15, 15, 15>>, len |-> 2] }
=============================================================================
