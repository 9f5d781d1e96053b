--------------------------- MODULE EncoderAgainstC ---------------------------
(***************************************************************************)
(* What Encoder writes, read by delta.c, and by the JavaScript decoder.    *)
(***************************************************************************)
EXTENDS Encoder, DeltaJS

Representable == lenOut < Word /\ lenSrc < Word

\* The delta, had the target ended where it has come to.
Cut ==
    LET header == appendInt(<<>>, lenOut, NewLine)
        done == SubSeq(target, 1, base)
    IN  appendInt(appendInt(<<>>, base, NewLine)
                    \o SubSeq(dst, Len(header) + 1, Len(dst)),
                  checksum(done), Semi)

\* At every point of the search, the commands written so far rebuild exactly the part of
\* the target that has been dealt with: no byte is lost, doubled or taken from the
\* wrong place (create.go: AppendCreate).  delta.c is the reader, so far as its ints go.
CommandsRebuildTarget ==
    LET done == SubSeq(target, 1, base)
    IN  pc = "outer" /\ intHolds(origin) /\ intHolds(Cut) /\ intHolds(done) =>
            delta_apply(origin, Cut) = Accepted(done)

\* "Every implementation of the format reads it" (create.go, Create).  delta.c, whose
\* lengths are ints, reads the delta, to the target, when all three are shorter than
\* half a word; and for an input the format cannot describe there is nothing to read.
DeltaIsReadByC ==
    pc = "done" =>
        IF Representable
        THEN intHolds(origin) /\ intHolds(dst) /\ intHolds(target) =>
                delta_apply(origin, dst) = Accepted(target)
        ELSE delta_apply(origin, dst) = Rejected

\* "The deltas this encoder produces are read correctly by the code on the other side of
\* the connection" (jsref_test.go): browsers read what delta.c reads, payloads with high
\* bytes and the malformed delta of an input too long included.
DeltaIsReadByJS ==
    pc = "done" =>
        applyDelta(origin, dst) =
            IF Representable THEN Accepted(target) ELSE Rejected
=============================================================================
