----------------------------- MODULE CodecStream -----------------------------
(***************************************************************************)
(* Numbers written one after another into one buffer and read back.        *)
(*                                                                         *)
(* A delta is nothing but such a stream (plus the inserted bytes): every   *)
(* number is written by appendInt with the command byte that ends it, and  *)
(* every number is read by decodeInt from where the one before it ended.   *)
(* Nothing else says where a number stops, so what must hold is that the   *)
(* reader finds the writer's numbers again, whatever was written around    *)
(* them.                                                                   *)
(***************************************************************************)
EXTENDS DeltaC, SequencesExt

CONSTANTS Values,      \* the numbers written
          MaxNumbers   \* bound: how many numbers the buffer takes

ASSUME StreamAssumption == Values \subseteq Words /\ MaxNumbers \in Nat

\* delta.c's threshold "overflows to zero on the next step" after MaxDigitCount
\* (internal/cref/cref.go:52-60): digits and words are whole numbers of bits wide, and a word's sign bit
\* is not where a digit starts.
ASSUME ShiftAssumption ==
    /\ Word % 2 = 0
    /\ MaxDigitCount # Word \div 2
    /\ (MaxDigitCount * Radix) % Word = 0

VARIABLES buf,       \* the bytes written so far
          written,   \* <<number, command byte>> in the order of the writes
          pos,       \* where the reader is in buf
          read       \* <<number, command byte>> in the order of the reads

vars == <<buf, written, pos, read>>

TypeOK ==
    /\ buf \in Seq(Byte)
    /\ written \in Seq(Words \X CommandBytes)
    /\ pos \in 0 .. Len(buf)
    /\ read \in Seq(Words \X Byte)

Init == buf = <<>> /\ written = <<>> /\ pos = 0 /\ read = <<>>

Write(v, c) ==
    /\ Len(written) < MaxNumbers
    /\ buf' = appendInt(buf, v, c)
    /\ written' = Append(written, <<v, c>>)
    /\ UNCHANGED <<pos, read>>

Read ==
    /\ pos < Len(buf)
    /\ LET d == decodeInt(buf, pos)
       IN  /\ d.next < Len(buf)
           /\ read' = Append(read, <<d.val, buf[d.next + 1]>>)
           /\ pos' = d.next + 1
    /\ UNCHANGED <<buf, written>>

Next == Read \/ \E v \in Values, c \in CommandBytes : Write(v, c)

Spec == Init /\ [][Next]_vars

-----------------------------------------------------------------------------
\* What is read is what was written, in the same order, and the reader never
\* stops inside a number (codec.go: appendInt, decodeInt).
ReadsBackWhatWasWritten ==
    /\ IsPrefix(read, written)
    /\ pos = Len(buf) => read = written

\* The encoder prices a command with digitCount before it writes it with
\* appendInt: the two must agree on how long a number is, or a copy that looks
\* cheaper than its text makes the delta longer (codec.go: digitCount).  delta.c's price
\* is the same, and has none from cref.MaxDigitCount on (cref_test.go,
\* TestCRef_DigitCount).
PriceIsLengthWritten ==
    /\ Len(buf) = FoldSeq(LAMBDA e, n : n + digitCount(e[1]) + 1, 0, written)
    /\ \A e \in Range(written) :
          e[1] < Word \div 2 =>
              digit_count(e[1]) = IF e[1] < MaxDigitCount THEN digitCount(e[1])
                                    ELSE Forever

\* Reading the bytes word by word, with what is left over taken for the leading bytes
\* of one more word, gives the sum delta.c gets by summing each byte lane and shifting
\* the four sums into place at the end (checksum.go: checksum).
ChecksumIsLaneSum == checksum(buf) = checksumLanes(buf)

\* codec.go says of the alphabet that "the encoding sorts the same way the
\* numbers do": of two numbers the smaller one's digits come first in
\* byte-lexicographic order.
LexLess(s, t) ==
    \/ IsStrictPrefix(s, t)
    \/ \E k \in 1 .. Len(s) :
          /\ k <= Len(t) /\ s[k] < t[k]
          /\ \A j \in 1 .. k - 1 : s[j] = t[j]

EncodingSortsAsNumbers ==
    \A v, w \in Range(written) :
        v[1] < w[1] => LexLess(Front(appendInt(<<>>, v[1], v[2])),
                               Front(appendInt(<<>>, w[1], w[2])))

=============================================================================
