------------------------------- MODULE Codec -------------------------------
(***************************************************************************)
(* The Fossil delta format: its alphabet, its integers and its checksum    *)
(* (codec.go, checksum.go), as pure operators.                             *)
(*                                                                         *)
(* The format's sizes are parameters, so that TLC can work in a format of  *)
(* the same shape with smaller numbers.  The program's values are          *)
(*     ByteCard = 256    Radix = Len(Alphabet) = 64                        *)
(*     WordBytes = 4     Word = 2^32                                       *)
(* A position in a byte string is 0-based, as in the code: the byte at     *)
(* position i of b is b[i + 1].                                            *)
(***************************************************************************)
EXTENDS Integers, Sequences

CONSTANTS
    ByteCard,      \* how many values a byte has
    Alphabet,      \* the digits' bytes, in increasing order of digit value
    NewLine, At, Comma, Colon, Semi,    \* the command bytes
    WordBytes,     \* bytes in a checksum word
    Word           \* integers and checksums are computed modulo Word

Byte  == 0 .. ByteCard - 1
Radix == Len(Alphabet)
DigitBytes == {Alphabet[k] : k \in 1 .. Radix}
CommandBytes == {NewLine, At, Comma, Colon, Semi}

ASSUME CodecAssumption ==
    /\ ByteCard \in Nat
    /\ Alphabet \in Seq(Byte)
    /\ \A j, k \in 1 .. Radix : j < k => Alphabet[j] < Alphabet[k]
    /\ CommandBytes \subseteq Byte \ DigitBytes
    /\ At # Colon /\ At # Semi /\ Colon # Semi
    /\ Radix \in Nat \ {0, 1}
    /\ WordBytes \in Nat \ {0}
    /\ Word \in Nat /\ Radix < Word

\* A checksum word is WordBytes bytes wide; no proof depends on it.
ASSUME WordAssumption == Word = ByteCard ^ WordBytes

\* The byte 0 is neither a digit nor a command: to delta.c it is the end of a string.
ASSUME ZeroAssumption == 0 \notin DigitBytes \cup CommandBytes

Words == 0 .. Word - 1

encodeDigit == [d \in 0 .. Radix - 1 |-> Alphabet[d + 1]]

\* The table covers every byte value; -1 is "not a digit".
decodeDigit ==
    [c \in Byte |-> IF c \in DigitBytes
                    THEN CHOOSE d \in 0 .. Radix - 1 : encodeDigit[d] = c
                    ELSE -1]

\* appendInt(dst, v, c): dst followed by v, most significant digit first, and
\* the command byte c.
appendInt(dst, v, c) ==
    LET digits[u \in 0 .. v] ==
            IF u < Radix
            THEN <<encodeDigit[u]>>
            ELSE Append(digits[u \div Radix], encodeDigit[u % Radix])
    IN  dst \o Append(digits[v], c)

\* The first position from i on that holds no digit, or Len(b).  From past the
\* end of b it is i itself.
digitsEnd(b, i) ==
    IF i >= Len(b) THEN i
    ELSE CHOOSE j \in i .. Len(b) :
            /\ \A k \in i .. j - 1 : decodeDigit[b[k + 1]] >= 0
            /\ j < Len(b) => decodeDigit[b[j + 1]] < 0

\* Mutant: the number is a signed one.
decodeIntSigned(b, i) ==
    LET end == digitsEnd(b, i)
        v[k \in i .. end] ==
            IF k = i THEN 0
            ELSE (v[k - 1] * Radix + decodeDigit[b[k]]) % Word
    IN  [val |-> IF v[end] < Word \div 2 THEN v[end] ELSE v[end] - Word,
         next |-> end]

\* decodeInt(b, i): the number at position i, wrapped to a word, and the
\* position after it.  No digits at all is zero, and consumes nothing.
decodeInt(b, i) ==
    LET end == digitsEnd(b, i)
        v[k \in i .. end] ==
            IF k = i THEN 0
            ELSE (v[k - 1] * Radix + decodeDigit[b[k]]) % Word
    IN  [val |-> v[end], next |-> end]

twoTo[k \in Nat] == IF k = 0 THEN 1 ELSE 2 * twoTo[k - 1]

\* A digit is a whole number of bits, six in the program.
ASSUME RadixAssumption == \E k \in 1 .. Radix : twoTo[k] = Radix

digitBits == CHOOSE k \in 1 .. Radix : twoTo[k] = Radix

\* bits.Len: the least number of bits that hold v.
bitsLen(v) == CHOOSE n \in 0 .. v : v < twoTo[n] /\ (n > 0 => twoTo[n - 1] <= v)

\* Mutant: the bits are not rounded up to whole digits, they are rounded down and one
\* added.
digitCountOffByOne(v) == IF v <= 0 THEN 1 ELSE bitsLen(v) \div digitBits + 1

\* The digits that v's bits come to, which appendInt never looks at.
digitCount(v) == IF v <= 0 THEN 1 ELSE (bitsLen(v) + digitBits - 1) \div digitBits

\* Mutant: as the low bytes of one.
bigEndianLow(b, i, n) ==
    LET w[k \in 0 .. n] ==
            IF k = 0 THEN 0 ELSE w[k - 1] * ByteCard + b[i + k]
    IN  w[n]

\* n bytes of b from position i, read as the leading bytes of a big-endian
\* word whose remaining bytes are zero.
bigEndian(b, i, n) ==
    LET w[k \in 0 .. WordBytes] ==
            IF k = 0 THEN 0
            ELSE w[k - 1] * ByteCard + (IF k <= n THEN b[i + k] ELSE 0)
    IN  w[WordBytes]

checksum(b) ==
    LET full == Len(b) \div WordBytes
        sum[k \in 0 .. full] ==
            IF k = 0 THEN 0
            ELSE (sum[k - 1] + bigEndian(b, (k - 1) * WordBytes, WordBytes)) % Word
    IN  (sum[full] + bigEndian(b, full * WordBytes, Len(b) % WordBytes)) % Word
=============================================================================
