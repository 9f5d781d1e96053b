------------------------------- MODULE DeltaC -------------------------------
(***************************************************************************)
(* Fossil's own decoder, internal/cref/fossil/delta.c, as the tests call   *)
(* it through internal/cref: the reference the package is held against.    *)
(*                                                                         *)
(* Unlike the package's, it is a single pass that writes as it parses.     *)
(* A char * with the length left of it, which every step moves together,   *)
(* is a position in d here; the length left at position p is Len(d) - p.   *)
(* The lengths it is given and the one it returns are ints: from half a    *)
(* word on they are negative, and from a word on they have lost a word.    *)
(***************************************************************************)
EXTENDS Codec

CONSTANT maxHarnessOutput     \* the longest output cref_Apply makes room for

ASSUME HarnessAssumption == maxHarnessOutput \in Nat

NUL == 0

\* What comes of a delta: an output, or none.  -1 is Rejected; TooLarge is cref's own
\* ErrTooLarge; Undefined is a read outside the source, whatever comes of that.
Accepted(out) == [ok |-> TRUE, out |-> out, why |-> "accepted"]
Stopped(why) == [ok |-> FALSE, out |-> <<>>, why |-> why]
Rejected == Stopped("rejected")
TooLarge == Stopped("too large")
Undefined == Stopped("undefined")

\* The value of a byte in zValue, or -1.
zValue == [c \in Byte |-> IF c \in DigitBytes
                          THEN CHOOSE k \in 0 .. Radix - 1 : Alphabet[k + 1] = c
                          ELSE -1]

\* getInt: walks one byte at a time, so v and the position move together.
getInt(d, p) ==
    LET scan[s \in Nat \X Words] ==
            LET z == s[1]
                v == s[2]
            IN  IF z < Len(d) /\ zValue[d[z + 1]] >= 0
                THEN scan[<<z + 1, (v * Radix + zValue[d[z + 1]]) % Word>>]
                ELSE [val |-> v, next |-> z]
    IN  scan[<<p, 0>>]

\* The length of z is an int.
intHolds(z) == Len(z) < Word \div 2

\* An unsigned int taken for an int.
signed(v) == IF v >= Word \div 2 THEN v - Word ELSE v

\* The length of z as a C.int, and the bytes of z that such a length leaves.
asInt(z) == signed(Len(z) % Word)
passed(z) == SubSeq(z, 1, asInt(z))

\* digit_count: its threshold is an int, shifted left a digit at a time.  When that
\* overflows before it passes v, the loop does not end.
Forever == -1

digit_count(v) ==
    LET x[k \in Nat \ {0}] == IF k = 1 THEN Radix ELSE signed((x[k - 1] * Radix) % Word)
        count[k \in Nat \ {0}] ==
            IF v < x[k] THEN k
            ELSE IF x[k] <= 0 THEN Forever
            ELSE count[k + 1]
    IN  count[1]

\* cref.go: one past the largest value it counts.
MaxDigitCount ==
    LET past[m \in Nat \ {0}] == IF m * Radix > Word \div 2 THEN m ELSE past[m * Radix]
    IN  past[1]

delta_output_size(delta) ==
    LET d == passed(delta)
        g == getInt(d, 0)
    IN  IF g.next >= Len(d) \/ d[g.next + 1] # NewLine THEN -1 ELSE signed(g.val)

\* The portable fallback of checksum(): a running sum per byte lane, each shifted into
\* place at the end, and with them the bytes of a last word that is not whole.
checksumLanes(z) ==
    LET full == Len(z) \div WordBytes
        rest == Len(z) % WordBytes
        lanes[k \in 0 .. full] ==
            IF k = 0 THEN [l \in 1 .. WordBytes |-> 0]
            ELSE [l \in 1 .. WordBytes |-> lanes[k - 1][l] + z[(k - 1) * WordBytes + l]]
        sum[l \in 0 .. WordBytes] ==
            IF l = 0 THEN 0
            ELSE sum[l - 1] * ByteCard
                   + (lanes[full][l] + (IF l <= rest THEN z[full * WordBytes + l] ELSE 0))
    IN  sum[WordBytes] % Word

\* A length is returned as an int, and a negative one is an error.
returned(r) == IF r.ok /\ asInt(r.out) < 0 THEN Rejected ELSE r

\* delta_apply, compiled with FOSSIL_ENABLE_DELTA_CKSUM_TEST.  A copy's end is compared
\* with (u64)lenSrc, which no end exceeds when lenSrc is negative.
delta_apply(src, delta) ==
    LET d == passed(delta)
        lenSrc == asInt(src)
        head == getInt(d, 0)
        limit == head.val
        run[s \in Nat \X Seq(Byte)] ==
            LET p == s[1]
                out == s[2]
                cnt == getInt(d, p)
                ofst == getInt(d, cnt.next + 1)
                total == Len(out) + cnt.val
                copy ==
                    IF \/ ofst.next < Len(d) /\ d[ofst.next + 1] # Comma
                       \/ total > limit
                       \/ lenSrc >= 0 /\ ofst.val + cnt.val > lenSrc
                    THEN Rejected
                    ELSE IF ofst.val + cnt.val > Len(src) THEN Undefined
                    ELSE run[<<ofst.next + 1,
                               out \o SubSeq(src, ofst.val + 1, ofst.val + cnt.val)>>]
                insert ==
                    IF total > limit \/ cnt.val > Len(d) - (cnt.next + 1)
                    THEN Rejected
                    ELSE run[<<cnt.next + 1 + cnt.val,
                               out \o SubSeq(d, cnt.next + 2, cnt.next + 1 + cnt.val)>>]
                end ==
                    IF cnt.val # checksumLanes(out) \/ Len(out) # limit
                    THEN Rejected
                    ELSE Accepted(out)
            IN  IF p >= Len(d) \/ d[p + 1] = NUL THEN Rejected
                ELSE IF cnt.next >= Len(d) THEN Rejected
                ELSE CASE d[cnt.next + 1] = At -> copy
                       [] d[cnt.next + 1] = Colon -> insert
                       [] d[cnt.next + 1] = Semi -> end
                       [] OTHER -> Rejected
    IN  IF head.next >= Len(d) \/ d[head.next + 1] # NewLine
        THEN Rejected
        ELSE returned(run[<<head.next + 1, <<>>>>])

\* cref.Apply: makes room for the output first.  A negative size is a rejection, and too
\* large a one stops the harness.
cref_Apply(src, delta) ==
    LET size == delta_output_size(delta)
    IN  IF size < 0 THEN Rejected
        ELSE IF size > maxHarnessOutput THEN TooLarge
        ELSE delta_apply(src, delta)
=============================================================================
