------------------------------ MODULE DeltaJS ------------------------------
(***************************************************************************)
(* The decoder that runs in browsers, applyDelta of                        *)
(* internal/jsref/fossil-delta.mjs, as the tests call it through           *)
(* apply.mjs.                                                              *)
(*                                                                         *)
(* It looks a digit up by a byte's low seven bits, steps back by one byte  *)
(* after a number whether one has ended it or not, and holds an insert's   *)
(* count against the delta's whole length.  A thrown error is Rejected.    *)
(***************************************************************************)
EXTENDS DeltaC

\* This zValue has 128 entries.
lowBits(c) == c % (ByteCard \div 2)
lowValue(c) == zValue[lowBits(c)]

\* Reader.getInt.  When the bytes end with the number, pos is left on its last digit.
Reader_getInt(d, p) ==
    LET scan[s \in Nat \X Words] ==
            LET z == s[1]
                v == s[2]
            IN  IF z >= Len(d) THEN [val |-> v, next |-> z - 1]
                ELSE IF lowValue(d[z + 1]) < 0 THEN [val |-> v, next |-> z]
                ELSE scan[<<z + 1, (v * Radix + lowValue(d[z + 1])) % Word>>]
    IN  scan[<<p, 0>>]

\* Reader.getChar returns c: it compares all of a byte's bits.
charIs(d, p, c) == p >= 0 /\ d[p + 1] = c

applyDelta(src, d) ==
    LET limit == Reader_getInt(d, 0)
        run[s \in Nat \X Seq(Byte)] ==
            LET p == s[1]
                out == s[2]
                cnt == Reader_getInt(d, p)
                ofst == Reader_getInt(d, cnt.next + 1)
                total == Len(out) + cnt.val
                text == cnt.next + 1
                copy ==
                    IF \/ ~ charIs(d, ofst.next, Comma)
                       \/ total > limit.val
                       \/ ofst.val + cnt.val > Len(src)
                    THEN Rejected
                    ELSE run[<<ofst.next + 1,
                               out \o SubSeq(src, ofst.val + 1, ofst.val + cnt.val)>>]
                \* An insert that reaches the delta's end leaves it unterminated,
                \* whatever there is behind it.
                insert ==
                    IF total > limit.val \/ cnt.val > Len(d) \/ text + cnt.val >= Len(d)
                    THEN Rejected
                    ELSE run[<<text + cnt.val,
                               out \o SubSeq(d, text + 1, text + cnt.val)>>]
                end ==
                    IF cnt.val # checksumLanes(out) \/ Len(out) # limit.val
                    THEN Rejected
                    ELSE Accepted(out)
            IN  IF p >= Len(d) THEN Rejected
                ELSE CASE charIs(d, cnt.next, At) -> copy
                       [] charIs(d, cnt.next, Colon) -> insert
                       [] charIs(d, cnt.next, Semi) -> end
                       [] OTHER -> Rejected
    IN  IF charIs(d, limit.next, NewLine) THEN run[<<limit.next + 1, <<>>>>] ELSE Rejected
=============================================================================
