------------------------------- MODULE Hash --------------------------------
(***************************************************************************)
(* The hash the encoder finds its matches with (hash.go): of one block of  *)
(* the source, of a window that slides over the target, and of the table   *)
(* bucket it falls in.                                                     *)
(*                                                                         *)
(* A hash is two halves packed into one word, a the sum of the bytes and b *)
(* their sum weighted by the distance from the window's end.  The          *)
(* program's values are hashWindow = 16, Half = 2^16, phi = 0x9E3779B1.    *)
(***************************************************************************)
EXTENDS Codec

CONSTANTS hashWindow,   \* bytes in a block, and in the sliding window
          Half,         \* the range of one half of a hash
          phi           \* the odd multiplier that spreads a hash's bits

HashWord == Half * Half

ASSUME HashAssumption ==
    /\ hashWindow \in Nat \ {0}
    /\ Half \in Nat \ {0} /\ phi \in Nat
    /\ hashWindow * (hashWindow + 1) * (ByteCard - 1) < 2 * Half

\* blockHash(z, pos): the hash of the hashWindow bytes at pos.  Neither half can
\* exceed its range, so the two are packed without a mask.
blockHash(z, pos) ==
    LET a[k \in 0 .. hashWindow] ==
            IF k = 0 THEN 0 ELSE a[k - 1] + z[pos + k]
        b[k \in 0 .. hashWindow] ==
            IF k = 0 THEN 0 ELSE b[k - 1] + (hashWindow + 1 - k) * z[pos + k]
    IN  a[hashWindow] + b[hashWindow] * Half

\* A rollingHash over the window at pos: its halves, the window's bytes in a ring
\* and the ring's oldest entry.
rollInit(z, pos) ==
    [a |-> blockHash(z, pos) % Half, b |-> blockHash(z, pos) \div Half, i |-> 0,
     z |-> [k \in 0 .. hashWindow - 1 |-> z[pos + k + 1]]]

\* Mutant: b is updated before a.
rollNextSwapped(h, c) ==
    LET old == h.z[h.i]
    IN  [a |-> (h.a - old + c) % Half, b |-> (h.b - hashWindow * old + h.a) % Half,
         i |-> (h.i + 1) % hashWindow, z |-> [h.z EXCEPT ![h.i] = c]]

\* The window slides by one byte: the oldest leaves, c enters.  The modulo is that of the
\* halves' type; neither sum leaves its range (TestBlockHashHalvesCannotOverflow).
rollNext(h, c) ==
    LET old == h.z[h.i]
        a == (h.a - old + c) % Half
    IN  [a |-> a, b |-> (h.b - hashWindow * old + a) % Half,
         i |-> (h.i + 1) % hashWindow, z |-> [h.z EXCEPT ![h.i] = c]]

rollValue(h) == h.a + h.b * Half

\* bucketIndex(h, n): h's bucket of n, the high bits of a wrapped product.  n is a
\* power of two, and multiplying by it and dropping the low half is the shift.
bucketIndex(h, n) == (((h * phi) % HashWord) * n) \div HashWord
=============================================================================
