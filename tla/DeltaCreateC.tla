---------------------------- MODULE DeltaCreateC ----------------------------
(***************************************************************************)
(* Fossil's own encoder, delta_create of internal/cref/fossil/delta.c, as  *)
(* the tests call it through internal/cref.                                *)
(*                                                                         *)
(* It searches as the package does and finds its candidates differently:   *)
(* it reads the bytes it hashes as signed chars, its tables have as many   *)
(* entries as the source has blocks, a hash's bucket is a remainder, and   *)
(* -1 is a block number.  hashWindow is its NHASH.                         *)
(*                                                                         *)
(* It takes its lengths as unsigned ints and goes by them as ints.  From   *)
(* MaxDigitCount on it need not return, and nothing is said of it here.    *)
(***************************************************************************)
EXTENDS Hash, MatchLength, DeltaC

\* cref.go, MaxDigitCount: 1 << 30, and an int holds twice as much.
ASSUME DigitCountAssumption == MaxDigitCount \in Nat /\ MaxDigitCount <= Word \div 2

None == -1
candidates == 250     \* blocks tried per window

\* A byte as a plain char, which is signed, and a char as a u16.
char(c) == IF c >= ByteCard \div 2 THEN c - ByteCard ELSE c
u16(v) == v % Half

putInt(v) ==
    LET zBuf[u \in Words] ==
            IF u = 0 THEN <<>> ELSE Append(zBuf[u \div Radix], Alphabet[(u % Radix) + 1])
    IN  IF v = 0 THEN <<Alphabet[1]>> ELSE zBuf[v]

\* hash_init: the window's chars, its start in the ring, and the two sums, b the sum
\* of the values a has had.
hash_init(z, pos) ==
    LET first == u16(char(z[pos + 1]))
        sums[k \in 0 .. hashWindow - 1] ==
            IF k = 0 THEN [a |-> first, b |-> first]
            ELSE LET a == u16(sums[k - 1].a + char(z[pos + k + 1]))
                 IN  [a |-> a, b |-> u16(sums[k - 1].b + a)]
        all == sums[hashWindow - 1]
    IN  [a |-> all.a, b |-> all.b, i |-> 0,
         z |-> [k \in 0 .. hashWindow - 1 |-> char(z[pos + k + 1])]]

hash_next(h, c) ==
    LET old == u16(h.z[h.i])
        a == u16(h.a - old + char(c))
    IN  [a |-> a, b |-> u16(h.b - hashWindow * old + a),
         i |-> (h.i + 1) % hashWindow, z |-> [h.z EXCEPT ![h.i] = char(c)]]

hash_32bit(h) == h.a + h.b * Half

hash_once(z, pos) == hash_32bit(hash_init(z, pos))

Windows == [a : 0 .. Half - 1, b : 0 .. Half - 1, i : 0 .. hashWindow - 1,
            z : [0 .. hashWindow - 1 -> Int]]

\* The tables over the source's blocks, the last one left out when the source ends
\* with it: blocks start short of (int)lenSrc - NHASH.
nHash(src) == Len(src) \div hashWindow
nFiled(src) == IF asInt(src) > hashWindow THEN (asInt(src) - 1) \div hashWindow ELSE 0
Entries(src) == {None} \cup 0 .. nHash(src) - 1

tables(src) ==
    LET empty == [b \in 0 .. nHash(src) - 1 |-> None]
        file[k \in 0 .. nFiled(src)] ==
            IF k = 0 THEN [landmark |-> empty, collide |-> empty]
            ELSE LET t == file[k - 1]
                     hv == hash_once(src, (k - 1) * hashWindow) % nHash(src)
                 IN  [landmark |-> [t.landmark EXCEPT ![hv] = k - 1],
                      collide |-> [t.collide EXCEPT ![k - 1] = t.landmark[hv]]]
    IN  file[nFiled(src)]

Matches == [cnt : Nat, ofst : Nat, litsz : Nat]

\* The match around block b and the window at base + i.
match(src, out, b, base, i) ==
    LET iSrc == b * hashWindow
        back == IF iSrc = 0 THEN 0 ELSE min(iSrc - 1, i)
        k == commonSuffixLen(src, iSrc, out, base + i, back)
    IN  [cnt |-> commonPrefixLen(src, iSrc, out, base + i) + k,
         ofst |-> iSrc - k, litsz |-> i - k]

price(m) == digit_count(m.litsz) + digit_count(m.cnt) + digit_count(m.ofst) + 3

\* The best match of the window at base + i among its bucket's blocks.
best_match(src, out, t, h, base, i) ==
    LET walk[s \in Entries(src) \X (0 .. candidates) \X Matches] ==
            LET b == s[1]
                limit == s[2]
                m == s[3]
                new == match(src, out, b, base, i)
            IN  IF b = None \/ limit = 0 THEN m
                ELSE walk[<<t.collide[b], limit - 1,
                            IF new.cnt >= price(new) /\ new.cnt > m.cnt THEN new ELSE m>>]
    IN  walk[<<t.landmark[hash_32bit(h) % nHash(src)], candidates,
               [cnt |-> 0, ofst |-> 0, litsz |-> 0]>>]

\* The window slides on from base until a match pays, or the target ends.
search(src, out, t, base) ==
    LET slide[s \in Nat \X Windows] ==
            LET i == s[1]
                h == s[2]
                m == best_match(src, out, t, h, base, i)
            IN  IF m.cnt > 0 \/ base + i + hashWindow >= asInt(out) THEN m
                ELSE slide[<<i + 1, hash_next(h, out[base + i + hashWindow + 1])>>]
    IN  slide[<<0, hash_init(out, base)>>]

insert(out, from, to) == putInt(to - from) \o <<Colon>> \o SubSeq(out, from + 1, to)
copy(m) == putInt(m.cnt) \o <<At>> \o putInt(m.ofst) \o <<Comma>>

\* The commands for the target from base on.
commands(src, out) ==
    LET t == tables(src)
        rest[base \in 0 .. Len(out)] ==
            LET m == search(src, out, t, base)
                text == base + m.litsz
            IN  IF base + hashWindow >= asInt(out)
                THEN IF base < asInt(out) THEN insert(out, base, Len(out)) ELSE <<>>
                ELSE IF m.cnt = 0 THEN insert(out, base, Len(out))
                ELSE (IF m.litsz > 0 THEN insert(out, base, text) ELSE <<>>)
                     \o copy(m) \o rest[text + m.cnt]
    IN  rest[0]

delta_create(src, out) ==
    putInt(Len(out)) \o <<NewLine>>
    \o (IF Len(src) <= hashWindow THEN insert(out, 0, Len(out)) ELSE commands(src, out))
    \o putInt(checksumLanes(out)) \o <<Semi>>
=============================================================================
