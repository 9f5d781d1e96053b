--------------------------- MODULE RoundTripProofs ---------------------------
(***************************************************************************)
(* Proofs about RoundTrip.                                                 *)
(*                                                                         *)
(* delta.c's delta_create writes a delta that describes the target, as     *)
(* Encoder does (EncoderProofs); Decoder, given a delta that describes the *)
(* target, follows it (DecoderProofs).  RoundTripInv puts the two ends     *)
(* together: what is on its way describes the target, and what is received *)
(* is followed, whichever source it is applied to.                         *)
(***************************************************************************)
EXTENDS RoundTrip, ReaderProofs

(***************************************************************************)
(* delta_create.  Its hash, its tables and its search need only keep to    *)
(* their types: a match is found byte by byte.                             *)
(***************************************************************************)

\* What putInt writes, digit by digit from the end.
putDigits ==
    CHOOSE g : g = [u \in Words |-> IF u = 0 THEN <<>>
                                    ELSE Append(g[u \div Radix], Alphabet[(u % Radix) + 1])]

LEMMA putDigitsIs ==
    /\ putDigits \in [Words -> Seq(Byte)]
    /\ \A u \in Words : putDigits[u] = IF u = 0 THEN <<>>
                                       ELSE Append(putDigits[u \div Radix],
                                                   Alphabet[(u % Radix) + 1])
<1> DEFINE N == Word - 1
           S == Seq(Byte)
           dig == [u \in 0 .. N |-> Alphabet[(u % Radix) + 1]]
           Step(g, u) == IF u = 0 THEN <<>> ELSE Append(g[u \div Radix], Alphabet[(u % Radix) + 1])
           p == [u \in 1 .. N |-> u \div Radix]
           st == [x \in (1 .. N) \X S |-> Append(x[2], dig[x[1]])]
           s0 == <<>>
<1>1. N \in Nat /\ Words = 0 .. N
  BY CodecAssumption DEF Words
<1>2. ASSUME NEW u \in 0 .. N
      PROVE  /\ u \div Radix \in 0 .. N /\ u \div Radix \in Nat
             /\ dig[u] \in Byte
             /\ u # 0 => u \div Radix < u
  <2>1. u \in Nat
    BY <1>1
  <2>2. u \div Radix \in 0 .. u /\ u % Radix \in 0 .. Radix - 1 /\ (u # 0 => u \div Radix < u)
    BY <2>1, DigitSplit
  <2>3. (u % Radix) + 1 \in 1 .. Radix
    BY <2>2, RadixIs
  <2>4. Alphabet[(u % Radix) + 1] \in Byte
    BY <2>3, CodecAssumption DEF Radix
  <2> QED BY <1>1, <2>2, <2>4
<1>3. p \in [1 .. N -> Nat] /\ (\A u \in 1 .. N : p[u] < u) /\ \A u \in 1 .. N : p[u] = u \div Radix
  <2>1. \A u \in 1 .. N : u \in 0 .. N /\ u # 0
    BY <1>1
  <2> QED BY <1>2, <2>1
<1>4. \A u \in 0 .. N : dig[u] = Alphabet[(u % Radix) + 1]
  OBVIOUS
<1>5. st \in [(1 .. N) \X S -> S] /\ \A u \in 1 .. N, x \in S : st[<<u, x>>] = Append(x, dig[u])
  <2>1. \A u \in 1 .. N : dig[u] \in Byte
    <3>1. \A u \in 1 .. N : u \in 0 .. N
      BY <1>1
    <3> QED BY <1>2, <3>1
  <2> HIDE DEF dig, N
  <2> QED BY <2>1
<1> HIDE DEF N, dig, p, st
<1>6. Solvable(N, S, s0, p, st)
  <2>1. s0 \in S
    OBVIOUS
  <2> HIDE DEF S, s0
  <2> QED BY <1>1, <1>3, <1>5, <2>1, RecursionExists
<1>7. PICK f \in [0 .. N -> S] :
          \A u \in 0 .. N : f[u] = IF u = 0 THEN s0 ELSE st[<<u, f[p[u]]>>]
  BY <1>6 DEF Solvable
<1>8. ASSUME NEW u \in 0 .. N PROVE f[u] = Step(f, u)
  <2>1. CASE u = 0
    BY <1>7, <2>1
  <2>2. CASE u # 0
    <3>1. u \in 1 .. N /\ u \div Radix \in 0 .. N /\ p[u] = u \div Radix
      BY <1>1, <1>2, <1>3, <2>2, SMTT(30)
    <3>2. f[u] = st[<<u, f[u \div Radix]>>]
      BY <1>7, <2>2, <3>1
    <3>3. f[u \div Radix] \in S
      BY <3>1
    <3>4. f[u] = Append(f[u \div Radix], dig[u])
      BY <1>5, <3>1, <3>2, <3>3
    <3> QED BY <1>4, <2>2, <3>4
  <2> QED BY <2>1, <2>2
<1>9. f = [u \in Words |-> Step(f, u)]
  <2> HIDE DEF Step
  <2> QED BY <1>1, <1>8
<1>10. putDigits = CHOOSE g : g = [u \in Words |-> Step(g, u)]
  BY DEF putDigits
<1>11. putDigits = [u \in Words |-> Step(putDigits, u)]
  <2> HIDE DEF Step
  <2> QED BY <1>9, <1>10
<1>12. \A u \in Words : putDigits[u] = Step(putDigits, u)
  <2> HIDE DEF Step
  <2> QED BY <1>11
<1>13. \A u \in 0 .. N : putDigits[u] = f[u]
  <2> DEFINE U == {u \in Nat : u <= N => putDigits[u] = f[u]}
  <2>1. ASSUME NEW m \in Nat, \A k \in 0 .. m - 1 : k \in U PROVE m \in U
    <3> SUFFICES ASSUME m <= N PROVE putDigits[m] = f[m]
      OBVIOUS
    <3>1. m \in 0 .. N /\ m \in Words
      BY <1>1
    <3>2. CASE m = 0
      BY <1>8, <1>12, <3>1, <3>2
    <3>3. CASE m # 0
      <4> DEFINE q == m \div Radix
      <4>a. q \in 0 .. N /\ q \in Nat /\ q < m
        BY <1>2, <3>1, <3>3
      <4>1. q \in 0 .. m - 1 /\ q <= N
        <5> HIDE DEF q
        <5> QED BY <1>1, <4>a
      <4>2. putDigits[m \div Radix] = f[m \div Radix]
        BY <2>1, <4>1
      <4> QED BY <1>8, <1>12, <3>1, <4>2
    <3> QED BY <3>2, <3>3
  <2>2. \A u \in Nat : u \in U
    <3> HIDE DEF U
    <3> QED BY <2>1, StrongInduction
  <2> QED BY <1>1, <2>2
<1>14. putDigits = [u \in Words |-> putDigits[u]]
  <2> HIDE DEF Step
  <2> QED BY <1>11
<1>15. putDigits \in [Words -> Seq(Byte)]
  <2>1. \A u \in Words : putDigits[u] \in Seq(Byte)
    BY <1>1, <1>13
  <2> QED BY <1>14, <2>1
<1> QED BY <1>12, <1>15

\* putInt writes the digits appendInt does.
LEMMA putIntIs == ASSUME NEW v \in Words PROVE putInt(v) = digitsOf(v) /\ putInt(v) \in Seq(Byte)
<1> DEFINE g == digitsUpTo(v)
           U == {u \in Nat : u # 0 /\ u <= v => putDigits[u] = g[u]}
<1>1. v \in Nat /\ \A u \in 0 .. v : u \in Words /\ u \in Nat
  BY CodecAssumption DEF Words
<1>2. \A u \in 0 .. v : g[u] = IF u < Radix THEN <<encodeDigit[u]>>
                               ELSE Append(g[u \div Radix], encodeDigit[u % Radix])
  <2>1. g = [u \in 0 .. v |-> IF u < Radix THEN <<encodeDigit[u]>>
                              ELSE Append(g[u \div Radix], encodeDigit[u % Radix])]
    BY <1>1, digitsUpToIs
  <2> HIDE DEF g
  <2> QED BY <2>1
<1> HIDE DEF g
<1>3. \A d \in 0 .. Radix - 1 : encodeDigit[d] = Alphabet[d + 1]
  BY DEF encodeDigit
<1>4. ASSUME NEW m \in Nat, \A k \in 0 .. m - 1 : k \in U PROVE m \in U
  <2> SUFFICES ASSUME m # 0, m <= v PROVE putDigits[m] = g[m]
    OBVIOUS
  <2>1. m \in 0 .. v /\ m \in Words
    BY <1>1
  <2>2. /\ m \div Radix \in 0 .. m - 1 /\ m % Radix \in 0 .. Radix - 1
        /\ m \div Radix \in Nat /\ m \div Radix <= v
    <3>1. m \div Radix \in 0 .. m /\ m % Radix \in 0 .. Radix - 1 /\ m \div Radix < m
      BY DigitSplit
    <3> QED BY <1>1, <3>1
  <2>3. putDigits[m] = Append(putDigits[m \div Radix], encodeDigit[m % Radix])
    BY <1>3, <2>1, <2>2, putDigitsIs
  <2>4. CASE m < Radix
    <3>1. m \div Radix = 0 /\ m % Radix = m
      <4> DEFINE r == Radix
      <4>1. r \in Nat /\ r >= 2 /\ m < r
        BY <2>4, RadixIs
      <4> HIDE DEF r
      <4>2. m \div r = 0 /\ m % r = m
        BY <4>1
      <4> QED BY <4>2 DEF r
    <3>2. putDigits[0] = <<>>
      <4>1. 0 \in Words
        BY <1>1
      <4> QED BY <4>1, putDigitsIs
    <3>3. putDigits[m] = Append(<<>>, encodeDigit[m])
      BY <2>3, <3>1, <3>2
    <3>4. g[m] = <<encodeDigit[m]>>
      BY <1>2, <2>1, <2>4
    <3>5. Append(<<>>, encodeDigit[m]) = <<encodeDigit[m]>>
      OBVIOUS
    <3> QED BY <3>3, <3>4, <3>5
  <2>5. CASE ~ (m < Radix)
    <3>1. m \div Radix # 0
      <4> DEFINE r == Radix
      <4>1. r \in Nat /\ r >= 2 /\ m >= r
        BY <2>5, RadixIs
      <4> HIDE DEF r
      <4>2. m \div r # 0
        BY <4>1
      <4> QED BY <4>2 DEF r
    <3>2. putDigits[m \div Radix] = g[m \div Radix]
      BY <1>4, <2>2, <3>1
    <3> QED BY <1>2, <2>1, <2>3, <2>5, <3>2
  <2> QED BY <2>4, <2>5
<1>5. \A u \in Nat : u \in U
  <2> HIDE DEF U
  <2> QED BY <1>4, StrongInduction
<1>6. putInt(v) = IF v = 0 THEN <<Alphabet[1]>> ELSE putDigits[v]
  BY Zenon DEF putInt, putDigits
<1>7. CASE v = 0
  <2>1. g[0] = <<encodeDigit[0]>> /\ encodeDigit[0] = Alphabet[1]
    BY <1>1, <1>2, <1>3, RadixIs, <1>7
  <2> QED BY <1>1, <1>6, <1>7, <2>1, appendIntIs DEF g, digitsOf
<1>8. CASE v # 0
  <2>1. putDigits[v] = g[v]
    BY <1>1, <1>5, <1>8
  <2> QED BY <1>1, <1>6, <1>8, <2>1, appendIntIs DEF g, digitsOf
<1> QED BY <1>7, <1>8

\* The reference's hash keeps to its types: the sums to u16, the window to NHASH chars.
LEMMA charType == \A c \in Byte : char(c) \in Int
<1> TAKE c \in Byte
<1> DEFINE z == ByteCard \div 2
<1>1. c \in Nat /\ ByteCard \in Nat /\ z \in Nat
  BY CodecAssumption DEF Byte
<1> HIDE DEF z
<1> QED BY <1>1 DEF char, z

LEMMA u16Type == \A v \in Int : u16(v) \in 0 .. Half - 1
<1> TAKE v \in Int
<1> DEFINE H == Half
<1>1. H \in Nat /\ H > 0
  BY HashAssumption
<1> HIDE DEF H
<1>2. v % H \in 0 .. H - 1
  BY <1>1
<1> QED BY <1>2 DEF u16, H

HashSums == [a : 0 .. Half - 1, b : 0 .. Half - 1]

runningSums(z, p) ==
    CHOOSE g : g = [k \in 0 .. hashWindow - 1 |->
        IF k = 0 THEN [a |-> u16(char(z[p + 1])), b |-> u16(char(z[p + 1]))]
        ELSE LET a == u16(g[k - 1].a + char(z[p + k + 1]))
             IN  [a |-> a, b |-> u16(g[k - 1].b + a)]]

LEMMA runningSumsType ==
    ASSUME NEW z \in Seq(Byte), NEW p \in Nat, p + hashWindow <= Len(z)
    PROVE  runningSums(z, p)[hashWindow - 1] \in HashSums
<1> DEFINE N == hashWindow - 1
           H == 0 .. Half - 1
           c == [k \in 0 .. N |-> char(z[p + k + 1])]
           first == u16(char(z[p + 1]))
           s0 == [a |-> first, b |-> first]
           More(x, k) == [a |-> u16(x.a + char(z[p + k + 1])),
                          b |-> u16(x.b + u16(x.a + char(z[p + k + 1])))]
           Step(g, k) == IF k = 0 THEN s0 ELSE More(g[k - 1], k)
           st == [x \in (1 .. N) \X HashSums |-> More(x[2], x[1])]
<1>1. N \in Nat /\ hashWindow \in Nat /\ hashWindow > 0 /\ N + 1 = hashWindow
  BY HashAssumption
<1>2. \A k \in 0 .. N : char(z[p + k + 1]) \in Int
  <2> TAKE k \in 0 .. N
  <2>1. p + k + 1 \in 1 .. Len(z)
    BY <1>1
  <2>2. z[p + k + 1] \in Byte
    BY <2>1
  <2> QED BY <2>2, charType
<1>3. H \subseteq Int
  BY HashAssumption
<1>4. s0 \in HashSums
  <2>1. 0 \in 0 .. N /\ p + 0 + 1 = p + 1
    BY <1>1
  <2>2. char(z[p + 1]) \in Int
    BY <1>2, <2>1
  <2>3. first \in H
    BY <2>2, u16Type
  <2> HIDE DEF first
  <2> QED BY <2>3 DEF HashSums
<1>5. ASSUME NEW k \in 1 .. N, NEW x \in HashSums PROVE More(x, k) \in HashSums
  <2> DEFINE d == char(z[p + k + 1])
             a == u16(x.a + d)
             b == u16(x.b + a)
  <2>1. k \in 0 .. N
    OBVIOUS
  <2>2. d \in Int
    BY <1>2, <2>1
  <2>3. x.a \in Int /\ x.b \in Int
    BY <1>3 DEF HashSums
  <2> HIDE DEF d
  <2>4. a \in H
    <3>1. x.a + d \in Int
      BY <2>2, <2>3
    <3> QED BY <3>1, u16Type
  <2> HIDE DEF a
  <2>5. b \in H
    <3>1. x.b + a \in Int
      BY <1>3, <2>3, <2>4
    <3> QED BY <3>1, u16Type
  <2> HIDE DEF b
  <2>6. [a |-> a, b |-> b] \in HashSums
    BY <2>4, <2>5 DEF HashSums
  <2> QED BY <2>6 DEF a, b, d
<1>6. st \in [(1 .. N) \X HashSums -> HashSums]
      /\ \A k \in 1 .. N, x \in HashSums : st[<<k, x>>] = More(x, k)
  <2> HIDE DEF More, N
  <2> QED BY <1>5
<1> HIDE DEF N, s0, More, st, H
<1>7. Iterable(N, HashSums, s0, st)
  BY <1>1, <1>4, <1>6, IterationExists
<1>8. PICK f \in [0 .. N -> HashSums] :
          f[0] = s0 /\ \A k \in 1 .. N : f[k] = st[<<k, f[k - 1]>>]
  BY <1>7 DEF Iterable
<1>9. ASSUME NEW k \in 0 .. N PROVE f[k] = Step(f, k)
  <2>1. CASE k = 0
    BY <1>8, <2>1
  <2>2. CASE k # 0
    <3>1. k \in 1 .. N /\ k - 1 \in 0 .. N
      BY <1>1, <2>2
    <3>2. f[k - 1] \in HashSums
      BY <3>1
    <3>3. f[k] = st[<<k, f[k - 1]>>]
      BY <1>8, <3>1
    <3>4. f[k] = More(f[k - 1], k)
      BY <1>6, <3>1, <3>2, <3>3
    <3> QED BY <2>2, <3>4
  <2> QED BY <2>1, <2>2
<1>10. f = [k \in 0 .. N |-> Step(f, k)]
  <2> HIDE DEF Step
  <2> QED BY <1>9
<1> DEFINE g == runningSums(z, p)
<1>11. g = CHOOSE e : e = [k \in 0 .. N |-> Step(e, k)]
  BY Zenon DEF runningSums, N, More, s0
<1>12. g = [k \in 0 .. N |-> Step(g, k)]
  <2> HIDE DEF Step, g
  <2> QED BY <1>10, <1>11
<1> HIDE DEF g
<1>13. \A k \in 0 .. N : g[k] = Step(g, k)
  <2> HIDE DEF Step
  <2> QED BY <1>12
<1> DEFINE U == {k \in 0 .. N : g[k] = f[k]}
<1>14. 0 \in U
  <2>1. 0 \in 0 .. N
    BY <1>1
  <2> QED BY <1>9, <1>13, <2>1
<1>15. ASSUME NEW k \in 1 .. N, k - 1 \in U PROVE k \in U
  <2>1. k \in 0 .. N /\ k # 0 /\ g[k - 1] = f[k - 1]
    BY <1>1, <1>15
  <2> QED BY <1>9, <1>13, <2>1
<1>16. \A k \in 0 .. N : k \in U
  <2> HIDE DEF U
  <2> QED BY <1>1, <1>14, <1>15, UpTo
<1>17. N \in 0 .. N
  BY <1>1
<1>18. g[N] \in HashSums
  BY <1>16, <1>17
<1> QED BY <1>18 DEF g, N

LEMMA hash_initType ==
    ASSUME NEW z \in Seq(Byte), NEW p \in Nat, p + hashWindow <= Len(z)
    PROVE  hash_init(z, p) \in Windows
<1> DEFINE s == runningSums(z, p)[hashWindow - 1]
           ring == [k \in 0 .. hashWindow - 1 |-> char(z[p + k + 1])]
<1>1. s \in HashSums
  BY runningSumsType
<1>2. hash_init(z, p) = [a |-> s.a, b |-> s.b, i |-> 0, z |-> ring]
  BY Zenon DEF hash_init, runningSums
<1>3. hashWindow \in Nat /\ hashWindow > 0
  BY HashAssumption
<1>4. ring \in [0 .. hashWindow - 1 -> Int]
  <2> SUFFICES ASSUME NEW k \in 0 .. hashWindow - 1 PROVE char(z[p + k + 1]) \in Int
    OBVIOUS
  <2>1. p + k + 1 \in 1 .. Len(z)
    BY <1>3
  <2>2. z[p + k + 1] \in Byte
    BY <2>1
  <2> QED BY <2>2, charType
<1> HIDE DEF ring, s
<1>5. 0 \in 0 .. hashWindow - 1
  BY <1>3
<1> QED BY <1>1, <1>2, <1>4, <1>5 DEF Windows, HashSums

LEMMA hash_nextType ==
    ASSUME NEW win \in Windows, NEW c \in Byte
    PROVE  hash_next(win, c) \in Windows
<1> DEFINE W == hashWindow
           old == u16(win.z[win.i])
           a == u16(win.a - old + char(c))
           b == u16(win.b - W * old + a)
           at == (win.i + 1) % W
           ring == [win.z EXCEPT ![win.i] = char(c)]
           wa == win.a
           wb == win.b
           wi == win.i
           ch == char(c)
<1>1. W \in Nat /\ W > 0 /\ 0 .. Half - 1 \subseteq Int
  BY HashAssumption
<1>2. wa \in Int /\ wb \in Int /\ wi \in 0 .. W - 1 /\ win.z \in [0 .. W - 1 -> Int]
  BY <1>1 DEF Windows
<1>3. ch \in Int
  BY charType
<1>4. old \in 0 .. Half - 1 /\ old \in Int
  <2>1. win.z[win.i] \in Int
    BY <1>2
  <2> QED BY <1>1, <2>1, u16Type
<1> HIDE DEF old, ch, wa, wb
<1>5. a \in 0 .. Half - 1 /\ a \in Int
  <2>1. wa - old + ch \in Int
    BY <1>2, <1>3, <1>4
  <2> QED BY <1>1, <2>1, u16Type DEF wa, ch
<1> HIDE DEF a
<1>6. b \in 0 .. Half - 1
  <2> HIDE DEF W
  <2>1. wb - W * old + a \in Int
    BY <1>1, <1>2, <1>4, <1>5
  <2> QED BY <1>1, <2>1, u16Type DEF wb
<1>7. at \in 0 .. W - 1
  <2> HIDE DEF W, wi
  <2>1. (wi + 1) % W \in 0 .. W - 1
    BY <1>1, <1>2
  <2> QED BY <2>1 DEF wi
<1>8. ring \in [0 .. W - 1 -> Int]
  <2>1. char(c) \in Int
    BY <1>3 DEF ch
  <2> HIDE DEF W
  <2> QED BY <1>2, <2>1
<1>9. hash_next(win, c) = [a |-> a, b |-> b, i |-> at, z |-> ring]
  BY DEF hash_next, a, old
<1> HIDE DEF b, at, ring
<1> QED BY <1>5, <1>6, <1>7, <1>8, <1>9 DEF Windows

\* A bucket is an index into the tables.
LEMMA bucketIs ==
    ASSUME NEW src \in Seq(Byte), nHash(src) > 0, NEW win \in Windows
    PROVE  hash_32bit(win) % nHash(src) \in 0 .. nHash(src) - 1
<1> DEFINE a == win.a
           b == win.b
           N == nHash(src)
           H == Half
<1>1. a \in Nat /\ b \in Nat /\ H \in Nat
  BY HashAssumption DEF Windows
<1>2. N \in Nat /\ N > 0
  BY HashAssumption DEF nHash
<1> HIDE DEF a, b, N, H
<1>3. a + b * H \in Nat
  BY <1>1
<1>4. (a + b * H) % N \in 0 .. N - 1
  BY <1>2, <1>3
<1> QED BY <1>4 DEF hash_32bit, a, b, N, H

Tables(src) == [landmark : [0 .. nHash(src) - 1 -> Entries(src)],
                collide : [0 .. nHash(src) - 1 -> Entries(src)]]

\* The tables after the first k blocks.
tablesAfter(src) ==
    CHOOSE g : g = [k \in 0 .. nFiled(src) |->
        IF k = 0 THEN [landmark |-> [b \in 0 .. nHash(src) - 1 |-> None],
                       collide |-> [b \in 0 .. nHash(src) - 1 |-> None]]
        ELSE LET t == g[k - 1]
                 hv == hash_once(src, (k - 1) * hashWindow) % nHash(src)
             IN  [landmark |-> [t.landmark EXCEPT ![hv] = k - 1],
                  collide |-> [t.collide EXCEPT ![k - 1] = t.landmark[hv]]]]

\* delta_create's ints are the lengths it is given.
LEMMA asIntIs == ASSUME NEW z \in Seq(Byte), intHolds(z) PROVE asInt(z) = Len(z)
  BY passedIs DEF intHolds

\* The k-th block, counted from one, of a source that has it.
LEMMA BlockWithin ==
    ASSUME NEW len \in Nat, len > 0, NEW k \in 1 .. (len - 1) \div hashWindow
    PROVE  /\ (k - 1) * hashWindow \in Nat
           /\ (k - 1) * hashWindow + hashWindow <= len
           /\ k - 1 \in 0 .. (len \div hashWindow) - 1
<1> DEFINE W == hashWindow
           q == (len - 1) \div W
           y == k * W
<1>1. W \in Nat /\ W > 0
  BY HashAssumption
<1> HIDE DEF W
<1>2. q \in Nat /\ q * W <= len - 1 /\ q <= len \div W /\ len \div W \in Nat
  BY <1>1
<1> HIDE DEF q
<1>3. k \in Nat /\ k >= 1 /\ k <= q
  BY <1>2 DEF q, W
<1>4. \A u, v \in Nat : u <= v => u * W <= v * W
  BY <1>1
<1>5. y \in Nat /\ y <= q * W /\ (k - 1) * W = y - W /\ y >= W
  <2>1. y <= q * W
    BY <1>2, <1>3, <1>4
  <2>2. k - 1 \in Nat /\ (k - 1) * W \in Nat /\ (k - 1) * W + W = k * W
    BY <1>1, <1>3
  <2> QED BY <1>1, <2>1, <2>2
<1>6. q * W \in Nat
  BY <1>1, <1>2
<1>7. y - W \in Nat /\ (y - W) + W <= len
  BY <1>1, <1>2, <1>5, <1>6
<1>8. k - 1 \in 0 .. (len \div W) - 1
  <2> DEFINE z == len \div W
  <2> HIDE DEF z
  <2>1. z \in Nat /\ q <= z
    BY <1>2 DEF z
  <2>2. k - 1 \in 0 .. z - 1
    BY <1>2, <1>3, <2>1
  <2> QED BY <2>2 DEF z
<1> QED BY <1>5, <1>7, <1>8 DEF W

LEMMA tablesType ==
    ASSUME NEW src \in Seq(Byte), intHolds(src), Len(src) > hashWindow
    PROVE  tables(src) \in Tables(src) /\ nHash(src) \in Nat \ {0}
<1> DEFINE N == (Len(src) - 1) \div hashWindow
           M == nHash(src)
           S == Tables(src)
           empty == [b \in 0 .. M - 1 |-> None]
           s0 == [landmark |-> empty, collide |-> empty]
           hv(k) == hash_once(src, (k - 1) * hashWindow) % M
           More(t, k) == [landmark |-> [t.landmark EXCEPT ![hv(k)] = k - 1],
                          collide |-> [t.collide EXCEPT ![k - 1] = t.landmark[hv(k)]]]
           Step(g, k) == IF k = 0 THEN s0 ELSE More(g[k - 1], k)
           st == [x \in (1 .. N) \X S |-> More(x[2], x[1])]
           E == Entries(src)
<1>0. nFiled(src) = N
  <2>1. asInt(src) = Len(src)
    BY asIntIs
  <2> QED BY <2>1 DEF nFiled
<1>1. Len(src) \in Nat /\ Len(src) > 0 /\ hashWindow \in Nat /\ hashWindow > 0
  BY HashAssumption
<1>2. N \in Nat /\ M \in Nat \ {0}
  <2>1. \A x, y \in Nat : y > 0 /\ x > y => (x - 1) \div y \in Nat /\ x \div y \in Nat \ {0}
    OBVIOUS
  <2> QED BY <1>1, <2>1 DEF nHash
<1>3. E = {None} \cup 0 .. M - 1
  BY DEF Entries
<1>4. s0 \in S
  <2>1. empty \in [0 .. M - 1 -> E]
    BY <1>3
  <2> HIDE DEF empty, M, E
  <2> QED BY <2>1 DEF Tables, M, E
<1>5. ASSUME NEW k \in 1 .. N
      PROVE  hv(k) \in 0 .. M - 1 /\ k - 1 \in 0 .. M - 1
  <2>1. /\ (k - 1) * hashWindow \in Nat /\ (k - 1) * hashWindow + hashWindow <= Len(src)
        /\ k - 1 \in 0 .. M - 1
    BY <1>1, BlockWithin DEF nHash
  <2>2. hash_init(src, (k - 1) * hashWindow) \in Windows
    BY <2>1, hash_initType
  <2>3. hv(k) \in 0 .. M - 1
    BY <1>2, <2>2, bucketIs DEF hash_once
  <2> QED BY <2>1, <2>3
<1>6. ASSUME NEW k \in 1 .. N, NEW t \in S PROVE More(t, k) \in S
  <2> DEFINE j == hv(k)
             u == k - 1
  <2>1. j \in 0 .. M - 1 /\ u \in 0 .. M - 1
    BY <1>5
  <2>2. t.landmark \in [0 .. M - 1 -> E] /\ t.collide \in [0 .. M - 1 -> E]
    BY DEF Tables
  <2>3. u \in E
    BY <1>3, <2>1
  <2> HIDE DEF j, u, M, E
  <2>4. t.landmark[j] \in E
    BY <2>1, <2>2
  <2>5. [t.landmark EXCEPT ![j] = u] \in [0 .. M - 1 -> E]
    BY <2>2, <2>3
  <2>6. [t.collide EXCEPT ![u] = t.landmark[j]] \in [0 .. M - 1 -> E]
    BY <2>2, <2>4
  <2>7. [landmark |-> [t.landmark EXCEPT ![j] = u],
         collide |-> [t.collide EXCEPT ![u] = t.landmark[j]]] \in S
    BY <2>5, <2>6 DEF Tables, M, E
  <2> QED BY <2>7 DEF j, u, M
<1>7. st \in [(1 .. N) \X S -> S] /\ \A k \in 1 .. N, t \in S : st[<<k, t>>] = More(t, k)
  <2> HIDE DEF More, N, S
  <2> QED BY <1>6
<1> HIDE DEF N, S, s0, More, st, M
<1>8. Iterable(N, S, s0, st)
  BY <1>2, <1>4, <1>7, IterationExists
<1>9. PICK f \in [0 .. N -> S] : f[0] = s0 /\ \A k \in 1 .. N : f[k] = st[<<k, f[k - 1]>>]
  BY <1>8 DEF Iterable
<1>10. ASSUME NEW k \in 0 .. N PROVE f[k] = Step(f, k)
  <2>1. CASE k = 0
    BY <1>9, <2>1
  <2>2. CASE k # 0
    <3>1. k \in 1 .. N /\ k - 1 \in 0 .. N
      BY <1>2, <2>2
    <3>2. f[k - 1] \in S
      BY <3>1
    <3>3. f[k] = st[<<k, f[k - 1]>>]
      BY <1>9, <3>1
    <3>4. f[k] = More(f[k - 1], k)
      BY <1>7, <3>1, <3>2, <3>3
    <3> QED BY <2>2, <3>4
  <2> QED BY <2>1, <2>2
<1>11. f = [k \in 0 .. N |-> Step(f, k)]
  <2> HIDE DEF Step
  <2> QED BY <1>10
<1> DEFINE g == tablesAfter(src)
<1>12. g = CHOOSE e : e = [k \in 0 .. N |-> Step(e, k)]
  BY Zenon, <1>0 DEF tablesAfter, More, s0, M
<1>13. g = [k \in 0 .. N |-> Step(g, k)]
  <2> HIDE DEF Step, g
  <2> QED BY <1>11, <1>12
<1> HIDE DEF g
<1>14. \A k \in 0 .. N : g[k] = Step(g, k)
  <2> HIDE DEF Step
  <2> QED BY <1>13
<1> DEFINE U == {k \in 0 .. N : g[k] = f[k]}
<1>15. 0 \in U
  <2>1. 0 \in 0 .. N
    BY <1>2
  <2> QED BY <1>10, <1>14, <2>1
<1>16. ASSUME NEW k \in 1 .. N, k - 1 \in U PROVE k \in U
  <2>1. k \in 0 .. N /\ k # 0 /\ g[k - 1] = f[k - 1]
    BY <1>2, <1>16
  <2> QED BY <1>10, <1>14, <2>1
<1>17. \A k \in 0 .. N : k \in U
  <2> HIDE DEF U
  <2> QED BY <1>2, <1>15, <1>16, UpTo
<1>18. N \in 0 .. N
  BY <1>2
<1>19. g[N] \in S
  BY <1>17, <1>18
<1>20. tables(src) = g[N]
  <2>1. tables(src) = g[nFiled(src)]
    BY Zenon DEF tables, tablesAfter, g
  <2> QED BY <1>0, <2>1
<1> QED BY <1>2, <1>19, <1>20 DEF S, M

\* A match, found from a place in the target on, lies within both texts and is the same
\* in both.
Fits(src, out, from, m) ==
    /\ m \in Matches
    /\ m.ofst + m.cnt <= Len(src)
    /\ from + m.litsz + m.cnt <= Len(out)
    /\ \A k \in 1 .. m.cnt : src[m.ofst + k] = out[from + m.litsz + k]

LEMMA NothingFits ==
    ASSUME NEW src \in Seq(Byte), NEW out \in Seq(Byte), NEW from \in 0 .. Len(out)
    PROVE  Fits(src, out, from, [cnt |-> 0, ofst |-> 0, litsz |-> 0])
<1> DEFINE z == [cnt |-> 0, ofst |-> 0, litsz |-> 0]
<1>1. z \in Matches /\ z.cnt = 0 /\ z.ofst = 0 /\ z.litsz = 0
  BY DEF Matches
<1> HIDE DEF z
<1>2. z.ofst + z.cnt <= Len(src) /\ from + z.litsz + z.cnt <= Len(out)
  BY <1>1
<1>3. \A k \in 1 .. z.cnt : src[z.ofst + k] = out[from + z.litsz + k]
  BY <1>1
<1> QED BY <1>1, <1>2, <1>3 DEF Fits, z

LEMMA matchFits ==
    ASSUME NEW src \in Seq(Byte), NEW out \in Seq(Byte),
           NEW b \in 0 .. nHash(src) - 1, NEW from \in Nat, NEW at \in Nat,
           from + at <= Len(out)
    PROVE  Fits(src, out, from, match(src, out, b, from, at))
<1> DEFINE iSrc == b * hashWindow
           y == from + at
           back == IF iSrc = 0 THEN 0 ELSE min(iSrc - 1, at)
           fwd == commonPrefixLen(src, iSrc, out, y)
           k == commonSuffixLen(src, iSrc, out, y, back)
           m == match(src, out, b, from, at)
<1>1. iSrc \in 0 .. Len(src)
  <2> DEFINE W == hashWindow
             L == Len(src)
             q == L \div W
  <2>1. W \in Nat /\ W > 0 /\ L \in Nat
    BY HashAssumption
  <2>2. b \in Nat /\ b <= q - 1
    BY DEF nHash
  <2> HIDE DEF W, L
  <2>3. q \in Nat /\ q * W <= L
    BY <2>1
  <2> HIDE DEF q
  <2>4. \A u, v \in Nat : u <= v => u * W <= v * W
    BY <2>1
  <2>5. b * W <= q * W /\ b * W \in Nat /\ q * W \in Nat
    BY <2>1, <2>2, <2>3, <2>4
  <2>6. b * W \in 0 .. L
    BY <2>1, <2>3, <2>5
  <2> QED BY <2>6 DEF W, L
<1> HIDE DEF iSrc
<1>2. y \in 0 .. Len(out) /\ y = from + at /\ Len(src) \in Nat /\ Len(out) \in Nat
  OBVIOUS
<1> HIDE DEF y
<1>3. back \in Nat /\ back <= at /\ back <= iSrc
  BY <1>1, <1>2 DEF min
<1> HIDE DEF back
<1>4. fwd \in Nat /\ iSrc + fwd <= Len(src) /\ y + fwd <= Len(out)
      /\ AgreeAfter(src, iSrc, out, y, fwd)
  BY <1>1, <1>2, commonPrefixSame DEF AgreeAfter
<1>5. k \in 0 .. back /\ AgreeBefore(src, iSrc, out, y, k)
  BY <1>3, commonSuffixSame DEF AgreeBefore
<1>6. m = [cnt |-> fwd + k, ofst |-> iSrc - k, litsz |-> at - k]
  BY DEF match, iSrc, y, back
<1> HIDE DEF fwd, k, m
<1>7. k \in Nat /\ k <= at /\ k <= iSrc /\ k <= y /\ iSrc \in Nat /\ y \in Nat
  BY <1>1, <1>2, <1>3, <1>5
<1>8. AgreeAfter(src, iSrc - k, out, y - k, fwd + k)
  BY <1>4, <1>5, <1>7, SameAround
<1> DEFINE c == fwd + k
           o == iSrc - k
           l == at - k
<1>9. m.cnt = c /\ m.ofst = o /\ m.litsz = l /\ m = [cnt |-> c, ofst |-> o, litsz |-> l]
  BY <1>6
<1>10. /\ c \in Nat /\ o \in Nat /\ l \in Nat
       /\ o + c <= Len(src) /\ from + l + c <= Len(out)
       /\ from + l = y - k
  BY <1>1, <1>2, <1>4, <1>7
<1> HIDE DEF c, o, l
<1>11. ASSUME NEW j \in 1 .. c PROVE src[o + j] = out[from + l + j]
  <2>1. \A u \in 0 .. c - 1 : src[o + u + 1] = out[(y - k) + u + 1]
    BY <1>8 DEF AgreeAfter, c, o
  <2>2. j - 1 \in 0 .. c - 1 /\ o + (j - 1) + 1 = o + j
        /\ (y - k) + (j - 1) + 1 = from + l + j
    BY <1>2, <1>7, <1>10
  <2> QED BY <2>1, <2>2
<1>12. m \in Matches
  BY <1>9, <1>10 DEF Matches
<1>13. Fits(src, out, from, m)
  BY <1>9, <1>10, <1>11, <1>12 DEF Fits
<1> QED BY <1>13 DEF m

\* What is left to try, and what the walk along a bucket's chain comes to.
WalkAt(src) == Entries(src) \X (0 .. candidates) \X Matches

Walked(src, out, t, from, at) ==
    CHOOSE g : g = [s \in WalkAt(src) |->
        LET b == s[1]
            lim == s[2]
            m == s[3]
            new == match(src, out, b, from, at)
        IN  IF b = None \/ lim = 0 THEN m
            ELSE g[<<t.collide[b], lim - 1,
                     IF new.cnt >= price(new) /\ new.cnt > m.cnt THEN new ELSE m>>]]

LEMMA best_matchFits ==
    ASSUME NEW src \in Seq(Byte), NEW out \in Seq(Byte), NEW t \in Tables(src),
           nHash(src) \in Nat \ {0}, NEW win \in Windows, NEW from \in Nat, NEW at \in Nat,
           from + at <= Len(out)
    PROVE  Fits(src, out, from, best_match(src, out, t, win, from, at))
<1> DEFINE S == WalkAt(src)
           new(b) == match(src, out, b, from, at)
           pick(b, m) == IF new(b).cnt >= price(new(b)) /\ new(b).cnt > m.cnt THEN new(b) ELSE m
           Go == {s \in S : ~ (s[1] = None \/ s[2] = 0)}
           step == [s \in Go |-> <<t.collide[s[1]], s[2] - 1, pick(s[1], s[3])>>]
           left == [s \in S |-> s[2]]
           res == [s \in S |-> s[3]]
           F == {m \in Matches : Fits(src, out, from, m)}
           E == Entries(src)
           M == nHash(src)
<1>1. E = {None} \cup 0 .. M - 1 /\ None \notin 0 .. M - 1 /\ M \in Nat \ {0}
  BY DEF Entries, None
<1>2. t.collide \in [0 .. M - 1 -> E] /\ t.landmark \in [0 .. M - 1 -> E]
  BY DEF Tables
<1> HIDE DEF M, E
<1>3. \A b \in 0 .. M - 1 : new(b) \in F
  <2> TAKE b \in 0 .. M - 1
  <2>1. Fits(src, out, from, new(b))
    BY matchFits DEF M
  <2> HIDE DEF new
  <2> QED BY <2>1 DEF Fits
<1>4. ASSUME NEW b \in 0 .. M - 1, NEW m PROVE pick(b, m) \in F \/ pick(b, m) = m
  <2> HIDE DEF new, F
  <2> QED BY <1>3
<1> HIDE DEF new, pick
<1>5. ASSUME NEW s \in Go
      PROVE  /\ s[1] \in 0 .. M - 1 /\ s[2] \in 1 .. candidates /\ s[3] \in Matches
             /\ t.collide[s[1]] \in E /\ s[2] - 1 \in 0 .. candidates
  <2>1. s \in E \X (0 .. candidates) \X Matches /\ s[1] # None /\ s[2] # 0
    BY <1>5 DEF WalkAt, E
  <2>2. s[1] \in E /\ s[2] \in 0 .. candidates /\ s[3] \in Matches
    BY <2>1
  <2>3. s[1] \in 0 .. M - 1
    BY <1>1, <2>1, <2>2
  <2> DEFINE l == s[2]
  <2>4. l \in 1 .. candidates /\ l - 1 \in 0 .. candidates
    <3>1. l \in 0 .. candidates /\ l # 0
      BY <2>1, <2>2
    <3> HIDE DEF l
    <3> QED BY <3>1 DEF candidates
  <2> HIDE DEF l
  <2> QED BY <1>2, <2>2, <2>3, <2>4 DEF l
<1>6. ASSUME NEW s \in Go PROVE pick(s[1], s[3]) \in Matches
  <2>1. s[1] \in 0 .. M - 1 /\ s[3] \in Matches
    BY <1>5
  <2> QED BY <1>4, <2>1
<1>7. step \in [Go -> S]
  <2>1. ASSUME NEW s \in Go PROVE <<t.collide[s[1]], s[2] - 1, pick(s[1], s[3])>> \in S
    <3>1. t.collide[s[1]] \in E /\ s[2] - 1 \in 0 .. candidates /\ pick(s[1], s[3]) \in Matches
      BY <1>5, <1>6
    <3> HIDE DEF Go
    <3> QED BY <3>1 DEF WalkAt, E
  <2> HIDE DEF Go, S
  <2> QED BY <2>1
<1>8. \A s \in Go : step[s] = <<t.collide[s[1]], s[2] - 1, pick(s[1], s[3])>>
  OBVIOUS
<1>9. left \in [S -> 0 .. candidates] /\ \A s \in S : left[s] = s[2]
  BY DEF WalkAt
<1>10. Shrinks(Go, step, left)
  <2> SUFFICES ASSUME NEW s \in Go PROVE left[step[s]] < left[s]
    BY DEF Shrinks
  <2>1. step[s] \in S /\ s \in S
    BY <1>7
  <2>2. left[step[s]] = step[s][2] /\ left[s] = s[2]
    BY <1>9, <2>1
  <2>3. step[s][2] = s[2] - 1
    BY <1>8
  <2>4. s[2] \in Nat
    BY <1>5
  <2> QED BY <2>2, <2>3, <2>4
<1>11. \A s \in S : res[s] = s[3]
  OBVIOUS
<1>12. Go \in SUBSET S
  OBVIOUS
<1>13. \A s \in S : s \in Go <=> ~ (s[1] = None \/ s[2] = 0)
  OBVIOUS
<1>14. \A s \in S : s[2] \in 0 .. candidates /\ s[3] \in Matches
  BY DEF WalkAt
<1> HIDE DEF S, Go, step, left, res
<1>15. PICK f : HandsOn(S, Go, step, res, f)
  <2>1. candidates \in Nat
    BY DEF candidates
  <2> QED BY <1>7, <1>9, <1>10, <1>12, <2>1, TailRecursionExists
<1> DEFINE g == Walked(src, out, t, from, at)
           Step(e, s) == IF s[1] = None \/ s[2] = 0 THEN s[3]
                         ELSE e[<<t.collide[s[1]], s[2] - 1, pick(s[1], s[3])>>]
<1>16. f = [s \in S |-> Step(f, s)]
  <2>1. f = [s \in S |-> IF s \in Go THEN f[step[s]] ELSE res[s]]
    BY <1>15 DEF HandsOn
  <2>2. \A s \in S : (IF s \in Go THEN f[step[s]] ELSE res[s]) = Step(f, s)
    BY <1>8, <1>11, <1>13
  <2> HIDE DEF Step
  <2>3. [s \in S |-> IF s \in Go THEN f[step[s]] ELSE res[s]] = [s \in S |-> Step(f, s)]
    BY <2>2
  <2> QED BY <2>1, <2>3
<1>17. g = CHOOSE e : e = [s \in S |-> Step(e, s)]
  BY Zenon DEF Walked, S, pick, new
<1>18. g = [s \in S |-> Step(g, s)]
  <2> HIDE DEF Step, g
  <2> QED BY <1>16, <1>17
<1> HIDE DEF g
<1>19. \A s \in S : g[s] = Step(g, s)
  <2> HIDE DEF Step
  <2> QED BY <1>18
<1> DEFINE U == {l \in Nat : \A s \in S : s[2] = l /\ s[3] \in F => g[s] \in F}
<1>20. ASSUME NEW l \in Nat, \A k \in 0 .. l - 1 : k \in U PROVE l \in U
  <2> HIDE DEF F
  <2> SUFFICES ASSUME NEW s \in S, s[2] = l, s[3] \in F PROVE g[s] \in F
    OBVIOUS
  <2>1. CASE s \notin Go
    BY <1>13, <1>19, <2>1
  <2>2. CASE s \in Go
    <3> DEFINE r == <<t.collide[s[1]], s[2] - 1, pick(s[1], s[3])>>
    <3>1. g[s] = g[r]
      BY <1>13, <1>19, <2>2
    <3>2. r \in S
      <4>1. step[s] \in S
        BY <1>7, <2>2
      <4>2. step[s] = r
        BY <1>8, <2>2
      <4> HIDE DEF r
      <4> QED BY ONLY <4>1, <4>2
    <3>3. r[2] = l - 1 /\ l - 1 \in 0 .. l - 1 /\ r[3] = pick(s[1], s[3])
      <4>1. l \in 1 .. candidates
        BY <1>5, <2>2
      <4> QED BY <4>1
    <3>4. r[3] \in F
      <4>1. s[1] \in 0 .. M - 1
        BY <1>5, <2>2
      <4> HIDE DEF r
      <4> QED BY <1>4, <3>3, <4>1
    <3> HIDE DEF r
    <3>5. g[r] \in F
      <4>1. l - 1 \in U
        BY <1>20, <3>3
      <4> QED BY <3>2, <3>3, <3>4, <4>1
    <3> QED BY <3>1, <3>5
  <2> QED BY <2>1, <2>2
<1>21. \A l \in Nat : l \in U
  <2> HIDE DEF U
  <2> QED BY <1>20, StrongInduction
<1> DEFINE hv == hash_32bit(win) % M
           z == [cnt |-> 0, ofst |-> 0, litsz |-> 0]
           s0 == <<t.landmark[hv], candidates, z>>
<1>22. s0 \in S /\ s0[2] = candidates /\ s0[3] = z /\ z \in F /\ candidates \in Nat
  <2>1. hv \in 0 .. M - 1
    BY <1>1, bucketIs DEF M
  <2>2. Fits(src, out, from, z)
    <3>1. from \in 0 .. Len(out)
      OBVIOUS
    <3> QED BY <3>1, NothingFits
  <2> HIDE DEF hv, z
  <2>3. t.landmark[hv] \in E /\ z \in Matches /\ z \in F
    BY <1>2, <2>1, <2>2 DEF Fits
  <2>4. candidates \in 0 .. candidates /\ candidates \in Nat
    BY DEF candidates
  <2> QED BY <2>3, <2>4 DEF S, WalkAt, E
<1>23. g[s0] \in F
  <2> HIDE DEF F, s0, z
  <2>1. candidates \in U
    BY <1>21, <1>22
  <2> QED BY <1>22, <2>1
<1>24. best_match(src, out, t, win, from, at) = g[s0]
  BY Zenon DEF best_match, Walked, g, s0, z, hv, M, WalkAt
<1> QED BY <1>23, <1>24

\* What the window's slide from a place in the target on comes to.
Slid(src, out, t, from) ==
    CHOOSE g : g = [s \in Nat \X Windows |->
        LET at == s[1]
            win == s[2]
            m == best_match(src, out, t, win, from, at)
        IN  IF m.cnt > 0 \/ from + at + hashWindow >= asInt(out) THEN m
            ELSE g[<<at + 1, hash_next(win, out[from + at + hashWindow + 1])>>]]

LEMMA searchFits ==
    ASSUME NEW src \in Seq(Byte), NEW out \in Seq(Byte), intHolds(out), NEW t \in Tables(src),
           nHash(src) \in Nat \ {0}, NEW from \in Nat, from + hashWindow <= Len(out)
    PROVE  Fits(src, out, from, search(src, out, t, from))
<1> DEFINE S == Nat \X Windows
           L == asInt(out)
           W == hashWindow
           found(s) == best_match(src, out, t, s[2], from, s[1])
           Stop(s) == found(s).cnt > 0 \/ from + s[1] + W >= L
           nxt(s) == <<s[1] + 1, hash_next(s[2], out[from + s[1] + W + 1])>>
           Go == {s \in S : ~ Stop(s)}
           step == [s \in Go |-> nxt(s)]
           left == [s \in S |-> IF s[1] <= L THEN L - s[1] ELSE 0]
           res == [s \in S |-> found(s)]
<1>0. L = Len(out)
  BY asIntIs
<1>1. L \in Nat /\ W \in Nat /\ W > 0 /\ from \in Nat /\ from + W <= L
  BY <1>0, HashAssumption
<1>2. ASSUME NEW s \in S PROVE s[1] \in Nat /\ s[2] \in Windows
  OBVIOUS
<1>3. ASSUME NEW s \in S, from + s[1] + W <= L PROVE Fits(src, out, from, found(s))
  <2>1. s[1] \in Nat /\ s[2] \in Windows
    BY <1>2
  <2>2. from + s[1] <= Len(out)
    BY <1>0, <1>1, <1>3, <2>1
  <2> QED BY <2>1, <2>2, best_matchFits
<1>4. ASSUME NEW s \in Go
      PROVE  s[1] \in Nat /\ from + s[1] + W < L /\ nxt(s) \in S
  <2> DEFINE at == s[1]
             c == out[from + at + W + 1]
  <2>1. s \in S /\ ~ (from + at + W >= L)
    OBVIOUS
  <2>2. at \in Nat /\ s[2] \in Windows
    BY <1>2, <2>1
  <2> HIDE DEF at
  <2>3. from + at + W < L /\ at + 1 \in Nat /\ from + at + W + 1 \in 1 .. L
    BY <1>1, <2>1, <2>2
  <2>4. c \in Byte
    BY <1>0, <2>3
  <2> HIDE DEF c
  <2>5. hash_next(s[2], c) \in Windows
    BY <2>2, <2>4, hash_nextType
  <2>6. <<at + 1, hash_next(s[2], c)>> \in S
    BY <2>3, <2>5
  <2> QED BY <2>2, <2>3, <2>6 DEF at, c
<1> HIDE DEF found, W, L
<1>5. step \in [Go -> S] /\ \A s \in Go : step[s] = nxt(s)
  <2> HIDE DEF Go, nxt, S
  <2> QED BY <1>4
<1>6. left \in [S -> 0 .. L] /\ \A s \in S : left[s] = IF s[1] <= L THEN L - s[1] ELSE 0
  <2>1. \A at \in Nat : (IF at <= L THEN L - at ELSE 0) \in 0 .. L
    BY <1>1
  <2> QED BY <1>2, <2>1
<1>7. Shrinks(Go, step, left)
  <2> SUFFICES ASSUME NEW s \in Go PROVE left[step[s]] < left[s]
    BY DEF Shrinks
  <2> DEFINE at == s[1]
  <2>1. at \in Nat /\ from + at + W < L /\ step[s] \in S /\ s \in S /\ step[s] = nxt(s)
    BY <1>4, <1>5
  <2>2. nxt(s)[1] = at + 1
    OBVIOUS
  <2> HIDE DEF at, nxt
  <2>3. at + 1 <= L /\ at <= L
    BY <1>1, <2>1
  <2>4. left[s] = L - at /\ left[step[s]] = L - (at + 1)
    BY <1>6, <2>1, <2>2, <2>3 DEF at
  <2> QED BY <1>1, <2>1, <2>4
<1>8. \A s \in S : res[s] = found(s)
  OBVIOUS
<1>9. Go \in SUBSET S /\ \A s \in S : s \in Go <=> ~ Stop(s)
  OBVIOUS
<1>10. PICK f : HandsOn(S, Go, step, res, f)
  <2> HIDE DEF S, Go, step, left, res
  <2> QED BY <1>1, <1>5, <1>6, <1>7, <1>9, TailRecursionExists
<1> DEFINE g == Slid(src, out, t, from)
           Step(e, s) == IF Stop(s) THEN found(s) ELSE e[nxt(s)]
<1> HIDE DEF S, Go, step, left, res, nxt, Stop
<1>11. f = [s \in S |-> Step(f, s)]
  <2>1. f = [s \in S |-> IF s \in Go THEN f[step[s]] ELSE res[s]]
    BY <1>10 DEF HandsOn
  <2>2. \A s \in S : (IF s \in Go THEN f[step[s]] ELSE res[s]) = Step(f, s)
    BY <1>5, <1>8, <1>9
  <2> HIDE DEF Step
  <2>3. [s \in S |-> IF s \in Go THEN f[step[s]] ELSE res[s]] = [s \in S |-> Step(f, s)]
    BY <2>2
  <2> QED BY <2>1, <2>3
<1>12. g = CHOOSE e : e = [s \in S |-> Step(e, s)]
  BY Zenon DEF Slid, S, Stop, nxt, found, W, L
<1>13. g = [s \in S |-> Step(g, s)]
  <2> HIDE DEF Step, g
  <2> QED BY <1>11, <1>12
<1> HIDE DEF g
<1>14. \A s \in S : g[s] = Step(g, s)
  <2> HIDE DEF Step
  <2> QED BY <1>13
<1> DEFINE U == {l \in Nat : \A s \in S : left[s] = l /\ from + s[1] + W <= L
                                          => Fits(src, out, from, g[s])}
<1>15. ASSUME NEW l \in Nat, \A k \in 0 .. l - 1 : k \in U PROVE l \in U
  <2> SUFFICES ASSUME NEW s \in S, left[s] = l, from + s[1] + W <= L
               PROVE  Fits(src, out, from, g[s])
    OBVIOUS
  <2>1. CASE Stop(s)
    BY <1>3, <1>14, <2>1
  <2>2. CASE ~ Stop(s)
    <3> DEFINE r == nxt(s)
               at == s[1]
    <3>1. s \in Go /\ g[s] = g[r]
      BY <1>9, <1>14, <2>2
    <3>2. r \in S /\ step[s] = r /\ from + at + W < L /\ at \in Nat
      BY <1>4, <1>5, <3>1
    <3>3. r[1] = at + 1
      BY DEF nxt
    <3>4. left[r] < l /\ left[r] \in 0 .. L
      BY <1>6, <1>7, <3>1, <3>2 DEF Shrinks
    <3> HIDE DEF r, at
    <3>5. from + r[1] + W <= L
      <4>1. from + (at + 1) + W <= L
        BY <1>1, <3>2
      <4> QED BY <3>3, <4>1
    <3> DEFINE q == left[r]
    <3>6. q \in U
      <4>1. q \in 0 .. L /\ q < l
        BY <3>4
      <4> HIDE DEF q
      <4>2. q \in 0 .. l - 1
        BY <1>1, <4>1
      <4> QED BY <1>15, <4>2
    <3>7. Fits(src, out, from, g[r])
      BY <3>2, <3>5, <3>6
    <3> QED BY <3>1, <3>7
  <2> QED BY <2>1, <2>2
<1>16. \A l \in Nat : l \in U
  <2> HIDE DEF U
  <2> QED BY <1>15, StrongInduction
<1> DEFINE s0 == <<0, hash_init(out, from)>>
<1>17. s0 \in S /\ s0[1] = 0
  <2>1. hash_init(out, from) \in Windows
    BY hash_initType
  <2> QED BY <2>1 DEF S
<1>18. Fits(src, out, from, g[s0])
  <2> HIDE DEF s0
  <2>1. left[s0] \in Nat /\ from + s0[1] + W <= L
    <3>1. left[s0] \in 0 .. L
      BY <1>6, <1>17
    <3>2. from + 0 + W <= L
      BY <1>1
    <3> QED BY <1>17, <3>1, <3>2
  <2>2. left[s0] \in U
    BY <1>16, <2>1
  <2> QED BY <1>17, <2>1, <2>2
<1>19. search(src, out, t, from) = g[s0]
  BY Zenon DEF search, Slid, g, s0
<1> QED BY <1>18, <1>19

\* What delta_create writes, insert by insert and copy by copy.
LEMMA insertMeans ==
    ASSUME NEW src, NEW out \in Seq(Byte), Len(out) < Word,
           NEW from \in 0 .. Len(out), NEW to \in from .. Len(out)
    PROVE  /\ insert(out, from, to) \in Seq(Byte)
           /\ Commands(insert(out, from, to), src, SubSeq(out, from + 1, to))
<1> DEFINE x == SubSeq(out, from + 1, to)
           num == to - from
           D == digitsOf(num)
<1>1. x \in Seq(Byte) /\ Len(x) = num
  BY PrefixSplits
<1>2. num \in Words /\ num \in Nat
  <2>1. Word \in Nat /\ Len(out) \in Nat
    BY CodecAssumption
  <2> QED BY <2>1 DEF Words
<1>3. putInt(num) = D /\ D \in Seq(Byte) /\ Colon \in Byte
  BY <1>2, putIntIs, CodecAssumption DEF CommandBytes
<1>4. appendInt(<<>>, num, Colon) = <<>> \o Append(D, Colon)
  BY <1>2, appendIntIs
<1>5. insert(out, from, to) = (D \o <<Colon>>) \o x
  BY <1>3 DEF insert
<1> HIDE DEF D, x
<1>6. D \o <<Colon>> = <<>> \o Append(D, Colon)
  BY <1>3
<1>7. appendInt(<<>>, Len(x), Colon) \o x \in Seq(Byte)
      /\ Commands(appendInt(<<>>, Len(x), Colon) \o x, src, x)
  BY <1>1, <1>2, LiteralRebuilds
<1> QED BY <1>1, <1>4, <1>5, <1>6, <1>7 DEF x

LEMMA copyMeans ==
    ASSUME NEW src \in Seq(Byte), Len(src) < Word, NEW out \in Seq(Byte),
           NEW from \in 0 .. Len(out), NEW m, Fits(src, out, from, m)
    PROVE  /\ copy(m) \in Seq(Byte)
           /\ Commands(copy(m), src,
                       SubSeq(out, from + m.litsz + 1, from + m.litsz + m.cnt))
<1> DEFINE num == m.cnt
           o == m.ofst
           y == from + m.litsz
           D == digitsOf(num)
           O == digitsOf(o)
           x == SubSeq(src, o + 1, o + num)
           z == SubSeq(out, y + 1, y + num)
           a == appendInt(<<>>, num, At)
<1>1. /\ num \in Nat /\ o \in Nat /\ m.litsz \in Nat /\ y \in Nat
      /\ o + num <= Len(src) /\ y + num <= Len(out)
      /\ \A k \in 1 .. num : src[o + k] = out[y + k]
  BY DEF Fits, Matches
<1>2. num \in Words /\ o \in Words
  <2>1. Word \in Nat /\ Len(src) \in Nat
    BY CodecAssumption
  <2> HIDE DEF num, o
  <2> QED BY <1>1, <2>1 DEF Words
<1>3. putInt(num) = D /\ D \in Seq(Byte) /\ putInt(o) = O /\ O \in Seq(Byte)
      /\ At \in Byte /\ Comma \in Byte
  BY <1>2, putIntIs, CodecAssumption DEF CommandBytes
<1>4. a = <<>> \o Append(D, At) /\ appendInt(a, o, Comma) = a \o Append(O, Comma)
  BY <1>1, appendIntIs
<1>5. copy(m) = ((D \o <<At>>) \o O) \o <<Comma>>
  BY <1>3 DEF copy
<1>6. appendInt(a, o, Comma) \in Seq(Byte) /\ x \in Seq(Byte) /\ Len(x) = num
      /\ Commands(appendInt(a, o, Comma), src, x)
  BY <1>1, <1>2, CopyRebuilds
<1>7. z \in Seq(Byte) /\ Len(z) = num /\ \A k \in 1 .. num : z[k] = out[y + k]
  <2> HIDE DEF num, y
  <2> QED BY <1>1, Taken
<1>8. \A k \in 1 .. num : x[k] = src[o + k]
  <2> HIDE DEF num, o
  <2> QED BY <1>1, Taken
<1>9. x = z
  <2> HIDE DEF x, z, num, o, y
  <2>1. \A k \in 1 .. num : x[k] = z[k]
    BY <1>1, <1>7, <1>8
  <2> QED BY <1>6, <1>7, <2>1, SeqEqual
<1> HIDE DEF D, O, a
<1>10. ((D \o <<At>>) \o O) \o <<Comma>> = (<<>> \o Append(D, At)) \o Append(O, Comma)
  <2> DEFINE u == D \o <<At>>
             v == <<Comma>>
  <2>1. u \in Seq(Byte) /\ u = <<>> \o Append(D, At) /\ v \in Seq(Byte)
    BY <1>3
  <2>2. O \o v = Append(O, Comma)
    BY <1>3
  <2> HIDE DEF u, v
  <2>3. (u \o O) \o v = u \o (O \o v)
    BY <1>3, <2>1, Associates, SMTT(30)
  <2> QED BY <2>1, <2>2, <2>3 DEF u, v
<1> QED BY <1>4, <1>5, <1>6, <1>9, <1>10

\* A stretch is what comes first in it and what follows.
LEMMA Stretches ==
    ASSUME NEW t \in Seq(Byte), NEW from \in Nat, NEW num \in Nat, NEW o \in Nat,
           from + num + o <= Len(t)
    PROVE  SubSeq(t, from + 1, from + num + o)
           = SubSeq(t, from + 1, from + num) \o SubSeq(t, from + num + 1, from + num + o)
<1> DEFINE y == from + num
           x == SubSeq(t, from + 1, from + (num + o))
           a == SubSeq(t, from + 1, from + num)
           b == SubSeq(t, y + 1, y + o)
           g == a \o b
<1>1. x \in Seq(Byte) /\ Len(x) = num + o /\ \A k \in 1 .. num + o : x[k] = t[from + k]
  <2> DEFINE e == num + o
  <2>1. e \in Nat /\ from + e <= Len(t)
    BY LenProperties
  <2> HIDE DEF e
  <2>2. /\ SubSeq(t, from + 1, from + e) \in Seq(Byte)
        /\ Len(SubSeq(t, from + 1, from + e)) = e
        /\ \A k \in 1 .. e : SubSeq(t, from + 1, from + e)[k] = t[from + k]
    BY <2>1, Taken
  <2> QED BY <2>2 DEF e
<1>2. a \in Seq(Byte) /\ Len(a) = num /\ \A k \in 1 .. num : a[k] = t[from + k]
  <2>1. from + num <= Len(t)
    BY LenProperties
  <2> QED BY <2>1, Taken
<1>3. b \in Seq(Byte) /\ Len(b) = o /\ \A k \in 1 .. o : b[k] = t[y + k]
  <2>1. y \in Nat /\ y + o <= Len(t)
    BY LenProperties
  <2> HIDE DEF y
  <2> QED BY <2>1, Taken
<1> HIDE DEF a, b, x
<1>4. /\ g \in Seq(Byte) /\ Len(g) = num + o
      /\ \A k \in 1 .. num + o : g[k] = IF k <= num THEN a[k] ELSE b[k - num]
  BY <1>2, <1>3, ConcatProperties
<1> HIDE DEF g
<1>5. ASSUME NEW k \in 1 .. num + o PROVE g[k] = x[k]
  <2>1. CASE k <= num
    <3>1. k \in 1 .. num
      BY <2>1
    <3> QED BY <1>1, <1>2, <1>4, <2>1, <3>1
  <2>2. CASE ~ (k <= num)
    <3>1. k - num \in 1 .. o /\ y + (k - num) = from + k
      BY <2>2
    <3>2. b[k - num] = t[from + k]
      BY <1>3, <3>1
    <3> QED BY <1>1, <1>4, <2>2, <3>2
  <2> QED BY <2>1, <2>2
<1>6. g = x
  BY <1>1, <1>4, <1>5, SeqEqual
<1>7. from + (num + o) = from + num + o
  OBVIOUS
<1> QED BY <1>6, <1>7 DEF g, x, a, b

\* What the commands from a place in the target on come to.
Remaining(src, out, t) ==
    CHOOSE g : g = [from \in 0 .. Len(out) |->
        LET m == search(src, out, t, from)
            text == from + m.litsz
        IN  IF from + hashWindow >= asInt(out)
            THEN IF from < asInt(out) THEN insert(out, from, Len(out)) ELSE <<>>
            ELSE IF m.cnt = 0 THEN insert(out, from, Len(out))
            ELSE (IF m.litsz > 0 THEN insert(out, from, text) ELSE <<>>)
                 \o copy(m) \o g[text + m.cnt]]

LEMMA RemainingMeans ==
    ASSUME NEW src \in Seq(Byte), Len(src) < Word, NEW out \in Seq(Byte), Len(out) < Word,
           intHolds(out), NEW t \in Tables(src), nHash(src) \in Nat \ {0}
    PROVE  /\ Remaining(src, out, t)[0] \in Seq(Byte)
           /\ Commands(Remaining(src, out, t)[0], src, out)
<1> DEFINE L == Len(out)
           W == hashWindow
           D == 0 .. L
           found(x) == search(src, out, t, x)
           Stop(x) == x + W >= L \/ found(x).cnt = 0
           last(x) == IF x < L THEN insert(out, x, L) ELSE <<>>
           text(x) == x + found(x).litsz
           after(x) == text(x) + found(x).cnt
           lit(x) == IF found(x).litsz > 0 THEN insert(out, x, text(x)) ELSE <<>>
           piece(x) == lit(x) \o copy(found(x))
           Go == {x \in D : ~ Stop(x)}
           Rest(x) == SubSeq(out, x + 1, L)
           Means(b, x) == b \in Seq(Byte) /\ Commands(b, src, Rest(x))
<1>0. asInt(out) = Len(out)
  BY asIntIs
<1>1. L \in Nat /\ W \in Nat /\ W > 0 /\ L < Word
  BY HashAssumption
<1>2. ASSUME NEW x \in Go
      PROVE  /\ Fits(src, out, x, found(x)) /\ found(x) \in Matches /\ found(x).cnt # 0
             /\ after(x) <= L /\ x < after(x) /\ x \in Nat /\ after(x) \in Nat
  <2>1. x \in Nat /\ x + W <= L /\ ~ (found(x).cnt = 0)
    BY <1>1
  <2>2. Fits(src, out, x, found(x))
    BY <2>1, searchFits
  <2> DEFINE c == found(x).cnt
             l == found(x).litsz
  <2>3. c \in Nat /\ l \in Nat /\ x + l + c <= L /\ c # 0
    BY <2>1, <2>2 DEF Fits, Matches
  <2>4. x + l + c \in Nat /\ x < x + l + c
    <3> HIDE DEF c, l, L
    <3> QED BY <2>1, <2>3
  <2> QED BY <2>1, <2>2, <2>3, <2>4 DEF Fits
<1>3. ASSUME NEW x \in D PROVE Means(last(x), x)
  <2>1. CASE x < L
    <3>1. x \in 0 .. Len(out) /\ L \in x .. Len(out)
      BY <1>1, <2>1
    <3> QED BY <2>1, <3>1, insertMeans
  <2>2. CASE ~ (x < L)
    <3>1. x = L /\ Rest(x) = <<>>
      <4>1. x = L
        BY <1>1, <2>2
      <4>2. x \in 0 .. Len(out) /\ L \in x .. Len(out) /\ L - x = 0
        BY <1>1, <4>1
      <4>3. Rest(x) \in Seq(Byte) /\ Len(Rest(x)) = 0
        BY <4>2, PrefixSplits
      <4> HIDE DEF Rest
      <4> QED BY <4>1, <4>3
    <3>2. <<>> \in Seq(Byte) /\ last(x) = <<>>
      BY <2>2
    <3> HIDE DEF last, Rest
    <3> QED BY <3>1, <3>2, NoCommands
  <2> QED BY <2>1, <2>2
<1>4. ASSUME NEW x \in Go
      PROVE  /\ piece(x) \in Seq(Byte)
             /\ Commands(piece(x), src, SubSeq(out, x + 1, after(x)))
  <2> DEFINE m == found(x)
             c == m.cnt
             l == m.litsz
             y == text(x)
             z == SubSeq(out, x + 1, y)
             v == SubSeq(out, y + 1, y + c)
  <2>1. Fits(src, out, x, m) /\ c \in Nat /\ l \in Nat /\ x \in Nat /\ x + l + c <= L
    BY <1>2 DEF Matches
  <2>2. copy(m) \in Seq(Byte) /\ Commands(copy(m), src, v)
    <3>1. x \in 0 .. Len(out)
      OBVIOUS
    <3> QED BY <2>1, <3>1, copyMeans
  <2>3. y = x + l /\ y \in x .. L /\ x \in 0 .. L
    <3>1. x + l \in x .. L /\ x \in 0 .. L
      <4> HIDE DEF l, c, L
      <4> QED BY <1>1, <2>1
    <3> QED BY <3>1
  <2>4. z \in Seq(Byte) /\ lit(x) \in Seq(Byte) /\ Commands(lit(x), src, z)
    <3>1. z \in Seq(Byte) /\ Len(z) = y - x
      BY <2>3, PrefixSplits
    <3>2. CASE l > 0
      <4>1. lit(x) = insert(out, x, y)
        BY <3>2
      <4>2. insert(out, x, y) \in Seq(Byte) /\ Commands(insert(out, x, y), src, z)
        BY <2>3, insertMeans
      <4> QED BY <3>1, <4>1, <4>2
    <3>3. CASE ~ (l > 0)
      <4>1. lit(x) = <<>>
        BY <3>3
      <4>2. l = 0
        <5> HIDE DEF l
        <5> QED BY <2>1, <3>3
      <4>3. y = x
        BY <2>1, <2>3, <4>2
      <4>4. y - x = 0
        BY <2>1, <4>3
      <4>5. z = <<>>
        <5> HIDE DEF z, y
        <5> QED BY <3>1, <4>4
      <4> HIDE DEF z, lit
      <4> QED BY <3>1, <4>1, <4>5, NoCommands
    <3> QED BY <3>2, <3>3
  <2>5. v \in Seq(Byte)
    <3>1. y \in Nat /\ y + c <= Len(out)
      BY <2>1, <2>3
    <3> HIDE DEF y, c
    <3> QED BY <2>1, <3>1, Taken
  <2>6. SubSeq(out, x + 1, x + l + c) = z \o v
    <3>1. SubSeq(out, x + 1, x + l + c)
          = SubSeq(out, x + 1, x + l) \o SubSeq(out, x + l + 1, x + l + c)
      <4> HIDE DEF l, c
      <4> QED BY <2>1, Stretches DEF L
    <3> QED BY <2>3, <3>1
  <2>7. after(x) = x + l + c
    OBVIOUS
  <2> HIDE DEF z, v, lit, y, l, c, m, text, after
  <2>8. lit(x) \o copy(m) \in Seq(Byte) /\ Commands(lit(x) \o copy(m), src, z \o v)
    BY <2>2, <2>4, <2>5, CommandsFollow
  <2> QED BY <2>6, <2>7, <2>8 DEF m
<1>5. ASSUME NEW x \in Go, NEW b, Means(b, after(x)) PROVE Means(piece(x) \o b, x)
  <2> DEFINE e == after(x)
             z == SubSeq(out, x + 1, e)
  <2>1. x \in 0 .. L /\ e \in x .. L /\ x \in Nat /\ e \in Nat /\ e <= L
    <3>1. x \in Nat /\ e \in Nat /\ x < e /\ e <= L
      BY <1>2
    <3> HIDE DEF e, L
    <3> QED BY <1>1, <3>1
  <2>2. z \in Seq(Byte)
    BY <2>1, PrefixSplits
  <2>3. Rest(e) \in Seq(Byte)
    <3>1. e \in 0 .. Len(out) /\ L \in e .. Len(out)
      <4> HIDE DEF e
      <4> QED BY <1>1, <2>1
    <3> QED BY <3>1, PrefixSplits
  <2>4. Rest(x) = z \o Rest(e)
    <3> DEFINE num == e - x
               o == L - e
    <3>1. num \in Nat /\ o \in Nat /\ x + num = e /\ x + num + o = L /\ x + num + o <= Len(out)
      <4> HIDE DEF e
      <4> QED BY <1>1, <2>1 DEF L
    <3> HIDE DEF num, o, e
    <3>2. SubSeq(out, x + 1, x + num + o)
          = SubSeq(out, x + 1, x + num) \o SubSeq(out, x + num + 1, x + num + o)
      <4>1. x \in Nat /\ out \in Seq(Byte)
        BY <2>1
      <4> QED BY ONLY <3>1, <4>1, Stretches
    <3> QED BY <3>1, <3>2
  <2>5. piece(x) \in Seq(Byte) /\ Commands(piece(x), src, z)
    BY <1>4
  <2> HIDE DEF piece, z, Rest, e
  <2>6. piece(x) \o b \in Seq(Byte) /\ Commands(piece(x) \o b, src, z \o Rest(e))
    BY <1>5, <2>2, <2>3, <2>5, CommandsFollow DEF e
  <2> QED BY <2>4, <2>6
<1> DEFINE Body(g, x) == IF Stop(x) THEN last(x) ELSE piece(x) \o g[after(x)]
           p == [u \in 1 .. L |-> IF L - u \in Go THEN L - after(L - u) ELSE 0]
           s0 == last(L)
           S == Seq(Byte)
           stp(u, b) == IF L - u \in Go THEN piece(L - u) \o b ELSE last(L - u)
           st == [x \in (1 .. L) \X S |-> stp(x[1], x[2])]
<1>6. Go \in SUBSET D /\ (\A x \in D : x \in Go <=> ~ Stop(x)) /\ L \notin Go /\ D = 0 .. L
  <2>1. L + W >= L
    BY <1>1
  <2> QED BY <2>1
<1>7. \A x \in Go : x < after(x) /\ after(x) <= L /\ x \in Nat /\ after(x) \in Nat
  BY <1>2
<1>8. \A x \in D : last(x) \in S
  BY <1>3
<1>9. \A x \in Go : piece(x) \in S
  BY <1>4
<1> HIDE DEF D, Go, Stop, last, piece, after, Means, W, found, text, lit, Rest
<1> USE DEF D
<1>10. p \in [1 .. L -> Nat] /\ \A u \in 1 .. L : p[u] < u
  <2> SUFFICES ASSUME NEW u \in 1 .. L PROVE p[u] \in Nat /\ p[u] < u
    OBVIOUS
  <2>1. CASE L - u \in Go
    <3> DEFINE e == after(L - u)
    <3>1. L - u < e /\ e <= L /\ e \in Nat /\ p[u] = L - e
      BY <1>7, <2>1
    <3> HIDE DEF e, p
    <3> QED BY <1>1, <3>1
  <2>2. CASE L - u \notin Go
    <3>1. p[u] = 0
      BY <2>2
    <3> HIDE DEF p
    <3> QED BY <3>1
  <2> QED BY <2>1, <2>2
<1>11. st \in [(1 .. L) \X S -> S] /\ \A u \in 1 .. L, b \in S : st[<<u, b>>] = stp(u, b)
  <2>1. ASSUME NEW u \in 1 .. L, NEW b \in S PROVE stp(u, b) \in S
    <3>1. L - u \in D
      BY <1>1
    <3>2. CASE L - u \in Go
      <4>1. piece(L - u) \in S
        BY <1>9, <3>2
      <4> QED BY <3>2, <4>1
    <3> QED BY <1>8, <3>1, <3>2
  <2> HIDE DEF stp, S
  <2> QED BY <2>1
<1>12. s0 \in S
  BY <1>1, <1>8
<1>13. \A u \in 1 .. L : p[u] = IF L - u \in Go THEN L - after(L - u) ELSE 0
  OBVIOUS
<1> HIDE DEF p, st, s0
<1>14. Solvable(L, S, s0, p, st)
  <2> HIDE DEF S, L
  <2> QED BY <1>1, <1>10, <1>11, <1>12, RecursionExists
<1>15. PICK f \in [0 .. L -> S] :
          \A u \in 0 .. L : f[u] = IF u = 0 THEN s0 ELSE st[<<u, f[p[u]]>>]
  BY <1>14 DEF Solvable
<1> DEFINE k == [x \in D |-> f[L - x]]
<1>16. ASSUME NEW x \in D PROVE k[x] = Body(k, x)
  <2> DEFINE u == L - x
  <2>1. u \in 0 .. L /\ k[x] = f[u] /\ L - u = x /\ x \in Nat
    BY <1>1
  <2>2. CASE u = 0
    <3>1. x = L
      BY <1>1, <2>1, <2>2
    <3>2. k[x] = last(x) /\ Stop(x)
      BY <1>6, <1>15, <2>1, <2>2, <3>1 DEF s0
    <3> QED BY <3>2
  <2>3. CASE u # 0
    <3>1. u \in 1 .. L /\ p[u] \in 0 .. L
      <4>1. u \in 1 .. L
        BY <1>1, <2>1, <2>3
      <4>2. p[u] \in Nat /\ p[u] < u
        BY <1>10, <4>1
      <4> HIDE DEF u
      <4> QED BY <1>1, <4>1, <4>2
    <3>2. f[u] = stp(u, f[p[u]])
      <4>1. f[p[u]] \in S
        BY <3>1
      <4>2. f[u] = st[<<u, f[p[u]]>>]
        BY <1>15, <2>3, <3>1
      <4> QED BY <1>11, <3>1, <4>1, <4>2
    <3>3. CASE Stop(x)
      <4>1. x \notin Go
        BY <1>6, <3>3
      <4> QED BY <2>1, <3>2, <3>3, <4>1
    <3>4. CASE ~ Stop(x)
      <4>1. x \in Go
        BY <1>6, <3>4
      <4>2. p[u] = L - after(x) /\ f[u] = piece(x) \o f[L - after(x)]
        BY <1>13, <2>1, <3>1, <3>2, <4>1
      <4>3. after(x) \in D
        BY <1>1, <1>7, <4>1
      <4>4. k[after(x)] = f[L - after(x)]
        BY <4>3
      <4> QED BY <2>1, <3>4, <4>2, <4>4
    <3> QED BY <3>3, <3>4
  <2> QED BY <2>2, <2>3
<1>17. k = [x \in D |-> Body(k, x)]
  <2> HIDE DEF Body, D
  <2>1. k = [x \in D |-> k[x]]
    OBVIOUS
  <2> HIDE DEF k
  <2> QED BY <1>16, <2>1
<1> DEFINE g == Remaining(src, out, t)
           Form(e, x) == IF x + W >= L THEN last(x)
                         ELSE IF found(x).cnt = 0 THEN insert(out, x, L)
                         ELSE lit(x) \o copy(found(x)) \o e[after(x)]
<1>18. \A e, x : x \in D => Form(e, x) = Body(e, x)
  <2> TAKE e, x
  <2> SUFFICES ASSUME x \in D PROVE Form(e, x) = Body(e, x)
    OBVIOUS
  <2>1. CASE x + W >= L
    BY <2>1 DEF Stop
  <2>2. CASE ~ (x + W >= L)
    <3>1. x < L
      BY <1>1, <2>2 DEF W
    <3>2. last(x) = insert(out, x, L)
      BY <3>1 DEF last
    <3> QED BY <2>2, <3>2 DEF Stop, piece
  <2> QED BY <2>1, <2>2
<1>19. g = CHOOSE e : e = [x \in D |-> Form(e, x)]
  BY Zenon, <1>0 DEF Remaining, D, W, L, last, found, lit, text, after
<1>20. g = [x \in D |-> Form(g, x)]
  <2>1. [x \in D |-> Form(k, x)] = [x \in D |-> Body(k, x)]
    <3> HIDE DEF Form, Body, D, k
    <3> QED BY <1>18
  <2>2. k = [x \in D |-> Form(k, x)]
    BY <1>17, <2>1
  <2> HIDE DEF Form, D, k, g
  <2> QED BY <1>19, <2>2
<1> HIDE DEF g, k
<1>21. \A x \in D : g[x] = Body(g, x)
  <2>1. \A x \in D : g[x] = Form(g, x)
    <3> HIDE DEF Form
    <3> QED BY <1>20
  <2> HIDE DEF Form, Body
  <2> QED BY <1>18, <2>1
<1> DEFINE U == {u \in Nat : u <= L => Means(g[L - u], L - u)}
<1>22. ASSUME NEW u \in Nat, \A q \in 0 .. u - 1 : q \in U PROVE u \in U
  <2> SUFFICES ASSUME u <= L PROVE Means(g[L - u], L - u)
    OBVIOUS
  <2> DEFINE x == L - u
  <2>1. x \in D
    BY <1>1
  <2>2. CASE Stop(x)
    BY <1>3, <1>21, <2>1, <2>2
  <2>3. CASE ~ Stop(x)
    <3>1. x \in Go /\ g[x] = piece(x) \o g[after(x)]
      BY <1>6, <1>21, <2>1, <2>3
    <3> DEFINE e == after(x)
               q == L - e
    <3>2. e \in Nat /\ e <= L /\ x < e
      BY <1>7, <3>1
    <3>3. q \in 0 .. u - 1 /\ q <= L /\ L - q = e
      <4> HIDE DEF e
      <4> QED BY <1>1, <3>2
    <3>4. Means(g[e], e)
      <4>1. q \in U
        BY <1>22, <3>3
      <4>2. Means(g[L - q], L - q)
        BY <3>3, <4>1
      <4> QED BY <3>3, <4>2
    <3> HIDE DEF x, e
    <3>5. Means(piece(x) \o g[e], x)
      BY <1>5, <3>1, <3>4 DEF e
    <3> QED BY <3>1, <3>5 DEF x, e
  <2> QED BY <2>2, <2>3
<1>23. \A u \in Nat : u \in U
  <2> HIDE DEF U
  <2> QED BY <1>22, StrongInduction
<1>24. Means(g[0], 0)
  <2>1. L \in U /\ L - L = 0 /\ L <= L
    BY <1>1, <1>23
  <2> QED BY <2>1
<1>25. Rest(0) = out
  <2>1. SubSeq(out, 1, Len(out)) = out
    OBVIOUS
  <2> QED BY <2>1 DEF Rest, L
<1> QED BY <1>24, <1>25 DEF Means, g

\* Texts shorter than MaxDigitCount have an int for a length.
LEMMA BelowMaxDigitCount ==
    ASSUME NEW z \in Seq(Byte), Len(z) < MaxDigitCount
    PROVE  Len(z) < Word /\ intHolds(z)
<1> DEFINE num == Len(z)
           most == MaxDigitCount
<1>1. Word \in Nat /\ num \in Nat /\ most \in Nat /\ most <= Word \div 2 /\ num < most
  BY CodecAssumption, DigitCountAssumption
<1> HIDE DEF num, most
<1>2. num < Word /\ num < Word \div 2
  BY <1>1
<1> QED BY <1>2 DEF intHolds, num

\* delta.c's own deltas describe the target, whatever its hash makes of the source's
\* blocks: each match is found byte by byte.  The texts are those for which it returns,
\* whose lengths an int holds as well (delta.c, delta_create; cref.go, MaxDigitCount).
THEOREM delta_createDescribes ==
    ASSUME NEW src \in Seq(Byte), Len(src) < MaxDigitCount,
           NEW out \in Seq(Byte), Len(out) < MaxDigitCount
    PROVE  /\ delta_create(src, out) \in Seq(Byte)
           /\ Describes(delta_create(src, out), src, out)
<1> DEFINE num == Len(out)
           b == IF Len(src) <= hashWindow THEN insert(out, 0, num) ELSE commands(src, out)
           D == digitsOf(num)
           c == checksum(out)
           C == digitsOf(c)
           a == appendInt(<<>>, num, NewLine)
           d == appendInt(a \o b, c, Semi)
<1>0. Len(src) < Word /\ intHolds(src) /\ Len(out) < Word /\ intHolds(out)
  BY BelowMaxDigitCount
<1>1. num \in Words /\ num \in Nat /\ NewLine \in Byte /\ Semi \in Byte
  <2>1. Word \in Nat /\ Len(out) \in Nat
    BY CodecAssumption
  <2> QED BY <1>0, <2>1, CodecAssumption DEF Words, CommandBytes
<1>2. c \in Words /\ c \in Nat /\ checksumLanes(out) = c
  <2>1. c \in Words
    BY checksumType
  <2> QED BY <2>1, LanesAgree, CodecAssumption DEF Words
<1>3. b \in Seq(Byte) /\ Commands(b, src, out)
  <2>1. CASE Len(src) <= hashWindow
    <3>1. 0 \in 0 .. Len(out) /\ num \in 0 .. Len(out)
      BY <1>1
    <3>2. insert(out, 0, num) \in Seq(Byte)
          /\ Commands(insert(out, 0, num), src, SubSeq(out, 0 + 1, num))
      BY <1>0, <3>1, insertMeans
    <3>3. SubSeq(out, 0 + 1, num) = out
      OBVIOUS
    <3> QED BY <2>1, <3>2, <3>3
  <2>2. CASE ~ (Len(src) <= hashWindow)
    <3> DEFINE t == tables(src)
    <3>1. t \in Tables(src) /\ nHash(src) \in Nat \ {0}
      <4>1. Len(src) > hashWindow
        BY <2>2, HashAssumption
      <4> QED BY <1>0, <4>1, tablesType
    <3>2. commands(src, out) = Remaining(src, out, t)[0]
      BY Zenon DEF commands, Remaining, t
    <3> HIDE DEF t
    <3>3. Remaining(src, out, t)[0] \in Seq(Byte)
          /\ Commands(Remaining(src, out, t)[0], src, out)
      BY <1>0, <3>1, RemainingMeans
    <3> QED BY <2>2, <3>2, <3>3
  <2> QED BY <2>1, <2>2
<1>4. d \in Seq(Byte) /\ Describes(d, src, out)
  <2> HIDE DEF b
  <2> QED BY <1>1, <1>3, CommandsDescribe
<1>5. /\ putInt(num) = D /\ D \in Seq(Byte) /\ putInt(c) = C /\ C \in Seq(Byte)
      /\ a = <<>> \o Append(D, NewLine) /\ d = (a \o b) \o Append(C, Semi)
  BY <1>1, <1>2, putIntIs, appendIntIs
<1>6. delta_create(src, out) = ((((D \o <<NewLine>>) \o b) \o C) \o <<Semi>>)
  BY <1>2, <1>5 DEF delta_create
<1> HIDE DEF b, D, C, a, c, num
<1>7. (((D \o <<NewLine>>) \o b) \o C) \o <<Semi>> = d
  <2> DEFINE u == D \o <<NewLine>>
             v == <<Semi>>
             hd == u \o b
  <2>1. u \in Seq(Byte) /\ u = a /\ v \in Seq(Byte) /\ C \o v = Append(C, Semi)
    BY <1>1, <1>5
  <2> HIDE DEF u, v
  <2>2. hd \in Seq(Byte)
    BY <1>3, <2>1, Joined
  <2> HIDE DEF hd
  <2>3. (hd \o C) \o v = hd \o (C \o v)
    <3>1. C \in Seq(Byte)
      BY <1>5
    <3>2. hd \in Seq(Byte) /\ v \in Seq(Byte)
      BY <2>1, <2>2
    <3> QED BY ONLY <3>1, <3>2, Associates
  <2> QED BY <1>5, <2>1, <2>3 DEF u, v, hd
<1> QED BY <1>4, <1>6, <1>7

(***************************************************************************)
(* The instances.  Operators of the format are the same in each.           *)
(***************************************************************************)

EP == INSTANCE EncoderProofs WITH dst <- delta, pc <- created, i <- w, limit <- tries

DP == INSTANCE DecoderProofs WITH origin <- held, pc <- applied,
                                   Origins <- Seq(Byte), Deltas <- Seq(Byte)

\* The decoder of the two instances is the same.
LEMMA DecNext == Dec!Next <=> DP!Next
<1>1. \A b, k : Dec!decodeInt(b, k) = DP!decodeInt(b, k)
  BY Zenon DEF Dec!decodeInt, DP!decodeInt, Dec!digitsEnd, DP!digitsEnd, Dec!decodeDigit,
      DP!decodeDigit, Dec!encodeDigit, DP!encodeDigit, Dec!Byte, DP!Byte,
      Dec!DigitBytes, DP!DigitBytes, Dec!Radix, DP!Radix
<1>2. \A b : Dec!checksum(b) = DP!checksum(b)
  BY Zenon DEF Dec!checksum, DP!checksum, Dec!bigEndian, DP!bigEndian
<1>3. Dec!cmd = DP!cmd /\ Dec!Header = DP!Header
  BY <1>1, Zenon DEF Dec!cmd, DP!cmd, Dec!Header, DP!Header
<1>4. Dec!ofst = DP!ofst
  BY <1>1, <1>3, Zenon DEF Dec!ofst, DP!ofst
<1>5. \A e : Dec!Return(e) <=> DP!Return(e)
  BY Zenon DEF Dec!Return, DP!Return, Dec!args, DP!args
<1>6. /\ Dec!PlanHeader <=> DP!PlanHeader
      /\ Dec!PlanCopy <=> DP!PlanCopy
      /\ Dec!PlanInsert <=> DP!PlanInsert
      /\ Dec!PlanEnd <=> DP!PlanEnd
      /\ Dec!PlanUnknown <=> DP!PlanUnknown
      /\ Dec!PlanUnterminated <=> DP!PlanUnterminated
  BY <1>3, <1>4, <1>5, Zenon DEF Dec!PlanHeader, DP!PlanHeader, Dec!PlanCopy, DP!PlanCopy, Dec!PlanInsert,
      DP!PlanInsert, Dec!PlanEnd, DP!PlanEnd, Dec!PlanUnknown, DP!PlanUnknown,
      Dec!PlanUnterminated, DP!PlanUnterminated, Dec!args, DP!args, Dec!HasByte,
      DP!HasByte, Dec!AtOp, DP!AtOp, Dec!copyUnterminated, DP!copyUnterminated,
      Dec!totalAfter, DP!totalAfter, Dec!copyPastSource, DP!copyPastSource,
      Dec!insertPastDelta, DP!insertPastDelta, Dec!PastCopy, DP!PastCopy,
      Dec!PastInsert, DP!PastInsert, Dec!Advance, DP!Advance
<1>7. /\ Dec!AllocApply <=> DP!AllocApply
      /\ Dec!AllocAppendApply <=> DP!AllocAppendApply
  BY <1>5, Zenon DEF Dec!AllocApply, DP!AllocApply, Dec!AllocAppendApply, DP!AllocAppendApply,
      Dec!args, DP!args, Dec!BeginExec, DP!BeginExec, Dec!zeros, DP!zeros, Dec!tooLong,
      DP!tooLong, Dec!start, DP!start
<1>8. /\ Dec!ExecCopy <=> DP!ExecCopy
      /\ Dec!ExecInsert <=> DP!ExecInsert
      /\ Dec!ExecEnd <=> DP!ExecEnd
  BY <1>3, <1>4, Zenon DEF Dec!ExecCopy, DP!ExecCopy, Dec!ExecInsert, DP!ExecInsert, Dec!ExecEnd, DP!ExecEnd,
      Dec!args, DP!args, Dec!AtOp, DP!AtOp, Dec!HasByte, DP!HasByte, Dec!PastCopy,
      DP!PastCopy, Dec!PastInsert, DP!PastInsert, Dec!CopyToOut, DP!CopyToOut,
      Dec!outAt, DP!outAt, Dec!copied, DP!copied, Dec!start, DP!start
<1>9. Dec!Verify <=> DP!Verify
  BY <1>2, <1>5, Zenon DEF Dec!Verify, DP!Verify, Dec!output, DP!output, Dec!start, DP!start
<1> QED BY <1>6, <1>7, <1>8, <1>9, Zenon DEF Dec!Next, DP!Next

LEMMA EncNext == Enc!Next <=> EP!Next
  BY Zenon DEF Enc!Next, EP!Next, Enc!Unrepresentable, EP!Unrepresentable, Enc!ShortSource,
      EP!ShortSource, Enc!Start, EP!Start, Enc!IndexBlock, EP!IndexBlock, Enc!IndexDone,
      EP!IndexDone, Enc!Outer, EP!Outer, Enc!Probe, EP!Probe, Enc!EmitCopy, EP!EmitCopy,
      Enc!EmitRest, EP!EmitRest, Enc!Slide, EP!Slide, Enc!Finish, EP!Finish, Enc!fitsFormat,
      EP!fitsFormat, Enc!maxFormatLen, EP!maxFormatLen, Enc!lenOut, EP!lenOut, Enc!lenSrc,
      EP!lenSrc, Enc!trailer, EP!trailer, Enc!literal, EP!literal, Enc!cleared, EP!cleared,
      Enc!nBuckets, EP!nBuckets, Enc!nBlocks, EP!nBlocks, Enc!tables, EP!tables,
      Enc!blockHash, EP!blockHash, Enc!bucketIndex, EP!bucketIndex, Enc!HashWord,
      EP!HashWord, Enc!rollValue, EP!rollValue, Enc!rollInit, EP!rollInit, Enc!rollNext,
      EP!rollNext, Enc!Look, EP!Look, Enc!NoMatch, EP!NoMatch, Enc!NoHash, EP!NoHash,
      Enc!candidate, EP!candidate, Enc!price, EP!price, Enc!digitCount, EP!digitCount,
      Enc!digitBits, EP!digitBits, Enc!bitsLen, EP!bitsLen, Enc!twoTo, EP!twoTo,
      Enc!used, EP!used, Enc!appendInt, EP!appendInt, Enc!commonPrefixLen, EP!commonPrefixLen,
      Enc!commonSuffixLen, EP!commonSuffixLen, Enc!backLimit, EP!backLimit, Enc!min, EP!min,
      Enc!Tried, EP!Tried, Enc!copy, EP!copy, Enc!encodeDigit, EP!encodeDigit, Enc!Radix,
      EP!Radix, Enc!checksum, EP!checksum, Enc!bigEndian, EP!bigEndian

\* A delta means the same at both ends, and to delta.c.
LEMMA DescribesBoth == \A d, s, t : EP!Describes(d, s, t) <=> DP!Describes(d, s, t)
<1>1. \A b, k : EP!decodeInt(b, k) = DP!decodeInt(b, k)
  BY Zenon DEF EP!decodeInt, DP!decodeInt, EP!digitsEnd, DP!digitsEnd, EP!decodeDigit,
      DP!decodeDigit, EP!encodeDigit, DP!encodeDigit, EP!Byte, DP!Byte, EP!DigitBytes,
      DP!DigitBytes, EP!Radix, DP!Radix
<1>2. \A b : EP!checksum(b) = DP!checksum(b)
  BY Zenon DEF EP!checksum, DP!checksum, EP!bigEndian, DP!bigEndian
<1>3. EP!Points = DP!Points
  BY DEF EP!Points, DP!Points
<1>4. \A d, t, s : EP!Ends(d, t, s) <=> DP!Ends(d, t, s)
  BY <1>1, <1>2 DEF EP!Ends, DP!Ends
<1>5. \A d, s, t, x, y : EP!Rebuilds(d, s, t, x, y) <=> DP!Rebuilds(d, s, t, x, y)
  <2> TAKE d, s, t, x, y
  <2>1. /\ EP!decodeInt(d, x[1]) = DP!decodeInt(d, x[1])
        /\ EP!decodeInt(d, EP!decodeInt(d, x[1]).next + 1)
              = DP!decodeInt(d, DP!decodeInt(d, x[1]).next + 1)
    BY <1>1
  <2> QED BY <2>1 DEF EP!Rebuilds, DP!Rebuilds
<1>6. \A S, d, s, t : EP!Trail(S, d, s, t) <=> DP!Trail(S, d, s, t)
  BY <1>1, <1>4, <1>5 DEF EP!Trail, DP!Trail
<1> QED BY <1>3, <1>6 DEF EP!Describes, DP!Describes

LEMMA DescribesSame == \A d, s, t : EP!Describes(d, s, t) <=> Describes(d, s, t)
<1>1. \A b, k : EP!decodeInt(b, k) = decodeInt(b, k)
  BY ZenonT(30) DEF EP!decodeInt, decodeInt, EP!digitsEnd, digitsEnd, EP!decodeDigit,
      decodeDigit, EP!encodeDigit, encodeDigit, EP!Byte, Byte, EP!DigitBytes,
      DigitBytes, EP!Radix, Radix
<1>2. \A b : EP!checksum(b) = checksum(b)
  BY Zenon DEF EP!checksum, checksum, EP!bigEndian, bigEndian
<1>3. EP!Points = Points
  BY DEF EP!Points, Points
<1>4. \A d, t, s : EP!Ends(d, t, s) <=> Ends(d, t, s)
  BY <1>1, <1>2 DEF EP!Ends, Ends
<1>5. \A d, s, t, x, y : EP!Rebuilds(d, s, t, x, y) <=> Rebuilds(d, s, t, x, y)
  <2> TAKE d, s, t, x, y
  <2>1. /\ EP!decodeInt(d, x[1]) = decodeInt(d, x[1])
        /\ EP!decodeInt(d, EP!decodeInt(d, x[1]).next + 1)
              = decodeInt(d, decodeInt(d, x[1]).next + 1)
    BY <1>1
  <2> QED BY <2>1 DEF EP!Rebuilds, Rebuilds
<1>6. \A S, d, s, t : EP!Trail(S, d, s, t) <=> Trail(S, d, s, t)
  BY <1>1, <1>4, <1>5 DEF EP!Trail, Trail
<1> QED BY <1>3, <1>6 DEF EP!Describes, Describes

(***************************************************************************)
(* What Encoder and Decoder assume of their constants.                     *)
(***************************************************************************)

LEMMA FormatIs ==
    /\ EP!Byte = Byte /\ EP!Radix = Radix /\ EP!DigitBytes = DigitBytes
    /\ EP!CommandBytes = CommandBytes
    /\ DP!Byte = Byte /\ DP!Radix = Radix /\ DP!DigitBytes = DigitBytes
    /\ DP!CommandBytes = CommandBytes
    /\ EP!twoTo = twoTo /\ DP!twoTo = twoTo
<1>1. EP!twoTo = twoTo /\ DP!twoTo = twoTo
  BY Zenon DEF EP!twoTo, DP!twoTo, twoTo
<1> QED
  BY <1>1 DEF EP!Byte, EP!Radix, EP!DigitBytes, EP!CommandBytes, Byte, Radix, DigitBytes,
     CommandBytes, DP!Byte, DP!Radix, DP!DigitBytes, DP!CommandBytes

LEMMA EncoderConstants ==
    /\ /\ ByteCard \in Nat
       /\ Alphabet \in Seq(EP!Byte)
       /\ \A j, k \in 1 .. EP!Radix : j < k => Alphabet[j] < Alphabet[k]
       /\ EP!CommandBytes \subseteq EP!Byte \ EP!DigitBytes
       /\ At # Colon /\ At # Semi /\ Colon # Semi
       /\ EP!Radix \in Nat \ {0, 1}
       /\ WordBytes \in Nat \ {0}
       /\ Word \in Nat /\ EP!Radix < Word
    /\ Word = ByteCard ^ WordBytes
    /\ 0 \notin EP!DigitBytes \cup EP!CommandBytes
    /\ \E k \in 1 .. EP!Radix : EP!twoTo[k] = EP!Radix
    /\ maxHarnessOutput \in Nat
    /\ /\ hashWindow \in Nat \ {0}
       /\ Half \in Nat \ {0} /\ phi \in Nat
       /\ hashWindow * (hashWindow + 1) * (ByteCard - 1) < 2 * Half
    /\ /\ Pairs \subseteq Seq(EP!Byte) \X Seq(EP!Byte)
       /\ Leftover \subseteq Seq(Nat) \ {<<>>}
       /\ maxCandidates \in Nat
<1>1. \A j, k \in 1 .. EP!Radix : j < k => Alphabet[j] < Alphabet[k]
  BY FormatIs, CodecAssumption
<1>2. \E k \in 1 .. EP!Radix : EP!twoTo[k] = EP!Radix
  BY FormatIs, RadixAssumption
<1> QED BY <1>1, <1>2, FormatIs, CodecAssumption, WordAssumption, ZeroAssumption,
           HashAssumption, HarnessAssumption, RoundTripAssumption

LEMMA DecoderConstants ==
    /\ /\ ByteCard \in Nat
       /\ Alphabet \in Seq(DP!Byte)
       /\ \A j, k \in 1 .. DP!Radix : j < k => Alphabet[j] < Alphabet[k]
       /\ DP!CommandBytes \subseteq DP!Byte \ DP!DigitBytes
       /\ At # Colon /\ At # Semi /\ Colon # Semi
       /\ DP!Radix \in Nat \ {0, 1}
       /\ WordBytes \in Nat \ {0}
       /\ Word \in Nat /\ DP!Radix < Word
    /\ Word = ByteCard ^ WordBytes
    /\ 0 \notin DP!DigitBytes \cup DP!CommandBytes
    /\ \E k \in 1 .. DP!Radix : DP!twoTo[k] = DP!Radix
    /\ maxHarnessOutput \in Nat
    /\ /\ Seq(Byte) \subseteq Seq(DP!Byte)
       /\ Dsts \subseteq DP!Dst /\ \A d \in Dsts : d.len <= Len(d.arr)
       /\ MaxInt \in Nat
<1>1. \A j, k \in 1 .. DP!Radix : j < k => Alphabet[j] < Alphabet[k]
  BY FormatIs, CodecAssumption
<1>2. Dsts \subseteq DP!Dst /\ \A d \in Dsts : d.len <= Len(d.arr)
  BY FormatIs, RoundTripAssumption DEF DP!Dst
<1>3. \E k \in 1 .. DP!Radix : DP!twoTo[k] = DP!Radix
  BY FormatIs, RadixAssumption
<1> QED BY <1>1, <1>2, <1>3, FormatIs, CodecAssumption, WordAssumption, ZeroAssumption,
           HarnessAssumption, RoundTripAssumption

(***************************************************************************)
(* A delta on its way: what Encoder has left describes the target, and so  *)
(* Decoder follows it.                                                     *)
(***************************************************************************)

\* The lengths that a delta can state and an int can index.
InputsFit ==
    /\ origin \in Seq(Byte) /\ target \in Seq(Byte) /\ held \in Seq(Byte)
    /\ Len(origin) < Word /\ Len(target) < Word
    /\ dst.len + Len(target) <= MaxInt

Made == delta \in Seq(Byte) /\ EP!Describes(delta, origin, target)

Followed == \E s, t : s = origin /\ t = target /\ DP!Follows(s, t)

RoundTripInv ==
    /\ InputsFit
    /\ created # "done" => EP!EncInv /\ EP!Rebuilt /\ applied = "idle"
    /\ created = "done" => Made
    /\ applied = "idle" => Dec!Fresh
    /\ applied # "idle" => DP!PlanInv /\ DP!OutputInv /\ Followed
    /\ err # "errOutputTooLarge"

LEMMA EncInitIs == Enc!Init <=> EP!Init
  BY Zenon DEF Enc!Init, EP!Init, Enc!NoMatch, EP!NoMatch, Enc!NoHash, EP!NoHash

LEMMA FreshIs == Dec!Fresh <=> DP!Fresh
  BY Zenon DEF Dec!Fresh, DP!Fresh

LEMMA InitRoundTrip == ASSUME Init PROVE RoundTripInv
<1>1. /\ EP!Init /\ created = "start" /\ Dec!Fresh /\ applied = "idle" /\ err = "nil"
      /\ held \in HeldFor(origin) /\ dst \in Dsts \cup {[arr |-> <<>>, len |-> 0]}
  BY EncInitIs DEF Init, Dec!Fresh, Enc!Init
<1>2. PICK p \in Pairs : origin = p[1] /\ target = p[2]
  BY <1>1 DEF EP!Init
<1>3. InputsFit
  <2>1. p \in Seq(Byte) \X Seq(Byte)
    BY <1>2, RoundTripAssumption
  <2>2. Len(origin) < Word /\ Len(target) < Word /\ held \in Seq(Byte) /\ Len(target) <= MaxInt
    BY <1>1, <1>2, RoundTripAssumption
  <2>3. dst.len + Len(target) <= MaxInt
    <3>1. CASE dst \in Dsts
      BY <1>2, <3>1, RoundTripAssumption
    <3>2. CASE dst = [arr |-> <<>>, len |-> 0]
      BY <2>1, <2>2, <1>2, <3>2
    <3> QED BY <1>1, <3>1, <3>2
  <2> QED BY <1>2, <2>1, <2>2, <2>3 DEF InputsFit
<1>4. EP!EncInv
  BY <1>1, EncoderConstants, EP!InitEnc
<1>5. EP!Rebuilt
  BY <1>1, EncoderConstants, EP!InitRebuilt
<1> QED BY <1>1, <1>3, <1>4, <1>5 DEF RoundTripInv

\* What a delta sent finds at the other end.
LEMMA SentStarts ==
    DP!Init /\ Made => DP!PlanInv /\ DP!OutputInv /\ Followed
<1>1. DP!Init => DP!PlanInv /\ DP!OutputInv
  BY DecoderConstants, DP!InitPlanInv, DP!InitOutputInv
<1>2. ASSUME DP!Init, Made PROVE Followed
  <2>1. PICK s, t : s = origin /\ t = target
    OBVIOUS
  <2>2. DP!Describes(delta, s, t)
    BY <1>2, <2>1, DescribesBoth DEF Made
  <2>3. DP!Follows(s, t)
    BY <1>2, <2>2, DecoderConstants, DP!InitFollows
  <2> QED BY <2>1, <2>3 DEF Followed
<1> QED BY <1>1, <1>2

LEMMA SentStartsNext ==
    (DP!Init /\ Made)' => (DP!PlanInv /\ DP!OutputInv /\ Followed)'
  BY SentStarts, PTL

LEMMA FitsStays ==
    ASSUME InputsFit, UNCHANGED <<origin, target, held, dst>>
    PROVE  InputsFit'
  BY DEF InputsFit

LEMMA CreateKeeps == ASSUME RoundTripInv, Create PROVE RoundTripInv'
<1>1. EP!Next /\ UNCHANGED decoding
  BY EncNext DEF Create
<1>2. created # "done" /\ UNCHANGED <<origin, target>>
  BY <1>1 DEF EP!Next, EP!Unrepresentable, EP!ShortSource, EP!Start, EP!IndexBlock, EP!IndexDone,
     EP!Outer, EP!Probe, EP!EmitCopy, EP!EmitRest, EP!Slide, EP!Finish, EP!Tried
<1>3. /\ UNCHANGED <<held, api, dst, applied, limit, sum, body, i, total, n, mem, home, err, planned>>
      /\ applied = "idle" /\ Dec!Fresh /\ EP!EncInv /\ EP!Rebuilt /\ InputsFit
      /\ err # "errOutputTooLarge"
  BY <1>1, <1>2 DEF RoundTripInv, decoding
<1>4. EP!EncInv' /\ EP!Rebuilt'
  <2>1. EP!EncInv'
    BY <1>1, <1>3, EncoderConstants, EP!EncInductive
  <2>2. EP!Rebuilt'
    BY <1>1, <1>3, EncoderConstants, EP!StepRebuilt
  <2> QED BY <2>1, <2>2
<1>5. Dec!Fresh' /\ InputsFit'
  BY <1>2, <1>3, FitsStays DEF Dec!Fresh
<1>6. created' = "done" => Made'
  <2>1. EP!Representable'
    BY <1>5 DEF InputsFit, EP!Representable, EP!lenOut, EP!lenSrc
  <2>2. delta' \in Seq(Byte)
    BY <1>4 DEF EP!EncInv, EP!TypeOK, EP!Byte, Byte
  <2>3. created' = "done" => EP!Describes(delta, origin, target)'
    BY <1>4, <2>1 DEF EP!Rebuilt
  <2> QED BY <2>2, <2>3 DEF Made
<1> QED BY <1>3, <1>4, <1>5, <1>6 DEF RoundTripInv

LEMMA CreateInCKeeps == ASSUME RoundTripInv, CreateInC PROVE RoundTripInv'
<1>1. /\ created = "start" /\ created' = "done" /\ delta' = delta_create(origin, target)
      /\ UNCHANGED <<origin, target, held, api, dst, applied, limit, sum, body, i, total, n, mem,
                     home, err, planned>>
  BY DEF CreateInC, decoding
<1>2. applied = "idle" /\ Dec!Fresh /\ InputsFit /\ err # "errOutputTooLarge"
  BY <1>1 DEF RoundTripInv
<1>3. delta' \in Seq(Byte) /\ Describes(delta', origin, target)
  <2>1. Len(origin) < MaxDigitCount /\ Len(target) < MaxDigitCount
    BY DEF CreateInC
  <2>2. origin \in Seq(Byte) /\ target \in Seq(Byte)
    BY <1>2 DEF InputsFit
  <2> QED BY <1>1, <2>1, <2>2, delta_createDescribes
<1>4. Made'
  <2>1. EP!Describes(delta', origin, target)
    BY <1>3, DescribesSame
  <2>2. EP!Describes(delta', origin', target')
    BY <1>1, <2>1
  <2>3. (delta \in Seq(Byte))'
    BY <1>3
  <2> QED BY <2>2, <2>3 DEF Made
<1>5. Dec!Fresh' /\ InputsFit'
  BY <1>1, <1>2, FitsStays DEF Dec!Fresh
<1> QED BY <1>1, <1>2, <1>4, <1>5 DEF RoundTripInv

LEMMA SendKeeps == ASSUME RoundTripInv, Send PROVE RoundTripInv'
<1>1. /\ created = "done" /\ applied = "idle" /\ applied' = "header"
      /\ UNCHANGED <<delta, origin, target, created, held, api, dst, limit, sum, body, i, total,
                     n, mem, home, err, planned>>
  BY DEF Send, encoding
<1>2. Made /\ Dec!Fresh /\ InputsFit /\ err # "errOutputTooLarge"
  BY <1>1 DEF RoundTripInv
<1>3. Made' /\ InputsFit'
  BY <1>1, <1>2, FitsStays DEF Made
<1>4. DP!Init'
  <2>1. DP!Fresh'
    BY <1>1, <1>2, FreshIs DEF DP!Fresh
  <2>2. held' \in Seq(Byte) /\ delta' \in Seq(Byte)
    BY <1>3 DEF Made, InputsFit
  <2> QED BY <1>1, <2>1, <2>2 DEF DP!Init
<1>5. (DP!PlanInv /\ DP!OutputInv /\ Followed)'
  BY <1>3, <1>4, SentStartsNext
<1> QED BY <1>1, <1>2, <1>3, <1>5 DEF RoundTripInv

LEMMA ApplyKeeps == ASSUME RoundTripInv, Apply PROVE RoundTripInv'
<1>1. created = "done" /\ DP!Next /\ UNCHANGED encoding
  BY DecNext DEF Apply
<1>2. /\ applied \in {"header", "plan", "alloc", "exec", "verify"}
      /\ applied' # "idle" /\ UNCHANGED <<held, delta, dst>>
  BY <1>1 DEF DP!Next, DP!PlanHeader, DP!PlanCopy, DP!PlanInsert, DP!PlanEnd, DP!PlanUnknown,
     DP!PlanUnterminated, DP!AllocApply, DP!AllocAppendApply, DP!BeginExec, DP!ExecCopy,
     DP!ExecInsert, DP!ExecEnd, DP!Verify, DP!Return, DP!Advance, DP!args
<1>3. UNCHANGED <<origin, target, created>>
  BY <1>1 DEF encoding
<1>4. /\ DP!PlanInv /\ DP!OutputInv /\ Followed /\ InputsFit /\ Made
      /\ err # "errOutputTooLarge"
  BY <1>1, <1>2 DEF RoundTripInv
<1>5. PICK s, t : s = origin /\ t = target /\ DP!Follows(s, t)
  BY <1>4 DEF Followed
<1>6. t \in Seq(DP!Byte) /\ DP!start + Len(t) <= MaxInt
  BY <1>4, <1>5 DEF InputsFit, DP!start, DP!Byte, Byte
<1>7. DP!PlanInv' /\ DP!OutputInv'
  <2>1. DP!PlanInv'
    BY <1>1, <1>4, DecoderConstants, DP!NextPlanInv
  <2>2. DP!OutputInv'
    BY <1>1, <1>4, DecoderConstants, DP!NextOutputInv
  <2> QED BY <2>1, <2>2
<1>8. DP!Follows(s, t)'
  BY <1>1, <1>4, <1>5, <1>6, DecoderConstants, DP!NextFollows
<1>9. err' # "errOutputTooLarge"
  BY <1>1, <1>4, <1>5, <1>6, DecoderConstants, DP!RoomIsEnough
<1>10. Followed'
  BY <1>3, <1>5, <1>8 DEF Followed
<1>11. InputsFit' /\ Made'
  BY <1>2, <1>3, <1>4, FitsStays DEF Made
<1> QED BY <1>1, <1>2, <1>3, <1>7, <1>9, <1>10, <1>11 DEF RoundTripInv

LEMMA RoundTripAlways == Spec => []RoundTripInv
<1>1. Init => RoundTripInv
  BY InitRoundTrip
<1>2. RoundTripInv /\ [Next]_vars => RoundTripInv'
  <2>1. ASSUME RoundTripInv, UNCHANGED vars PROVE RoundTripInv'
    <3>1. /\ UNCHANGED <<origin, target, delta, created, held, api, dst, applied, err>>
          /\ UNCHANGED <<collide, landmark, blk, base, w, h, next, tries, best, limit, sum, body,
                         i, total, n, mem, home, planned>>
      BY <2>1 DEF vars, encoding, decoding
    <3>2. UNCHANGED EP!vars /\ UNCHANGED DP!vars
      BY <3>1 DEF EP!vars, DP!vars, DP!args, EP!tables
    <3>3. EP!EncInv /\ EP!Rebuilt => EP!EncInv' /\ EP!Rebuilt'
      <4>1. EP!EncInv => EP!EncInv'
        BY <3>2, EncoderConstants, EP!EncInductive
      <4>2. EP!EncInv /\ EP!Rebuilt => EP!Rebuilt'
        BY <3>2, EncoderConstants, EP!StutterRebuilt
      <4> QED BY <4>1, <4>2
    <3>4. DP!PlanInv /\ DP!OutputInv /\ Followed => DP!PlanInv' /\ DP!OutputInv' /\ Followed'
      <4>1. DP!PlanInv => DP!PlanInv'
        BY <3>2, DecoderConstants, DP!NextPlanInv
      <4>2. DP!OutputInv => DP!OutputInv'
        BY <3>2, DecoderConstants, DP!NextOutputInv
      <4>3. ASSUME Followed PROVE Followed'
        <5>1. PICK s, t : s = origin /\ t = target /\ DP!Follows(s, t)
          BY <4>3 DEF Followed
        <5>2. DP!Follows(s, t)'
          BY <3>2, <5>1, DecoderConstants, DP!StutterFollows
        <5> QED BY <3>1, <5>1, <5>2 DEF Followed
      <4> QED BY <4>1, <4>2, <4>3
    <3>5. (InputsFit => InputsFit') /\ (Made => Made') /\ (Dec!Fresh => Dec!Fresh')
      <4>1. InputsFit => InputsFit'
        BY <3>1, FitsStays
      <4>2. Made => Made'
        BY <3>1 DEF Made
      <4>3. Dec!Fresh => Dec!Fresh'
        BY <3>1 DEF Dec!Fresh
      <4> QED BY <4>1, <4>2, <4>3
    <3> QED BY <2>1, <3>1, <3>3, <3>4, <3>5 DEF RoundTripInv
  <2> QED BY <2>1, CreateKeeps, CreateInCKeeps, SendKeeps, ApplyKeeps DEF Next
<1> QED BY <1>1, <1>2, PTL DEF Spec

\* Whatever source it is applied to, a delta that AppendCreate or delta.c made is never
\* found malformed: it applies, or the source's length or the checksum tells (apply.go,
\* Apply).
THEOREM OwnDeltasAreWellFormed == Spec => []OnlyTheSourceIsWrong
<1>1. RoundTripInv => OnlyTheSourceIsWrong
  <2>1. ASSUME RoundTripInv, applied = "idle" PROVE err = "nil"
    BY <2>1 DEF RoundTripInv, Dec!Fresh
  <2>2. ASSUME RoundTripInv, applied # "idle"
        PROVE  err \in {"nil", "ErrChecksumMismatch", "errCopyPastSource"}
    <3>1. Followed /\ err # "errOutputTooLarge"
      BY <2>2 DEF RoundTripInv
    <3>2. PICK s, t : DP!Follows(s, t)
      BY <3>1 DEF Followed
    <3>3. DP!Outcome(s, t)
      BY <3>2 DEF DP!Follows
    <3> QED BY <3>1, <3>3 DEF DP!Outcome
  <2> QED BY <2>1, <2>2 DEF OnlyTheSourceIsWrong
<1> QED BY <1>1, RoundTripAlways, PTL

\* What the round trip looks like from outside.
LEMMA OutputSame == Dec!output = DP!output
  BY DEF Dec!output, DP!output, Dec!start, DP!start

LEMMA ChecksumSame == \A b : T!checksum(b) = DP!checksum(b)
  BY Zenon DEF T!checksum, DP!checksum, T!bigEndian, DP!bigEndian

\* The call returns the target, or something like it, or an error that the wrong source is
\* to blame for.
Arrived ==
    applied = "done" =>
        /\ held = origin => err = "nil" /\ Dec!output = target
        /\ err = "nil" => /\ Len(Dec!output) = Len(target)
                          /\ T!checksum(Dec!output) = T!checksum(target)

LEMMA ArrivedIs == RoundTripInv => Arrived
<1> SUFFICES ASSUME RoundTripInv, applied = "done"
             PROVE  /\ held = origin => err = "nil" /\ Dec!output = target
                    /\ err = "nil" => /\ Len(Dec!output) = Len(target)
                                      /\ T!checksum(Dec!output) = T!checksum(target)
  BY DEF Arrived
<1>1. Followed /\ err # "errOutputTooLarge"
  BY DEF RoundTripInv
<1>2. PICK s, t : s = origin /\ t = target /\ DP!Follows(s, t)
  BY <1>1 DEF Followed
<1>3. DP!Outcome(s, t) /\ DP!Remade(s, t)
  BY <1>2 DEF DP!Follows
<1>4. held = origin => err = "nil" /\ Dec!output = target
  BY <1>1, <1>2, <1>3, OutputSame DEF DP!Outcome, DP!Remade
<1>5. err = "nil" => Len(DP!output) = Len(target) /\ DP!checksum(DP!output) = DP!checksum(target)
  BY <1>2, <1>3 DEF DP!Outcome
<1> QED BY <1>4, <1>5, OutputSame, ChecksumSame

\* Each step is a step of Transfer, or nothing that it can see.
LEMMA StepTransfers ==
    ASSUME RoundTripInv, Arrived', Next
    PROVE  T!TNext \/ UNCHANGED T!tvars
<1>1. CASE Create \/ CreateInC \/ Send
  <2>1. applied = "idle" /\ UNCHANGED <<origin, target, held>> /\ applied' # "done"
    <3>1. CASE Create
      <4>1. EP!Next /\ UNCHANGED decoding
        BY <3>1, EncNext DEF Create
      <4>2. created # "done" /\ UNCHANGED <<origin, target>>
        BY <4>1 DEF EP!Next, EP!Unrepresentable, EP!ShortSource, EP!Start, EP!IndexBlock, EP!IndexDone,
           EP!Outer, EP!Probe, EP!EmitCopy, EP!EmitRest, EP!Slide, EP!Finish, EP!Tried
      <4> QED BY <4>1, <4>2 DEF RoundTripInv, decoding
    <3>2. CASE Send
      BY <3>2 DEF Send, encoding
    <3>3. CASE CreateInC
      BY <3>3 DEF CreateInC, decoding, RoundTripInv
    <3> QED BY <1>1, <3>1, <3>2, <3>3
  <2> QED BY <2>1 DEF T!tvars, Returned
<1>2. CASE Apply
  <2>1. DP!Next /\ UNCHANGED <<origin, target>>
    BY <1>2, DecNext DEF Apply, encoding
  <2>2. applied # "done" /\ held' = held
    BY <2>1 DEF DP!Next, DP!PlanHeader, DP!PlanCopy, DP!PlanInsert, DP!PlanEnd, DP!PlanUnknown,
       DP!PlanUnterminated, DP!AllocApply, DP!AllocAppendApply, DP!BeginExec, DP!ExecCopy,
       DP!ExecInsert, DP!ExecEnd, DP!Verify, DP!Return, DP!Advance, DP!args
  <2>3. CASE applied' # "done"
    BY <2>1, <2>2, <2>3 DEF T!tvars, Returned
  <2>4. CASE applied' = "done"
    <3>1. /\ held' = origin' => err' = "nil" /\ (Dec!output)' = target'
          /\ err' = "nil" => /\ Len((Dec!output)') = Len(target')
                            /\ T!checksum((Dec!output)') = T!checksum(target')
      BY <2>4 DEF Arrived
    <3>2. CASE err' = "nil" /\ held = origin
      <4>1. T!Deliver
        BY <2>1, <2>2, <2>4, <3>1, <3>2 DEF T!Deliver, Returned
      <4> QED BY <4>1 DEF T!TNext
    <3>3. CASE err' = "nil" /\ held # origin
      <4>1. T!Mistake
        BY <2>1, <2>2, <2>4, <3>1, <3>3 DEF T!Mistake, Returned
      <4> QED BY <4>1 DEF T!TNext
    <3>4. CASE err' # "nil"
      <4>1. T!Refuse
        BY <2>1, <2>2, <2>4, <3>1, <3>4 DEF T!Refuse, Returned
      <4> QED BY <4>1 DEF T!TNext
    <3> QED BY <3>2, <3>3, <3>4
  <2> QED BY <2>3, <2>4
<1> QED BY <1>1, <1>2 DEF Next

\* The round trip, with the package's encoder or delta.c's and the package's decoder,
\* implements the safety of Transfer: a target described against a source is had again
\* from that source, and from another at most bytes of its length and checksum.
THEOREM RoundTripTransfers == Spec => T!TInit /\ [][T!TNext]_(T!tvars)
<1>1. Init => T!TInit
  <2> SUFFICES ASSUME Init PROVE T!TInit
    OBVIOUS
  <2>1. applied = "idle" /\ target \in Seq(Byte)
    BY InitRoundTrip DEF Init, RoundTripInv, InputsFit
  <2> QED BY <2>1 DEF T!TInit, Returned, T!Byte, Byte
<1>2. RoundTripInv /\ Arrived' /\ [Next]_vars => [T!TNext]_(T!tvars)
  <2>1. ASSUME UNCHANGED vars PROVE UNCHANGED T!tvars
    <3>1. UNCHANGED <<origin, target, held, applied, err, mem, home, dst, limit>>
      BY <2>1 DEF vars, encoding, decoding
    <3> QED BY <3>1 DEF T!tvars, Returned, Dec!output, Dec!start
  <2> QED BY <2>1, StepTransfers
<1>3. RoundTripInv => Arrived
  BY ArrivedIs
<1> QED BY <1>1, <1>2, <1>3, RoundTripAlways, PTL DEF Spec
=============================================================================
