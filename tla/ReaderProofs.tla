---------------------------- MODULE ReaderProofs ----------------------------
(***************************************************************************)
(* delta.c and the JavaScript decoder each make of a delta what it         *)
(* describes, and take nothing for a delta that describes nothing: for every *)
(* source, every bytes and every target, of whatever length.               *)
(*                                                                         *)
(* Their loops are recursive functions over the position in the delta and  *)
(* what has been written so far.  That there are such functions, and what  *)
(* they return at each command, comes first; then an induction over the    *)
(* bytes that are left follows the points of the delta's trail.            *)
(***************************************************************************)
EXTENDS DeltaJS, CodecProofs, SequenceTheorems

(***************************************************************************)
(* The two ways to the checksum: word by word, and lane by lane.           *)
(***************************************************************************)

LEMMA RestOfMultiple ==
    ASSUME NEW m \in Nat, NEW r \in Nat, NEW w \in Nat, r < w
    PROVE  (m * w + r) % w = r
  OBVIOUS

LEMMA ModOfMultiple ==
    ASSUME NEW m \in Nat, NEW r \in Nat, NEW w \in Nat, w > 0
    PROVE  (m * w + r) % w = r % w
<1> DEFINE q == r \div w
           s == r % w
<1>1. q \in Nat /\ s \in Nat /\ s < w
  OBVIOUS
<1>2. r = q * w + s
  BY DivMod
<1> HIDE DEF q, s
<1>3. m * w + r = (m + q) * w + s /\ m + q \in Nat
  BY <1>1, <1>2
<1>4. ((m + q) * w + s) % w = s
  BY <1>1, <1>3, RestOfMultiple
<1> QED BY <1>3, <1>4 DEF s

\* A sum can be wrapped on the way, or at its end.
LEMMA WrapEarly ==
    ASSUME NEW x \in Nat, NEW y \in Nat
    PROVE  ((x % Word) + y) % Word = (x + y) % Word
<1> DEFINE q == x \div Word
           r == x % Word
<1>1. Word \in Nat /\ Word > 0
  BY CodecAssumption, RadixIs
<1>2. q \in Nat /\ r \in Nat
  BY <1>1
<1>3. x = q * Word + r
  BY <1>1, DivMod
<1> HIDE DEF q, r
<1>4. x + y = q * Word + (r + y) /\ r + y \in Nat
  BY <1>1, <1>2, <1>3
<1>5. (q * Word + (r + y)) % Word = (r + y) % Word
  BY <1>1, <1>2, <1>4, ModOfMultiple, ZenonT(30)
<1> QED BY <1>4, <1>5 DEF r

\* One number for each byte of a word.
Lanes == [1 .. WordBytes -> Nat]

\* The lanes shifted into place, up to each of them.
placed(v) ==
    CHOOSE w : w = [l \in 0 .. WordBytes |->
                      IF l = 0 THEN 0 ELSE w[l - 1] * ByteCard + v[l]]

LEMMA placedIs ==
    ASSUME NEW v \in Lanes
    PROVE  /\ placed(v)[0] = 0
           /\ \A l \in 1 .. WordBytes : placed(v)[l] = placed(v)[l - 1] * ByteCard + v[l]
           /\ \A l \in 0 .. WordBytes : placed(v)[l] \in Nat
<1> DEFINE N == WordBytes
           Step(g, k) == IF k = 0 THEN 0 ELSE g[k - 1] * ByteCard + v[k]
           st == [x \in (1 .. N) \X Nat |-> x[2] * ByteCard + v[x[1]]]
           w == placed(v)
<1>1. N \in Nat /\ \A k \in 1 .. N : v[k] \in Nat
  BY CodecAssumption DEF Lanes
<1> HIDE DEF N
<1>2. \A k \in 1 .. N, s \in Nat : s * ByteCard + v[k] \in Nat
  BY <1>1, ByteIs
<1>3. st \in [(1 .. N) \X Nat -> Nat]
  BY <1>2
<1>4. \A k \in 1 .. N, s \in Nat : st[<<k, s>>] = s * ByteCard + v[k]
  OBVIOUS
<1> HIDE DEF st
<1>5. Iterable(N, Nat, 0, st)
  BY <1>1, <1>3, IterationExists
<1>6. PICK f \in [0 .. N -> Nat] : f[0] = 0 /\ \A k \in 1 .. N : f[k] = st[<<k, f[k - 1]>>]
  BY <1>5 DEF Iterable
<1>7. ASSUME NEW k \in 0 .. N PROVE f[k] = Step(f, k)
  <2>1. CASE k = 0
    BY <1>6, <2>1
  <2>2. CASE k # 0
    <3>1. k \in 1 .. N /\ k - 1 \in 0 .. N
      BY <1>1, <2>2
    <3>2. f[k - 1] \in Nat
      BY <3>1
    <3>3. f[k] = f[k - 1] * ByteCard + v[k]
      BY <1>4, <1>6, <3>1, <3>2
    <3> QED BY <2>2, <3>3
  <2> QED BY <2>1, <2>2
<1>8. f = [k \in 0 .. N |-> Step(f, k)]
  <2> HIDE DEF Step
  <2> QED BY <1>7
<1>9. w = CHOOSE g : g = [k \in 0 .. N |-> Step(g, k)]
  BY Zenon DEF placed, N
<1>10. w = [k \in 0 .. N |-> Step(w, k)]
  <2> HIDE DEF Step, w
  <2> QED BY <1>8, <1>9
<1> HIDE DEF w
<1>11. w[0] = 0 /\ \A k \in 1 .. N : w[k] = w[k - 1] * ByteCard + v[k]
  <2>1. 0 \in 0 .. N /\ \A k \in 1 .. N : k \in 0 .. N /\ k # 0
    BY <1>1
  <2> QED BY <1>10, <2>1
<1> DEFINE T == {k \in Nat : w[k] \in Nat}
<1>12. 0 \in T
  BY <1>11
<1>13. ASSUME NEW k \in 1 .. N, k - 1 \in T PROVE k \in T
  <2>1. k \in Nat /\ w[k - 1] \in Nat
    BY <1>13
  <2> QED BY <1>2, <1>11, <2>1
<1>14. \A k \in 0 .. N : k \in T
  <2> HIDE DEF T
  <2> QED BY <1>1, <1>12, <1>13, UpTo
<1> QED BY <1>11, <1>14 DEF N, w

\* Shifting a sum of lanes is summing the shifted lanes.
LEMMA placedAdds ==
    ASSUME NEW u \in Lanes, NEW v \in Lanes, NEW s \in Lanes,
           \A l \in 1 .. WordBytes : s[l] = u[l] + v[l]
    PROVE  placed(s)[WordBytes] = placed(u)[WordBytes] + placed(v)[WordBytes]
<1> DEFINE N == WordBytes
           T == {k \in Nat : k <= N => placed(s)[k] = placed(u)[k] + placed(v)[k]}
<1>1. N \in Nat
  BY CodecAssumption
<1>2. 0 \in T
  BY placedIs
<1>3. ASSUME NEW k \in 1 .. N, k - 1 \in T PROVE k \in T
  <2> DEFINE a == placed(s)[k - 1]
             b == placed(u)[k - 1]
             c == placed(v)[k - 1]
             x == u[k]
             y == v[k]
  <2>1. k - 1 \in 0 .. N /\ k \in Nat
    BY <1>1
  <2>2. a \in Nat /\ b \in Nat /\ c \in Nat /\ x \in Nat /\ y \in Nat
    BY <2>1, placedIs DEF Lanes
  <2>3. a = b + c
    BY <1>3, <2>1
  <2>4. /\ placed(s)[k] = a * ByteCard + (x + y)
        /\ placed(u)[k] = b * ByteCard + x
        /\ placed(v)[k] = c * ByteCard + y
    BY placedIs
  <2> HIDE DEF a, b, c, x, y
  <2>5. a * ByteCard + (x + y) = (b * ByteCard + x) + (c * ByteCard + y)
    BY <2>2, <2>3, ByteIs
  <2> QED BY <2>1, <2>4, <2>5
<1>4. \A k \in 0 .. N : k \in T
  <2> HIDE DEF T
  <2> QED BY <1>1, <1>2, <1>3, UpTo
<1> QED BY <1>1, <1>4

\* The bytes of a word that is whole, or of which only the first n are there.
wordLanes(b, i, n) == [l \in 1 .. WordBytes |-> IF l <= n THEN b[i + l] ELSE 0]

LEMMA wordLanesType ==
    ASSUME NEW b \in Seq(Byte), NEW i \in Nat, NEW n \in Nat, i + n <= Len(b)
    PROVE  wordLanes(b, i, n) \in Lanes
<1>1. ASSUME NEW l \in 1 .. WordBytes PROVE (IF l <= n THEN b[i + l] ELSE 0) \in Nat
  <2>1. CASE l <= n
    <3>1. i + l \in 1 .. Len(b)
      BY <2>1, CodecAssumption
    <3>2. b[i + l] \in Byte
      BY <3>1
    <3> QED BY <2>1, <3>2, ByteIs
  <2> QED BY <2>1
<1> QED BY <1>1 DEF wordLanes, Lanes

\* A big-endian word is its bytes shifted into place.
LEMMA bigEndianIsPlaced ==
    ASSUME NEW b, NEW i, NEW n
    PROVE  bigEndian(b, i, n) = placed(wordLanes(b, i, n))[WordBytes]
<1> DEFINE v == wordLanes(b, i, n)
           A(w, l) == IF l = 0 THEN 0
                      ELSE w[l - 1] * ByteCard + (IF l <= n THEN b[i + l] ELSE 0)
           B(w, l) == IF l = 0 THEN 0 ELSE w[l - 1] * ByteCard + v[l]
<1>1. ASSUME NEW w, NEW l \in 0 .. WordBytes PROVE A(w, l) = B(w, l)
  <2>1. CASE l = 0
    BY <2>1
  <2>2. CASE l # 0
    <3>1. l \in 1 .. WordBytes
      BY <2>2, CodecAssumption
    <3>2. v[l] = IF l <= n THEN b[i + l] ELSE 0
      BY <3>1 DEF wordLanes
    <3> QED BY <3>2
  <2> QED BY <2>1, <2>2
<1>2. \A w : (w = [l \in 0 .. WordBytes |-> A(w, l)]) <=> (w = [l \in 0 .. WordBytes |-> B(w, l)])
  <2> TAKE w
  <2> HIDE DEF A, B
  <2>1. [l \in 0 .. WordBytes |-> A(w, l)] = [l \in 0 .. WordBytes |-> B(w, l)]
    BY <1>1
  <2> QED BY <2>1
<1>3. (CHOOSE w : w = [l \in 0 .. WordBytes |-> A(w, l)])
        = (CHOOSE w : w = [l \in 0 .. WordBytes |-> B(w, l)])
  <2> HIDE DEF A, B
  <2> QED BY <1>2, Zenon
<1>4. bigEndian(b, i, n) = (CHOOSE w : w = [l \in 0 .. WordBytes |-> A(w, l)])[WordBytes]
  BY Zenon DEF bigEndian
<1>5. placed(v) = CHOOSE w : w = [l \in 0 .. WordBytes |-> B(w, l)]
  BY Zenon DEF placed
<1> QED BY <1>3, <1>4, <1>5

\* The lanes' running sums.
lanesOf(z) ==
    CHOOSE s : s = [k \in 0 .. Len(z) \div WordBytes |->
                      IF k = 0 THEN [l \in 1 .. WordBytes |-> 0]
                      ELSE [l \in 1 .. WordBytes |-> s[k - 1][l] + z[(k - 1) * WordBytes + l]]]

\* Where the words of z lie.
LEMMA WordsFit ==
    ASSUME NEW z \in Seq(Byte)
    PROVE  /\ Len(z) \div WordBytes \in Nat /\ Len(z) % WordBytes \in Nat
           /\ WordBytes \in Nat
           /\ (Len(z) \div WordBytes) * WordBytes \in Nat
           /\ (Len(z) \div WordBytes) * WordBytes + (Len(z) % WordBytes) <= Len(z)
           /\ \A k \in 1 .. Len(z) \div WordBytes :
                 (k - 1) * WordBytes \in Nat /\ (k - 1) * WordBytes + WordBytes <= Len(z)
<1> DEFINE N == Len(z) \div WordBytes
           r == Len(z) % WordBytes
<1>1. WordBytes \in Nat /\ WordBytes > 0 /\ Len(z) \in Nat
  BY CodecAssumption
<1>2. N \in Nat /\ r \in Nat /\ Len(z) = N * WordBytes + r
  BY <1>1, DivMod
<1> HIDE DEF N, r
<1>3. N * WordBytes \in Nat
  BY <1>1, <1>2
<1>4. ASSUME NEW k \in 1 .. N
      PROVE  (k - 1) * WordBytes \in Nat /\ (k - 1) * WordBytes + WordBytes <= Len(z)
  <2>1. k \in Nat /\ k - 1 \in Nat /\ k <= N
    BY <1>2
  <2>2. (k - 1) * WordBytes + WordBytes = k * WordBytes
    BY <1>1, <2>1
  <2>3. k * WordBytes <= N * WordBytes
    BY <1>1, <1>2, <2>1
  <2>4. (k - 1) * WordBytes \in Nat
    BY <1>1, <2>1
  <2> QED BY <1>1, <1>2, <1>3, <2>1, <2>2, <2>3, <2>4
<1> QED BY <1>1, <1>2, <1>3, <1>4 DEF N, r

LEMMA lanesOfIs ==
    ASSUME NEW z \in Seq(Byte)
    PROVE  /\ \A l \in 1 .. WordBytes : lanesOf(z)[0][l] = 0
           /\ \A k \in 1 .. Len(z) \div WordBytes : \A l \in 1 .. WordBytes :
                 lanesOf(z)[k][l] = lanesOf(z)[k - 1][l]
                                      + wordLanes(z, (k - 1) * WordBytes, WordBytes)[l]
           /\ \A k \in 0 .. Len(z) \div WordBytes : lanesOf(z)[k] \in Lanes
<1> DEFINE N == Len(z) \div WordBytes
           zero == [l \in 1 .. WordBytes |-> 0]
           byte(k, l) == z[(k - 1) * WordBytes + l]
           Step(g, k) == IF k = 0 THEN zero ELSE [l \in 1 .. WordBytes |-> g[k - 1][l] + byte(k, l)]
           st == [x \in (1 .. N) \X Lanes |-> [l \in 1 .. WordBytes |-> x[2][l] + byte(x[1], l)]]
           s == lanesOf(z)
<1>1. N \in Nat
  BY WordsFit
<1>2. ASSUME NEW k \in 1 .. N, NEW l \in 1 .. WordBytes PROVE byte(k, l) \in Nat
  <2> DEFINE p == (k - 1) * WordBytes
  <2>1. p \in Nat /\ p + WordBytes <= Len(z) /\ WordBytes \in Nat
    BY WordsFit
  <2> HIDE DEF p
  <2>2. p + l \in 1 .. Len(z)
    BY <2>1
  <2>3. z[p + l] \in Byte
    BY <2>2
  <2> QED BY <2>3, ByteIs DEF p
<1>3. zero \in Lanes
  BY DEF Lanes
<1> HIDE DEF N, byte, zero
<1>4. \A k \in 1 .. N, v \in Lanes : [l \in 1 .. WordBytes |-> v[l] + byte(k, l)] \in Lanes
  BY <1>2 DEF Lanes
<1>5. st \in [(1 .. N) \X Lanes -> Lanes]
  BY <1>4
<1>6. \A k \in 1 .. N, v \in Lanes : st[<<k, v>>] = [l \in 1 .. WordBytes |-> v[l] + byte(k, l)]
  OBVIOUS
<1> HIDE DEF st
<1>7. Iterable(N, Lanes, zero, st)
  BY <1>1, <1>3, <1>5, IterationExists
<1>8. PICK f \in [0 .. N -> Lanes] : f[0] = zero /\ \A k \in 1 .. N : f[k] = st[<<k, f[k - 1]>>]
  BY <1>7 DEF Iterable
<1>9. ASSUME NEW k \in 0 .. N PROVE f[k] = Step(f, k)
  <2>1. CASE k = 0
    BY <1>8, <2>1
  <2>2. CASE k # 0
    <3>1. k \in 1 .. N /\ k - 1 \in 0 .. N
      BY <1>1, <2>2
    <3>2. f[k - 1] \in Lanes
      BY <3>1
    <3>3. f[k] = [l \in 1 .. WordBytes |-> f[k - 1][l] + byte(k, l)]
      BY <1>6, <1>8, <3>1, <3>2
    <3> QED BY <2>2, <3>3
  <2> QED BY <2>1, <2>2
<1>10. f = [k \in 0 .. N |-> Step(f, k)]
  <2> HIDE DEF Step
  <2> QED BY <1>9
<1>11. s = CHOOSE g : g = [k \in 0 .. N |-> Step(g, k)]
  BY Zenon DEF lanesOf, N, zero, byte
<1>12. s = [k \in 0 .. N |-> Step(s, k)]
  <2> HIDE DEF Step, s
  <2> QED BY <1>10, <1>11
<1> HIDE DEF s
<1>13. s[0] = zero
  <2>1. 0 \in 0 .. N
    BY <1>1
  <2> QED BY <1>12, <2>1
<1>14. ASSUME NEW k \in 1 .. N
       PROVE  s[k] = [l \in 1 .. WordBytes |-> s[k - 1][l] + byte(k, l)]
  <2>1. k \in 0 .. N /\ k # 0
    BY <1>1
  <2> QED BY <1>12, <2>1
<1> DEFINE T == {k \in Nat : s[k] \in Lanes}
<1>15. 0 \in T
  BY <1>3, <1>13
<1>16. ASSUME NEW k \in 1 .. N, k - 1 \in T PROVE k \in T
  <2>1. k \in Nat /\ s[k - 1] \in Lanes
    BY <1>16
  <2> QED BY <1>4, <1>14, <2>1
<1>17. \A k \in 0 .. N : k \in T
  <2> HIDE DEF T
  <2> QED BY <1>1, <1>15, <1>16, UpTo
<1>18. \A l \in 1 .. WordBytes : s[0][l] = 0
  BY <1>13 DEF zero
<1>19. ASSUME NEW k \in 1 .. N, NEW l \in 1 .. WordBytes
       PROVE  s[k][l] = s[k - 1][l] + wordLanes(z, (k - 1) * WordBytes, WordBytes)[l]
  <2>1. l <= WordBytes
    BY WordsFit
  <2>2. wordLanes(z, (k - 1) * WordBytes, WordBytes)[l] = byte(k, l)
    BY <2>1 DEF wordLanes, byte
  <2> QED BY <1>14, <2>2, ZenonT(30)
<1> QED BY <1>17, <1>18, <1>19 DEF N, s

\* The sums of the words, wrapped one by one.
sumsOf(b) ==
    CHOOSE sum : sum = [k \in 0 .. Len(b) \div WordBytes |->
                          IF k = 0 THEN 0
                          ELSE (sum[k - 1] + bigEndian(b, (k - 1) * WordBytes, WordBytes)) % Word]

LEMMA sumsOfIs ==
    ASSUME NEW b \in Seq(Byte)
    PROVE  /\ sumsOf(b)[0] = 0
           /\ \A k \in 1 .. Len(b) \div WordBytes :
                 /\ bigEndian(b, (k - 1) * WordBytes, WordBytes) \in Nat
                 /\ sumsOf(b)[k] =
                      (sumsOf(b)[k - 1] + bigEndian(b, (k - 1) * WordBytes, WordBytes)) % Word
<1> DEFINE N == Len(b) \div WordBytes
           word(k) == bigEndian(b, (k - 1) * WordBytes, WordBytes)
           Step(g, k) == IF k = 0 THEN 0 ELSE (g[k - 1] + word(k)) % Word
           sum == sumsOf(b)
           st == [x \in (1 .. N) \X Words |-> (x[2] + word(x[1])) % Word]
<1>1. N \in Nat
  BY WordsFit
<1>2. ASSUME NEW k \in 1 .. N PROVE word(k) \in Nat
  BY WordsFit, bigEndianType
<1> HIDE DEF N, word
<1>3. 0 \in Words /\ Words \subseteq Nat
  BY CodecAssumption, RadixIs DEF Words
<1>4. \A k \in 1 .. N, s \in Words : (s + word(k)) % Word \in Words
  BY <1>2, <1>3, SumInWords
<1>5. st \in [(1 .. N) \X Words -> Words]
  BY <1>4
<1>6. \A k \in 1 .. N, s \in Words : st[<<k, s>>] = (s + word(k)) % Word
  OBVIOUS
<1> HIDE DEF st
<1>7. Iterable(N, Words, 0, st)
  BY <1>1, <1>3, <1>5, IterationExists
<1>8. PICK f \in [0 .. N -> Words] : f[0] = 0 /\ \A k \in 1 .. N : f[k] = st[<<k, f[k - 1]>>]
  BY <1>7 DEF Iterable
<1>9. ASSUME NEW k \in 0 .. N PROVE f[k] = Step(f, k)
  <2>1. CASE k = 0
    BY <1>8, <2>1
  <2>2. CASE k # 0
    <3>1. k \in 1 .. N /\ k - 1 \in 0 .. N
      BY <1>1, <2>2
    <3>2. f[k - 1] \in Words
      BY <3>1
    <3>3. f[k] = (f[k - 1] + word(k)) % Word
      BY <1>6, <1>8, <3>1, <3>2
    <3> QED BY <2>2, <3>3
  <2> QED BY <2>1, <2>2
<1>10. f = [k \in 0 .. N |-> Step(f, k)]
  <2> HIDE DEF Step
  <2> QED BY <1>9
<1>11. sum = CHOOSE g : g = [k \in 0 .. N |-> Step(g, k)]
  BY Zenon DEF sumsOf, N, word
<1>12. sum = [k \in 0 .. N |-> Step(sum, k)]
  <2> HIDE DEF Step, sum
  <2> QED BY <1>10, <1>11
<1> HIDE DEF sum
<1>13. sum[0] = 0
  <2>1. 0 \in 0 .. N
    BY <1>1
  <2> QED BY <1>12, <2>1
<1>14. ASSUME NEW k \in 1 .. N PROVE sum[k] = (sum[k - 1] + word(k)) % Word
  <2>1. k \in 0 .. N /\ k # 0
    BY <1>1
  <2> QED BY <1>12, <2>1
<1> QED BY <1>2, <1>13, <1>14 DEF N, word, sum

\* No lanes, no sum.
LEMMA placedZero ==
    ASSUME NEW v \in Lanes, \A l \in 1 .. WordBytes : v[l] = 0
    PROVE  placed(v)[WordBytes] = 0
<1> DEFINE N == WordBytes
           T == {k \in Nat : k <= N => placed(v)[k] = 0}
<1>1. N \in Nat
  BY CodecAssumption
<1>2. 0 \in T
  BY placedIs
<1>3. ASSUME NEW k \in 1 .. N, k - 1 \in T PROVE k \in T
  <2>1. k \in Nat /\ k - 1 \in 0 .. N
    BY <1>1
  <2>2. placed(v)[k - 1] = 0
    BY <1>3, <2>1
  <2>3. placed(v)[k] = 0 * ByteCard + 0
    BY <2>2, placedIs
  <2> QED BY <2>1, <2>3, ByteIs
<1>4. \A k \in 0 .. N : k \in T
  <2> HIDE DEF T
  <2> QED BY <1>1, <1>2, <1>3, UpTo
<1> QED BY <1>1, <1>4

\* The sum of the first words is their lanes, shifted into place.
LEMMA SumIsPlaced ==
    ASSUME NEW z \in Seq(Byte), NEW k \in 0 .. Len(z) \div WordBytes
    PROVE  sumsOf(z)[k] = placed(lanesOf(z)[k])[WordBytes] % Word
<1> DEFINE N == Len(z) \div WordBytes
           P(j) == placed(lanesOf(z)[j])[WordBytes]
           W(j) == bigEndian(z, (j - 1) * WordBytes, WordBytes)
           T == {j \in Nat : j <= N => sumsOf(z)[j] = P(j) % Word}
<1>1. N \in Nat /\ WordBytes \in Nat
  BY WordsFit
<1>2. 0 \in T
  <2>1. 0 \in 0 .. N
    BY <1>1
  <2>2. lanesOf(z)[0] \in Lanes /\ \A l \in 1 .. WordBytes : lanesOf(z)[0][l] = 0
    BY <2>1, lanesOfIs
  <2>3. P(0) = 0
    BY <2>2, placedZero
  <2>4. 0 % Word = 0
    BY CodecAssumption, RadixIs
  <2> QED BY <2>3, <2>4, sumsOfIs
<1>3. ASSUME NEW j \in 1 .. N, j - 1 \in T PROVE j \in T
  <2>1. j \in Nat /\ j - 1 \in 0 .. N /\ j \in 0 .. N
    BY <1>1
  <2> DEFINE u == lanesOf(z)[j - 1]
             v == wordLanes(z, (j - 1) * WordBytes, WordBytes)
             s == lanesOf(z)[j]
  <2>2. u \in Lanes /\ s \in Lanes
    BY <2>1, lanesOfIs
  <2>3. v \in Lanes
    BY WordsFit, wordLanesType
  <2>4. \A l \in 1 .. WordBytes : s[l] = u[l] + v[l]
    BY lanesOfIs
  <2>5. P(j) = P(j - 1) + W(j)
    <3> HIDE DEF u, v, s
    <3>1. placed(s)[WordBytes] = placed(u)[WordBytes] + placed(v)[WordBytes]
      BY <2>2, <2>3, <2>4, placedAdds
    <3>2. placed(v)[WordBytes] = W(j)
      BY bigEndianIsPlaced DEF v
    <3> QED BY <3>1, <3>2 DEF s, u
  <2>6. W(j) \in Nat /\ sumsOf(z)[j] = (sumsOf(z)[j - 1] + W(j)) % Word
    BY sumsOfIs
  <2>7. P(j - 1) \in Nat
    <3>1. WordBytes \in 0 .. WordBytes
      BY <1>1
    <3> QED BY <2>2, <3>1, placedIs
  <2>8. sumsOf(z)[j - 1] = P(j - 1) % Word
    BY <1>3, <2>1
  <2> HIDE DEF P, W, u, v, s
  <2>9. ((P(j - 1) % Word) + W(j)) % Word = (P(j - 1) + W(j)) % Word
    BY <2>6, <2>7, WrapEarly
  <2> QED BY <2>1, <2>5, <2>6, <2>8, <2>9
<1>4. \A j \in 0 .. N : j \in T
  <2> HIDE DEF T
  <2> QED BY <1>1, <1>2, <1>3, UpTo
<1>5. k \in T /\ k <= N
  BY <1>1, <1>4
<1> QED BY <1>5

\* Reading the bytes word by word gives the sum that delta.c gets by summing each lane
\* of bytes and shifting the sums into place at the end, whatever the bytes and however
\* many (checksum.go: checksum; delta.c: checksum).
THEOREM LanesAgree == ASSUME NEW z \in Seq(Byte) PROVE checksumLanes(z) = checksum(z)
<1> DEFINE full == Len(z) \div WordBytes
           rest == Len(z) % WordBytes
           byte(l) == IF l <= rest THEN z[full * WordBytes + l] ELSE 0
           u == lanesOf(z)[full]
           v == wordLanes(z, full * WordBytes, rest)
           s == [l \in 1 .. WordBytes |-> u[l] + byte(l)]
           A(w, l) == IF l = 0 THEN 0 ELSE w[l - 1] * ByteCard + (u[l] + byte(l))
           B(w, l) == IF l = 0 THEN 0 ELSE w[l - 1] * ByteCard + s[l]
<1>1. full \in Nat /\ rest \in Nat /\ WordBytes \in Nat /\ full \in 0 .. full
  BY WordsFit
<1>2. u \in Lanes
  BY <1>1, lanesOfIs
<1>3. v \in Lanes /\ bigEndian(z, full * WordBytes, rest) \in Nat
  <2> DEFINE at == full * WordBytes
  <2>1. at \in Nat /\ rest \in Nat /\ at + rest <= Len(z)
    <3>1. /\ Len(z) % WordBytes \in Nat /\ (Len(z) \div WordBytes) * WordBytes \in Nat
          /\ (Len(z) \div WordBytes) * WordBytes + (Len(z) % WordBytes) <= Len(z)
      BY WordsFit
    <3> QED BY <3>1, Zenon
  <2> HIDE DEF at, rest
  <2>2. wordLanes(z, at, rest) \in Lanes /\ bigEndian(z, at, rest) \in Nat
    BY <2>1, wordLanesType, bigEndianType
  <2> QED BY <2>2 DEF at
<1>4. \A l \in 1 .. WordBytes : s[l] = u[l] + v[l]
  BY DEF wordLanes
<1>5. s \in Lanes
  <2>1. ASSUME NEW l \in 1 .. WordBytes PROVE u[l] + byte(l) \in Nat
    <3>1. v[l] = byte(l)
      BY DEF wordLanes
    <3>2. u[l] \in Nat /\ v[l] \in Nat
      BY <1>2, <1>3 DEF Lanes
    <3> QED BY <3>1, <3>2
  <2> QED BY <2>1 DEF Lanes
<1>6. checksumLanes(z) =
        (CHOOSE w : w = [l \in 0 .. WordBytes |-> A(w, l)])[WordBytes] % Word
  BY Zenon DEF checksumLanes, lanesOf
<1>7. ASSUME NEW w, NEW l \in 0 .. WordBytes PROVE A(w, l) = B(w, l)
  <2>1. CASE l = 0
    BY <2>1
  <2>2. CASE l # 0
    <3>1. l \in 1 .. WordBytes
      BY <2>2, <1>1
    <3>2. s[l] = u[l] + byte(l)
      BY <3>1
    <3> HIDE DEF s, u, byte
    <3> QED BY <3>2
  <2> QED BY <2>1, <2>2
<1>8. checksumLanes(z) = placed(s)[WordBytes] % Word
  <2>1. \A w : (w = [l \in 0 .. WordBytes |-> A(w, l)])
                 <=> (w = [l \in 0 .. WordBytes |-> B(w, l)])
    <3> TAKE w
    <3> HIDE DEF A, B
    <3>1. [l \in 0 .. WordBytes |-> A(w, l)] = [l \in 0 .. WordBytes |-> B(w, l)]
      BY <1>7
    <3> QED BY <3>1
  <2>2. (CHOOSE w : w = [l \in 0 .. WordBytes |-> A(w, l)])
          = (CHOOSE w : w = [l \in 0 .. WordBytes |-> B(w, l)])
    <3> HIDE DEF A, B
    <3> QED BY <2>1, Zenon
  <2>3. placed(s) = CHOOSE w : w = [l \in 0 .. WordBytes |-> B(w, l)]
    BY Zenon DEF placed
  <2> HIDE DEF A, B, s
  <2> QED BY <1>6, <2>2, <2>3
<1> DEFINE P == placed(u)[WordBytes]
           W == bigEndian(z, full * WordBytes, rest)
<1>9. placed(s)[WordBytes] = P + W
  <2>1. W = placed(v)[WordBytes]
    BY bigEndianIsPlaced
  <2> HIDE DEF s, u, v, W
  <2>2. placed(s)[WordBytes] = placed(u)[WordBytes] + placed(v)[WordBytes]
    BY <1>2, <1>3, <1>4, <1>5, placedAdds
  <2> QED BY <2>1, <2>2
<1>10. P \in Nat /\ W \in Nat
  <2>1. WordBytes \in 0 .. WordBytes
    BY <1>1
  <2>2. W \in Nat
    BY <1>3
  <2> HIDE DEF u, W
  <2> QED BY <1>2, <2>1, <2>2, placedIs
<1>11. checksum(z) = (sumsOf(z)[full] + W) % Word
  BY Zenon DEF checksum, sumsOf
<1>12. sumsOf(z)[full] = P % Word
  BY <1>1, SumIsPlaced
<1> HIDE DEF P, W, s
<1>13. ((P % Word) + W) % Word = (P + W) % Word
  BY <1>10, WrapEarly
<1> QED BY <1>8, <1>9, <1>11, <1>12, <1>13

(***************************************************************************)
(* A function that hands on to itself until it stops exists, if each time  *)
(* less is left to do.                                                     *)
(***************************************************************************)

\* Each step leaves less to do.
Shrinks(Go, step, left) == \A s \in Go : left[step[s]] < left[s]

HandsOn(S, Go, step, res, f) ==
    f = [s \in S |-> IF s \in Go THEN f[step[s]] ELSE res[s]]

LEMMA TailRecursionExists ==
    ASSUME NEW S, NEW N \in Nat, NEW left \in [S -> 0 .. N],
           NEW Go \in SUBSET S, NEW step \in [Go -> S], NEW res,
           Shrinks(Go, step, left)
    PROVE  \E f : HandsOn(S, Go, step, res, f)
<1> USE DEF Shrinks, HandsOn
<1> DEFINE Right(f, m) ==
             \A s \in S : left[s] < m => f[s] = IF s \in Go THEN f[step[s]] ELSE res[s]
           T == {m \in Nat : \E f : f = [s \in S |-> f[s]] /\ Right(f, m)}
<1>1. 0 \in T
  <2> DEFINE f == [s \in S |-> 0]
  <2>1. \A s \in S : ~ (left[s] < 0)
    OBVIOUS
  <2>2. f = [s \in S |-> f[s]] /\ Right(f, 0)
    BY <2>1
  <2> HIDE DEF f
  <2> QED BY <2>2
<1>2. ASSUME NEW m \in T PROVE m + 1 \in T
  <2>1. PICK f : f = [s \in S |-> f[s]] /\ Right(f, m)
    BY <1>2
  <2> DEFINE g == [s \in S |-> IF left[s] < m THEN f[s]
                               ELSE IF s \in Go THEN f[step[s]] ELSE res[s]]
  <2>2. g = [s \in S |-> g[s]]
    OBVIOUS
  <2>3. \A s \in S : g[s] = IF left[s] < m THEN f[s]
                            ELSE IF s \in Go THEN f[step[s]] ELSE res[s]
    OBVIOUS
  <2> HIDE DEF g
  <2>4. Right(g, m + 1)
    <3> SUFFICES ASSUME NEW s \in S, left[s] < m + 1
                 PROVE  g[s] = IF s \in Go THEN g[step[s]] ELSE res[s]
      OBVIOUS
    <3>1. g[s] = IF s \in Go THEN f[step[s]] ELSE res[s]
      BY <2>1, <2>3
    <3>2. ASSUME s \in Go PROVE g[step[s]] = f[step[s]]
      <4>1. step[s] \in S /\ left[step[s]] < left[s] /\ left[s] \in Nat /\ left[step[s]] \in Nat
        BY <3>2
      <4>2. left[step[s]] < m
        BY <4>1, <1>2
      <4> QED BY <2>3, <4>1, <4>2
    <3> QED BY <3>1, <3>2
  <2> QED BY <1>2, <2>2, <2>4
<1> HIDE DEF T
<1>3. T \in SUBSET Nat
  BY DEF T
<1>4. N + 1 \in T
  BY <1>1, <1>2, <1>3, SetInduction
<1>5. PICK f : f = [s \in S |-> f[s]] /\ Right(f, N + 1)
  BY <1>4 DEF T
<1>6. \A s \in S : f[s] = IF s \in Go THEN f[step[s]] ELSE res[s]
  <2>1. \A s \in S : left[s] < N + 1
    OBVIOUS
  <2> QED BY <1>5, <2>1
<1>7. f = [s \in S |-> IF s \in Go THEN f[step[s]] ELSE res[s]]
  <2>1. [s \in S |-> f[s]] = [s \in S |-> IF s \in Go THEN f[step[s]] ELSE res[s]]
    BY <1>6
  <2> QED BY <1>5, <2>1
<1> QED BY <1>7

(***************************************************************************)
(* delta.c reads a number as decodeInt does.                               *)
(***************************************************************************)

\* The two tables of digits are the same.
LEMMA zValueIs == \A c \in Byte : zValue[c] = decodeDigit[c]
<1> TAKE c \in Byte
<1>1. CASE c \in DigitBytes
  <2> DEFINE k == CHOOSE k \in 0 .. Radix - 1 : Alphabet[k + 1] = c
  <2>1. \E j \in 0 .. Radix - 1 : Alphabet[j + 1] = c
    <3>1. PICK j \in 1 .. Radix : Alphabet[j] = c
      BY <1>1 DEF DigitBytes
    <3>2. j - 1 \in 0 .. Radix - 1 /\ Alphabet[(j - 1) + 1] = c
      BY <3>1, RadixIs
    <3> QED BY <3>2
  <2>2. k \in 0 .. Radix - 1 /\ Alphabet[k + 1] = c
    BY <2>1
  <2>3. zValue[c] = k
    BY <1>1 DEF zValue
  <2> HIDE DEF k
  <2>4. encodeDigit[k] = c
    BY <2>2 DEF encodeDigit
  <2> QED BY <2>2, <2>3, <2>4, decodeEncoded
<1>2. CASE c \notin DigitBytes
  BY <1>2 DEF zValue, decodeDigit
<1> QED BY <1>1, <1>2

\* The loop of getInt.
scanning(d) ==
    CHOOSE scan : scan = [s \in Nat \X Words |->
        IF s[1] < Len(d) /\ zValue[d[s[1] + 1]] >= 0
        THEN scan[<<s[1] + 1, (s[2] * Radix + zValue[d[s[1] + 1]]) % Word>>]
        ELSE [val |-> s[2], next |-> s[1]]]

LEMMA scanningIs ==
    ASSUME NEW d \in Seq(Byte), NEW z \in Nat, NEW v \in Words
    PROVE  scanning(d)[<<z, v>>] =
              IF z < Len(d) /\ zValue[d[z + 1]] >= 0
              THEN scanning(d)[<<z + 1, (v * Radix + zValue[d[z + 1]]) % Word>>]
              ELSE [val |-> v, next |-> z]
<1> DEFINE S == Nat \X Words
           L == Len(d)
           left == [s \in S |-> IF s[1] < L THEN L - s[1] ELSE 0]
           Go == {s \in S : s[1] < L /\ zValue[d[s[1] + 1]] >= 0}
           to(s) == <<s[1] + 1, (s[2] * Radix + zValue[d[s[1] + 1]]) % Word>>
           step == [s \in Go |-> to(s)]
           res == [s \in S |-> [val |-> s[2], next |-> s[1]]]
<1>1. L \in Nat /\ Words \subseteq Nat
  BY LenProperties, CodecAssumption DEF Words
<1>2. left \in [S -> 0 .. L]
  <2> HIDE DEF L
  <2> QED BY <1>1
<1>3. \A s \in Go : to(s) \in S
  <2> TAKE s \in Go
  <2>1. s[1] \in Nat /\ s[2] \in Words /\ s[1] < L
    OBVIOUS
  <2>2. d[s[1] + 1] \in Byte
    BY <2>1
  <2>3. zValue[d[s[1] + 1]] \in Nat
    BY <2>2, zValueIs, decodeDigitType, RadixIs
  <2>4. (s[2] * Radix + zValue[d[s[1] + 1]]) % Word \in Words
    BY <1>1, <2>1, <2>3, WrappedInWords
  <2> QED BY <2>1, <2>4
<1>4. step \in [Go -> S]
  BY <1>3
<1>5. \A s \in Go : left[step[s]] < left[s]
  <2> TAKE s \in Go
  <2>1. to(s) \in S /\ to(s)[1] = s[1] + 1 /\ step[s] = to(s)
    BY <1>3
  <2>2. s[1] \in Nat /\ s[1] < L /\ s \in S
    OBVIOUS
  <2> HIDE DEF to, step, L, Go
  <2>3. left[to(s)] = IF s[1] + 1 < L THEN L - (s[1] + 1) ELSE 0
    BY <2>1
  <2> QED BY <1>1, <2>1, <2>2, <2>3
<1> DEFINE Body(f, s) == IF s[1] < L /\ zValue[d[s[1] + 1]] >= 0
                         THEN f[<<s[1] + 1, (s[2] * Radix + zValue[d[s[1] + 1]]) % Word>>]
                         ELSE [val |-> s[2], next |-> s[1]]
<1>6. \E f : f = [s \in S |-> IF s \in Go THEN f[step[s]] ELSE res[s]]
  <2>1. \A s \in Go : s \in S
    BY Zenon
  <2>2. Go \in SUBSET S
    BY ONLY <2>1, Zenon
  <2> HIDE DEF S, left, Go, step, res, L
  <2>3. L \in Nat
    BY <1>1
  <2>4. Shrinks(Go, step, left)
    BY <1>5 DEF Shrinks
  <2>5. \E f : HandsOn(S, Go, step, res, f)
    BY ONLY <2>3, <1>2, <1>4, <2>2, <2>4, TailRecursionExists
  <2> QED BY <2>5 DEF HandsOn
<1>7. \E f : f = [s \in S |-> Body(f, s)]
  <2>1. PICK f : f = [s \in S |-> IF s \in Go THEN f[step[s]] ELSE res[s]]
    BY <1>6
  <2>2. \A s \in S : (IF s \in Go THEN f[step[s]] ELSE res[s]) = Body(f, s)
    OBVIOUS
  <2> HIDE DEF Go, step, res, Body
  <2>3. [s \in S |-> IF s \in Go THEN f[step[s]] ELSE res[s]] = [s \in S |-> Body(f, s)]
    BY <2>2
  <2> QED BY <2>1, <2>3
<1>8. scanning(d) = [s \in S |-> Body(scanning(d), s)]
  BY <1>7, Zenon DEF scanning
<1>9. <<z, v>> \in S
  OBVIOUS
<1>10. scanning(d)[<<z, v>>] = Body(scanning(d), <<z, v>>)
  <2> HIDE DEF Body, S
  <2> QED BY <1>8, <1>9
<1> QED BY <1>10

LEMMA getIntIsScanning ==
    ASSUME NEW d \in Seq(Byte), NEW p \in Nat
    PROVE  getInt(d, p) = scanning(d)[<<p, 0>>]
  BY Zenon DEF getInt, scanning

\* Byte by byte or digit by digit, a number is the same, and so is where it ends
\* (delta.c: getInt; codec.go: decodeInt).
LEMMA getIntIs ==
    ASSUME NEW d \in Seq(Byte), NEW p \in Nat
    PROVE  getInt(d, p) = decodeInt(d, p)
<1> DEFINE end == digitsEnd(d, p)
           f == valuesFrom(d, p)
           T == {m \in Nat : p + m <= end => scanning(d)[<<p + m, f[p + m]>>] = getInt(d, p)}
<1>1. end \in Nat /\ end >= p
  BY digitsEndType
<1>2. \A k \in p .. end : f[k] \in Words
  BY valuesFromType
<1>3. /\ f[p] = 0
      /\ \A k \in p + 1 .. end : f[k] = (f[k - 1] * Radix + decodeDigit[d[k]]) % Word
  <2> DEFINE Step(k) == IF k = p THEN 0 ELSE (f[k - 1] * Radix + decodeDigit[d[k]]) % Word
  <2>1. f = [k \in p .. end |-> Step(k)]
    BY valuesFromIs
  <2>2. p \in p .. end /\ \A k \in p + 1 .. end : k \in p .. end /\ k # p
    BY <1>1
  <2> HIDE DEF f, end
  <2> QED BY <2>1, <2>2
<1>4. 0 \in T
  BY <1>3, getIntIsScanning
<1>5. ASSUME NEW m \in T PROVE m + 1 \in T
  <2> SUFFICES ASSUME p + (m + 1) <= end
               PROVE  scanning(d)[<<p + (m + 1), f[p + (m + 1)]>>] = getInt(d, p)
    OBVIOUS
  <2> DEFINE z == p + m
             v == f[z]
  <2>1. z \in Nat /\ z \in p .. end - 1 /\ z \in p .. end /\ m \in Nat /\ p + m <= end
    BY <1>1
  <2>2. v \in Words
    BY <1>2, <2>1
  <2>3. z + 1 \in 1 .. Len(d) /\ decodeDigit[d[z + 1]] \in Nat
    BY <2>1, digitsEndType
  <2>4. z < Len(d) /\ zValue[d[z + 1]] = decodeDigit[d[z + 1]]
    <3>1. d[z + 1] \in Byte
      BY <2>3
    <3> QED BY <2>1, <2>3, <3>1, zValueIs
  <2>5. z + 1 \in p + 1 .. end /\ (z + 1) - 1 = z /\ p + (m + 1) = z + 1
    BY <1>1, <2>1
  <2>6. f[z + 1] = (f[z] * Radix + decodeDigit[d[z + 1]]) % Word
    <3> HIDE DEF z, f, end
    <3> QED BY <1>3, <2>5
  <2>7. scanning(d)[<<z, v>>] = getInt(d, p)
    BY <1>5, <2>1
  <2> HIDE DEF z, f, end, T
  <2>8. scanning(d)[<<z, v>>] = scanning(d)[<<z + 1, (v * Radix + zValue[d[z + 1]]) % Word>>]
    <3>1. zValue[d[z + 1]] >= 0
      BY <2>3, <2>4
    <3> HIDE DEF v
    <3> QED BY <2>1, <2>2, <2>4, <3>1, scanningIs
  <2>9. (v * Radix + zValue[d[z + 1]]) % Word = f[z + 1]
    BY <2>4, <2>6
  <2> QED BY <2>5, <2>7, <2>8, <2>9
<1>6. T = Nat
  <2> HIDE DEF T
  <2>1. T \in SUBSET Nat
    BY DEF T
  <2> QED BY <1>4, <1>5, <2>1, SetInduction
<1>7. scanning(d)[<<end, f[end]>>] = getInt(d, p)
  <2>1. end - p \in Nat /\ p + (end - p) = end
    BY <1>1
  <2>2. end - p \in T
    BY <1>6, <2>1
  <2> HIDE DEF end, f
  <2> QED BY <1>1, <2>1, <2>2
<1>8. ~ (end < Len(d) /\ zValue[d[end + 1]] >= 0)
  <2> SUFFICES ASSUME end < Len(d) PROVE ~ (zValue[d[end + 1]] >= 0)
    OBVIOUS
  <2>1. p < Len(d)
    BY <1>1
  <2>2. decodeDigit[d[end + 1]] < 0
    BY <2>1, digitsEndWithin
  <2>3. end + 1 \in 1 .. Len(d)
    BY <1>1
  <2>4. d[end + 1] \in Byte
    BY <2>3
  <2>5. decodeDigit[d[end + 1]] \in -1 .. Radix - 1
    BY <2>4, decodeDigitType
  <2> QED BY <2>2, <2>4, <2>5, zValueIs, RadixIs
<1>9. f[end] \in Words
  BY <1>1, <1>2
<1>10. scanning(d)[<<end, f[end]>>] = [val |-> f[end], next |-> end]
  <2> HIDE DEF end, f
  <2> QED BY <1>1, <1>8, <1>9, scanningIs
<1>11. decodeInt(d, p) = [val |-> f[end], next |-> end]
  BY Zenon DEF decodeInt, valuesFrom
<1> QED BY <1>7, <1>10, <1>11

(***************************************************************************)
(* The loop of delta_apply.                                                *)
(***************************************************************************)

\* A stretch of a sequence of bytes.
LEMMA Taken ==
    ASSUME NEW s \in Seq(Byte), NEW at \in Nat, NEW n \in Nat, at + n <= Len(s)
    PROVE  /\ SubSeq(s, at + 1, at + n) \in Seq(Byte)
           /\ Len(SubSeq(s, at + 1, at + n)) = n
           /\ \A k \in 1 .. n : SubSeq(s, at + 1, at + n)[k] = s[at + k]
<1>1. \A k \in at + 1 .. at + n : s[k] \in Byte
  BY LenProperties
<1>2. at + 1 \in Int /\ at + n \in Int
  OBVIOUS
<1> DEFINE t == SubSeq(s, at + 1, at + n)
<1>3. /\ t \in Seq(Byte)
      /\ Len(t) = IF at + 1 <= at + n THEN (at + n) - (at + 1) + 1 ELSE 0
      /\ \A k \in 1 .. (at + n) - (at + 1) + 1 : t[k] = s[(at + 1) + k - 1]
  BY <1>1, <1>2, SubSeqProperties, SMTT(30)
<1> HIDE DEF t
<1>4. Len(t) = n
  BY <1>3
<1>5. ASSUME NEW k \in 1 .. n PROVE t[k] = s[at + k]
  <2>1. k \in 1 .. (at + n) - (at + 1) + 1 /\ (at + 1) + k - 1 = at + k
    OBVIOUS
  <2> QED BY <1>3, <2>1
<1> QED BY <1>3, <1>4, <1>5 DEF t

\* What has been written so far and what comes next.
Progress == Nat \X Seq(Byte)

\* A loop that moves on in d by every command it gets through.
LEMMA ReadingExists ==
    ASSUME NEW L \in Nat, NEW Go \in SUBSET Progress, NEW step \in [Go -> Progress], NEW res,
           \A s \in Go : s[1] < L /\ step[s][1] > s[1]
    PROVE  \E f : HandsOn(Progress, Go, step, res, f)
<1> DEFINE left == [s \in Progress |-> IF s[1] < L THEN L - s[1] ELSE 0]
<1>1. left \in [Progress -> 0 .. L]
  BY DEF Progress
<1>2. ASSUME NEW s \in Go PROVE left[step[s]] < left[s]
  <2>1. s \in Progress /\ step[s] \in Progress
    OBVIOUS
  <2> DEFINE p == s[1]
             q == step[s][1]
  <2>2. p \in Nat /\ q \in Nat /\ p < L /\ q > p
    BY <2>1 DEF Progress
  <2>3. left[s] = (IF p < L THEN L - p ELSE 0) /\ left[step[s]] = (IF q < L THEN L - q ELSE 0)
    BY <2>1
  <2> HIDE DEF p, q, left
  <2> QED BY <2>2, <2>3
<1>3. Shrinks(Go, step, left)
  <2> HIDE DEF left
  <2> QED BY <1>2 DEF Shrinks
<1> HIDE DEF left
<1> QED BY ONLY <1>1, <1>3, L \in Nat, Go \in SUBSET Progress, step \in [Go -> Progress],
             TailRecursionExists

\* One round of the loop; run is the rounds that follow.
round(src, d, limit, run, s) ==
    LET p == s[1]
        out == s[2]
        cnt == getInt(d, p)
        ofst == getInt(d, cnt.next + 1)
        total == Len(out) + cnt.val
        copy ==
            IF \/ ofst.next < Len(d) /\ d[ofst.next + 1] # Comma
               \/ total > limit
               \/ asInt(src) >= 0 /\ ofst.val + cnt.val > asInt(src)
            THEN Rejected
            ELSE IF ofst.val + cnt.val > Len(src) THEN Undefined
            ELSE run[<<ofst.next + 1,
                       out \o SubSeq(src, ofst.val + 1, ofst.val + cnt.val)>>]
        insert ==
            IF total > limit \/ cnt.val > Len(d) - (cnt.next + 1)
            THEN Rejected
            ELSE run[<<cnt.next + 1 + cnt.val,
                       out \o SubSeq(d, cnt.next + 2, cnt.next + 1 + cnt.val)>>]
        end ==
            IF cnt.val # checksumLanes(out) \/ Len(out) # limit
            THEN Rejected
            ELSE Accepted(out)
    IN  IF p >= Len(d) \/ d[p + 1] = NUL THEN Rejected
        ELSE IF cnt.next >= Len(d) THEN Rejected
        ELSE CASE d[cnt.next + 1] = At -> copy
               [] d[cnt.next + 1] = Colon -> insert
               [] d[cnt.next + 1] = Semi -> end
               [] OTHER -> Rejected

rounds(src, d, limit) ==
    CHOOSE run : run = [s \in Nat \X Seq(Byte) |-> round(src, d, limit, run, s)]

LEMMA delta_applyIs ==
    ASSUME NEW src, NEW delta
    PROVE  delta_apply(src, delta) =
             LET d == passed(delta)
                 head == getInt(d, 0)
             IN  IF head.next >= Len(d) \/ d[head.next + 1] # NewLine
                 THEN Rejected
                 ELSE returned(rounds(src, d, head.val)[<<head.next + 1, <<>>>>])
  BY Zenon DEF delta_apply, rounds, round

\* Below half a word a length is the int it is taken for.
LEMMA passedIs ==
    ASSUME NEW z \in Seq(Byte)
    PROVE  /\ asInt(z) \in Int /\ passed(z) \in Seq(Byte)
           /\ Len(z) < Word \div 2 => asInt(z) = Len(z) /\ passed(z) = z
<1> DEFINE n == Len(z)
           h == Word \div 2
           m == n % Word
           i == asInt(z)
<1>1. n \in Nat /\ Word \in Nat /\ Word > 0
  BY LenProperties, CodecAssumption, RadixIs
<1>2. i = IF m >= h THEN m - Word ELSE m
  BY DEF asInt, signed
<1> HIDE DEF n, i
<1>3. m \in 0 .. Word - 1 /\ m <= n /\ h \in Nat /\ h <= Word
  BY <1>1
<1>4. n < h => m = n
  BY <1>1, <1>3
<1> HIDE DEF m, h
<1>5. i \in Int /\ i <= n
  BY <1>1, <1>2, <1>3
<1>6. n < h => i = n
  BY <1>1, <1>2, <1>3, <1>4
<1>7. passed(z) \in Seq(Byte)
  <2>1. \A k \in 1 .. i : k \in 1 .. n
    BY <1>1, <1>5
  <2>2. \A k \in 1 .. i : z[k] \in Byte
    BY <2>1 DEF n
  <2>3. SubSeq(z, 1, i) \in Seq(Byte)
    BY <1>5, <2>2, SubSeqProperties
  <2> QED BY <2>3 DEF passed, i
<1>8. n < h => passed(z) = z
  BY <1>6, SubSeqFull DEF passed, i, n
<1> QED BY <1>5, <1>6, <1>7, <1>8 DEF n, h, i

\* And so it is returned.
LEMMA returnedIs ==
    /\ returned(Rejected) = Rejected /\ returned(Undefined) = Undefined
    /\ \A t \in Seq(Byte) : Len(t) < Word \div 2 => returned(Accepted(t)) = Accepted(t)
<1>1. ASSUME NEW t \in Seq(Byte), Len(t) < Word \div 2 PROVE returned(Accepted(t)) = Accepted(t)
  <2>1. ~ (asInt(t) < 0)
    BY <1>1, passedIs, LenProperties
  <2>2. Accepted(t).out = t
    BY DEF Accepted
  <2> QED BY <2>1, <2>2 DEF returned
<1> QED BY <1>1 DEF returned, Rejected, Undefined, Stopped

\* The command at s copies, inserts.
Copying(src, d, limit, s) ==
    LET c == decodeInt(d, s[1])
        o == decodeInt(d, c.next + 1)
    IN  /\ s[1] < Len(d) /\ d[s[1] + 1] # NUL
        /\ c.next < Len(d) /\ d[c.next + 1] = At
        /\ ~ (o.next < Len(d) /\ d[o.next + 1] # Comma)
        /\ Len(s[2]) + c.val <= limit
        /\ o.val + c.val <= Len(src) /\ ~ (asInt(src) >= 0 /\ o.val + c.val > asInt(src))

\* The command at s copies from past the end, and no int says so.
Overrunning(src, d, limit, s) ==
    LET c == decodeInt(d, s[1])
        o == decodeInt(d, c.next + 1)
    IN  /\ s[1] < Len(d) /\ d[s[1] + 1] # NUL
        /\ c.next < Len(d) /\ d[c.next + 1] = At
        /\ ~ (o.next < Len(d) /\ d[o.next + 1] # Comma)
        /\ Len(s[2]) + c.val <= limit
        /\ o.val + c.val > Len(src) /\ ~ (asInt(src) >= 0 /\ o.val + c.val > asInt(src))

Inserting(src, d, limit, s) ==
    LET c == decodeInt(d, s[1])
    IN  /\ s[1] < Len(d) /\ d[s[1] + 1] # NUL
        /\ c.next < Len(d) /\ d[c.next + 1] = Colon
        /\ Len(s[2]) + c.val <= limit /\ c.next + 1 + c.val <= Len(d)

\* What is written, and where the next command is, after it.
copiedTo(src, d, s) ==
    LET c == decodeInt(d, s[1])
        o == decodeInt(d, c.next + 1)
    IN  <<o.next + 1, s[2] \o SubSeq(src, o.val + 1, o.val + c.val)>>

insertedTo(d, s) ==
    LET c == decodeInt(d, s[1])
    IN  <<c.next + 1 + c.val, s[2] \o SubSeq(d, c.next + 2, c.next + 1 + c.val)>>

\* What is returned where neither is done.
closed(src, d, limit, s) ==
    LET c == decodeInt(d, s[1])
    IN  IF Overrunning(src, d, limit, s) THEN Undefined
        ELSE IF /\ s[1] < Len(d) /\ d[s[1] + 1] # NUL
                /\ c.next < Len(d) /\ d[c.next + 1] = Semi
                /\ c.val = checksum(s[2]) /\ Len(s[2]) = limit
             THEN Accepted(s[2]) ELSE Rejected

LEMMA roundIs ==
    ASSUME NEW src \in Seq(Byte), NEW d \in Seq(Byte), NEW limit \in Nat, NEW run,
           NEW s \in Progress
    PROVE  round(src, d, limit, run, s) =
             IF Copying(src, d, limit, s) THEN run[copiedTo(src, d, s)]
             ELSE IF Inserting(src, d, limit, s) THEN run[insertedTo(d, s)]
             ELSE closed(src, d, limit, s)
<1> DEFINE p == s[1]
           out == s[2]
           c == decodeInt(d, p)
           q == c.next
           o == decodeInt(d, q + 1)
<1>1. p \in Nat /\ out \in Seq(Byte)
  BY DEF Progress
<1>2. q \in Nat /\ c.val \in Nat /\ q + 1 \in Nat
  BY <1>1, decodeIntType, CodecAssumption DEF Words
<1>3. o.next \in Nat /\ o.val \in Nat
  BY <1>2, decodeIntType, CodecAssumption DEF Words
<1>4. getInt(d, p) = c
  BY <1>1, getIntIs
<1>5. getInt(d, c.next + 1) = o
  BY <1>2, getIntIs
<1>6. checksumLanes(out) = checksum(out)
  BY <1>1, LanesAgree
<1>7. Len(d) \in Nat /\ Len(src) \in Nat /\ Len(out) \in Nat
  BY <1>1, LenProperties
<1> DEFINE total == Len(out) + c.val
           over == asInt(src) >= 0 /\ o.val + c.val > asInt(src)
           copy == IF \/ o.next < Len(d) /\ d[o.next + 1] # Comma
                      \/ total > limit
                      \/ over
                   THEN Rejected
                   ELSE IF o.val + c.val > Len(src) THEN Undefined
                   ELSE run[copiedTo(src, d, s)]
           insert == IF total > limit \/ c.val > Len(d) - (q + 1)
                     THEN Rejected ELSE run[insertedTo(d, s)]
           end == IF c.val # checksum(out) \/ Len(out) # limit THEN Rejected ELSE Accepted(out)
<1>8. round(src, d, limit, run, s) =
        IF p >= Len(d) \/ d[p + 1] = NUL THEN Rejected
        ELSE IF q >= Len(d) THEN Rejected
        ELSE CASE d[q + 1] = At -> copy
               [] d[q + 1] = Colon -> insert
               [] d[q + 1] = Semi -> end
               [] OTHER -> Rejected
  <2> DEFINE g == getInt(d, p)
             h == getInt(d, g.next + 1)
             k == checksumLanes(out)
             A == <<o.next + 1, out \o SubSeq(src, o.val + 1, o.val + c.val)>>
             B == <<c.next + 1 + c.val, out \o SubSeq(d, c.next + 2, c.next + 1 + c.val)>>
  <2>1. round(src, d, limit, run, s) =
          IF p >= Len(d) \/ d[p + 1] = NUL THEN Rejected
          ELSE IF g.next >= Len(d) THEN Rejected
          ELSE CASE d[g.next + 1] = At ->
                      (IF \/ h.next < Len(d) /\ d[h.next + 1] # Comma
                          \/ Len(out) + g.val > limit
                          \/ asInt(src) >= 0 /\ h.val + g.val > asInt(src)
                       THEN Rejected
                       ELSE IF h.val + g.val > Len(src) THEN Undefined
                       ELSE run[<<h.next + 1, out \o SubSeq(src, h.val + 1, h.val + g.val)>>])
                 [] d[g.next + 1] = Colon ->
                      (IF Len(out) + g.val > limit \/ g.val > Len(d) - (g.next + 1)
                       THEN Rejected
                       ELSE run[<<g.next + 1 + g.val,
                                  out \o SubSeq(d, g.next + 2, g.next + 1 + g.val)>>])
                 [] d[g.next + 1] = Semi ->
                      (IF g.val # k \/ Len(out) # limit THEN Rejected ELSE Accepted(out))
                 [] OTHER -> Rejected
    BY Zenon DEF round
  <2>2. g = c
    BY <1>4
  <2>3. h = o
    BY <1>4, <1>5
  <2>4. k = checksum(out)
    BY <1>6
  <2>5. copiedTo(src, d, s) = A /\ insertedTo(d, s) = B
    BY Zenon DEF copiedTo, insertedTo
  <2> HIDE DEF g, h, k, c, o, p, out
  <2> QED BY <2>1, <2>2, <2>3, <2>4, <2>5
<1> DEFINE x == d[q + 1]
<1>9. CASE p >= Len(d) \/ d[p + 1] = NUL \/ q >= Len(d)
  <2>1. ~ Copying(src, d, limit, s) /\ ~ Inserting(src, d, limit, s)
    BY <1>1, <1>2, <1>7, <1>9 DEF Copying, Inserting
  <2>2. closed(src, d, limit, s) = Rejected
    BY <1>1, <1>2, <1>7, <1>9 DEF closed, Overrunning
  <2> HIDE DEF copy, insert, end, p, q
  <2> QED BY <1>8, <1>9, <2>1, <2>2
<1>10. CASE ~ (p >= Len(d)) /\ ~ (d[p + 1] = NUL) /\ ~ (q >= Len(d))
  <2>1. p < Len(d) /\ q < Len(d) /\ d[p + 1] # NUL
    BY <1>1, <1>2, <1>7, <1>10
  <2>2. round(src, d, limit, run, s) =
          CASE x = At -> copy [] x = Colon -> insert [] x = Semi -> end [] OTHER -> Rejected
    <3> HIDE DEF copy, insert, end, p, q
    <3> QED BY <1>8, <1>10
  <2>3. At # Colon /\ At # Semi /\ Colon # Semi
    BY CodecAssumption
  <2> DEFINE good == ~ (\/ o.next < Len(d) /\ d[o.next + 1] # Comma
                        \/ total > limit
                        \/ over)
             far == o.val + c.val > Len(src)
  <2>4. /\ Copying(src, d, limit, s) <=> x = At /\ good /\ ~ far
        /\ Overrunning(src, d, limit, s) <=> x = At /\ good /\ far
    <3>1. (total <= limit <=> ~ (total > limit))
            /\ (o.val + c.val <= Len(src) <=> ~ (o.val + c.val > Len(src)))
      <4> DEFINE a == o.val
                 b == c.val
                 lo == Len(out)
                 ls == Len(src)
      <4>1. a \in Nat /\ b \in Nat /\ lo \in Nat /\ ls \in Nat
        BY <1>2, <1>3, <1>7
      <4> HIDE DEF a, b, lo, ls
      <4>2. (lo + b <= limit <=> ~ (lo + b > limit)) /\ (a + b <= ls <=> ~ (a + b > ls))
        BY <4>1
      <4> QED BY <4>2 DEF a, b, lo, ls
    <3>2. Copying(src, d, limit, s) <=> x = At /\ good /\ ~ far
      BY <2>1, <3>1, Zenon DEF Copying
    <3>3. Overrunning(src, d, limit, s) <=> x = At /\ good /\ far
      BY <2>1, <3>1, Zenon DEF Overrunning
    <3> QED BY <3>2, <3>3
  <2>5. Inserting(src, d, limit, s) <=> x = Colon /\ ~ (total > limit \/ c.val > Len(d) - (q + 1))
    <3>1. (total <= limit <=> ~ (total > limit))
            /\ (q + 1 + c.val <= Len(d) <=> ~ (c.val > Len(d) - (q + 1)))
      <4> DEFINE b == c.val
                 lo == Len(out)
                 ld == Len(d)
      <4>1. q \in Nat /\ b \in Nat /\ lo \in Nat /\ ld \in Nat
        BY <1>2, <1>3, <1>7
      <4> HIDE DEF q, b, lo, ld
      <4>2. (lo + b <= limit <=> ~ (lo + b > limit)) /\ (q + 1 + b <= ld <=> ~ (b > ld - (q + 1)))
        BY <4>1
      <4> QED BY <4>2 DEF q, b, lo, ld
    <3> QED BY <2>1, <3>1, Zenon DEF Inserting
  <2>6. closed(src, d, limit, s) = IF Overrunning(src, d, limit, s) THEN Undefined
                                   ELSE IF x = Semi THEN end ELSE Rejected
    BY <2>1 DEF closed
  <2>a. copy = IF ~ good THEN Rejected ELSE IF far THEN Undefined ELSE run[copiedTo(src, d, s)]
    BY Zenon
  <2>7. CASE x = At
    <3> HIDE DEF x, copy, insert, end, total, p, q, c, o, out, good, far
    <3> QED BY <2>2, <2>3, <2>4, <2>5, <2>6, <2>7, <2>a
  <2>8. CASE x = Colon
    <3> HIDE DEF x, copy, end, total, p, q, c, o, out, good, far
    <3> QED BY <2>2, <2>3, <2>4, <2>5, <2>6, <2>8
  <2>9. CASE x # At /\ x # Colon
    <3> HIDE DEF x, copy, insert, end, total, p, q, c, o, out, good, far
    <3> QED BY <2>2, <2>3, <2>4, <2>5, <2>6, <2>9
  <2> QED BY <2>7, <2>8, <2>9
<1> QED BY <1>9, <1>10

\* A command leads on, and what is written stays a string of bytes.
LEMMA CopiedType ==
    ASSUME NEW src \in Seq(Byte), NEW d \in Seq(Byte), NEW limit \in Nat, NEW s \in Progress,
           Copying(src, d, limit, s)
    PROVE  copiedTo(src, d, s) \in Progress /\ copiedTo(src, d, s)[1] > s[1]
<1> DEFINE c == decodeInt(d, s[1])
           o == decodeInt(d, c.next + 1)
           out == s[2]
           piece == SubSeq(src, o.val + 1, o.val + c.val)
<1>1. s[1] \in Nat /\ out \in Seq(Byte)
  BY DEF Progress
<1>2. c.next \in Nat /\ c.val \in Nat /\ c.next >= s[1] /\ c.next + 1 \in Nat
  BY <1>1, decodeIntType, CodecAssumption DEF Words
<1>3. o.next \in Nat /\ o.val \in Nat /\ o.next >= c.next + 1
  BY <1>2, decodeIntType, CodecAssumption DEF Words
<1>4. o.val + c.val <= Len(src)
  BY DEF Copying
<1>5. piece \in Seq(Byte)
  <2> HIDE DEF c, o
  <2> QED BY <1>2, <1>3, <1>4, Taken
<1>6. copiedTo(src, d, s) = <<o.next + 1, out \o piece>>
  BY Zenon DEF copiedTo
<1> HIDE DEF c, o, piece, out
<1>7. out \o piece \in Seq(Byte)
  BY <1>1, <1>5, ConcatProperties
<1>8. o.next + 1 \in Nat /\ o.next + 1 > s[1]
  BY <1>1, <1>2, <1>3, SMTT(30)
<1> DEFINE m == o.next + 1
           w == out \o piece
<1>9. m \in Nat /\ w \in Seq(Byte) /\ m > s[1] /\ copiedTo(src, d, s) = <<m, w>>
  BY <1>6, <1>7, <1>8
<1> HIDE DEF m, w
<1>10. <<m, w>> \in Progress /\ <<m, w>>[1] = m
  BY <1>9 DEF Progress
<1> QED BY <1>9, <1>10

LEMMA InsertedType ==
    ASSUME NEW src \in Seq(Byte), NEW d \in Seq(Byte), NEW limit \in Nat, NEW s \in Progress,
           Inserting(src, d, limit, s)
    PROVE  insertedTo(d, s) \in Progress /\ insertedTo(d, s)[1] > s[1]
<1> DEFINE c == decodeInt(d, s[1])
           q == c.next + 1
           v == c.val
           out == s[2]
           piece == SubSeq(d, q + 1, q + v)
<1>1. s[1] \in Nat /\ out \in Seq(Byte)
  BY DEF Progress
<1>2. c.next \in Nat /\ v \in Nat /\ c.next >= s[1] /\ q \in Nat
  BY <1>1, decodeIntType, CodecAssumption DEF Words
<1>3. q + v <= Len(d)
  BY DEF Inserting
<1>4. piece \in Seq(Byte)
  <2> HIDE DEF q, v
  <2> QED BY <1>2, <1>3, Taken
<1>5. insertedTo(d, s) = <<q + v, out \o piece>>
  <2>1. c.next + 2 = q + 1
    BY <1>2
  <2>2. insertedTo(d, s) = <<c.next + 1 + c.val, out \o SubSeq(d, c.next + 2, c.next + 1 + c.val)>>
    BY Zenon DEF insertedTo
  <2> HIDE DEF c, out
  <2> QED BY <2>1, <2>2
<1>6. q + v \in Nat /\ q + v > s[1]
  <2> DEFINE w == c.next
             p == s[1]
  <2> HIDE DEF v, w, p
  <2>1. q = w + 1 /\ w \in Nat /\ p \in Nat /\ w >= p /\ v \in Nat
    BY <1>1, <1>2 DEF w, p
  <2> HIDE DEF q
  <2> QED BY <2>1 DEF p
<1> HIDE DEF c, q, v, piece, out
<1>7. out \o piece \in Seq(Byte)
  BY <1>1, <1>4, ConcatProperties
<1> DEFINE m == q + v
           w == out \o piece
<1>8. m \in Nat /\ w \in Seq(Byte) /\ m > s[1] /\ insertedTo(d, s) = <<m, w>>
  BY <1>5, <1>6, <1>7
<1> HIDE DEF m, w
<1>9. <<m, w>> \in Progress /\ <<m, w>>[1] = m
  BY <1>8 DEF Progress
<1> QED BY <1>8, <1>9

\* What delta_apply goes on to return from a point is decided by the command there.
LEMMA roundsIs ==
    ASSUME NEW src \in Seq(Byte), NEW d \in Seq(Byte), NEW limit \in Nat, NEW s \in Progress
    PROVE  LET R == rounds(src, d, limit)
           IN  /\ Copying(src, d, limit, s) => R[s] = R[copiedTo(src, d, s)]
               /\ Inserting(src, d, limit, s) => R[s] = R[insertedTo(d, s)]
               /\ ~ Copying(src, d, limit, s) /\ ~ Inserting(src, d, limit, s) =>
                     R[s] = closed(src, d, limit, s)
<1> DEFINE R == rounds(src, d, limit)
           Cop(t) == Copying(src, d, limit, t)
           Ins(t) == Inserting(src, d, limit, t)
           Go == {t \in Progress : Cop(t) \/ Ins(t)}
           To(t) == IF Cop(t) THEN copiedTo(src, d, t) ELSE insertedTo(d, t)
           step == [t \in Go |-> To(t)]
           res == [t \in Progress |-> closed(src, d, limit, t)]
           Body(f, t) == round(src, d, limit, f, t)
           L == Len(d)
<1>1. L \in Nat
  BY LenProperties
<1>2. ASSUME NEW t \in Go PROVE t \in Progress /\ t[1] < L /\ To(t) \in Progress /\ To(t)[1] > t[1]
  <2>1. t \in Progress /\ (Cop(t) \/ Ins(t))
    OBVIOUS
  <2>2. t[1] < L
    BY <2>1 DEF Copying, Inserting
  <2>3. CASE Cop(t)
    BY <2>1, <2>2, <2>3, CopiedType
  <2>4. CASE ~ Cop(t)
    BY <2>1, <2>2, <2>4, InsertedType
  <2> QED BY <2>3, <2>4
<1>3. \A f : \A t \in Progress : Body(f, t) = IF t \in Go THEN f[step[t]] ELSE res[t]
  <2> TAKE f
  <2> TAKE t \in Progress
  <2>1. Body(f, t) = IF Cop(t) THEN f[copiedTo(src, d, t)]
                     ELSE IF Ins(t) THEN f[insertedTo(d, t)] ELSE closed(src, d, limit, t)
    BY roundIs
  <2>2. t \in Go <=> Cop(t) \/ Ins(t)
    OBVIOUS
  <2>3. t \in Go => step[t] = To(t)
    OBVIOUS
  <2>4. res[t] = closed(src, d, limit, t)
    OBVIOUS
  <2>5. To(t) = IF Cop(t) THEN copiedTo(src, d, t) ELSE insertedTo(d, t)
    OBVIOUS
  <2> HIDE DEF Go, step, res, Cop, Ins, Body, To
  <2> QED BY <2>1, <2>2, <2>3, <2>4, <2>5
<1>4. \A t \in Go : t \in Progress
  BY <1>2
<1> HIDE DEF Go, To, L, Cop, Ins, Body
<1>5. step \in [Go -> Progress] /\ \A t \in Go : t[1] < L /\ step[t][1] > t[1]
  BY <1>2
<1>6. Go \in SUBSET Progress
  BY <1>4
<1> HIDE DEF step, res
<1>7. PICK f : HandsOn(Progress, Go, step, res, f)
  BY <1>1, <1>5, <1>6, ReadingExists
<1>8. f = [t \in Progress |-> Body(f, t)]
  <2>1. [t \in Progress |-> Body(f, t)] = [t \in Progress |-> IF t \in Go THEN f[step[t]] ELSE res[t]]
    BY <1>3
  <2> QED BY <1>7, <2>1 DEF HandsOn
<1>9. R = CHOOSE g : g = [t \in Progress |-> Body(g, t)]
  BY Zenon DEF rounds, Progress, Body
<1>10. R = [t \in Progress |-> Body(R, t)]
  <2> HIDE DEF R
  <2> QED BY <1>8, <1>9
<1>11. R[s] = Body(R, s)
  <2> HIDE DEF R
  <2> QED BY <1>10
<1>12. R[s] = IF Cop(s) THEN R[copiedTo(src, d, s)]
              ELSE IF Ins(s) THEN R[insertedTo(d, s)] ELSE closed(src, d, limit, s)
  BY <1>11, roundIs DEF Body, Cop, Ins
<1>13. ~ (Cop(s) /\ Ins(s))
  BY CodecAssumption DEF Cop, Ins, Copying, Inserting
<1> HIDE DEF R
<1>14. /\ Cop(s) => R[s] = R[copiedTo(src, d, s)]
       /\ Ins(s) => R[s] = R[insertedTo(d, s)]
       /\ ~ Cop(s) /\ ~ Ins(s) => R[s] = closed(src, d, limit, s)
  BY <1>12, <1>13
<1> QED BY <1>14 DEF R, Cop, Ins

\* x is the bytes of tgt from a on.
Continues(x, tgt, a) ==
    /\ a + Len(x) <= Len(tgt)
    /\ \A k \in 1 .. Len(x) : x[k] = tgt[a + k]

\* What has been written of tgt, and the next bytes of it.
LEMMA Grown ==
    ASSUME NEW tgt \in Seq(Byte), NEW a \in Nat, NEW x \in Seq(Byte), Continues(x, tgt, a)
    PROVE  SubSeq(tgt, 1, a) \o x = SubSeq(tgt, 1, a + Len(x))
<1> DEFINE n == Len(x)
<1>0. n \in Nat /\ a + n <= Len(tgt) /\ \A k \in 1 .. n : x[k] = tgt[a + k]
  BY LenProperties DEF Continues
<1> DEFINE u == SubSeq(tgt, 1, a)
           w == SubSeq(tgt, 1, a + n)
           v == u \o x
<1>1. /\ u \in Seq(Byte) /\ Len(u) = a
      /\ \A k \in 1 .. a : u[k] = tgt[k]
  <2>1. 0 + a <= Len(tgt) /\ 0 \in Nat /\ 0 + 1 = 1 /\ 0 + a = a /\ \A k \in 1 .. a : 0 + k = k
    BY <1>0, LenProperties
  <2>2. /\ SubSeq(tgt, 0 + 1, 0 + a) \in Seq(Byte) /\ Len(SubSeq(tgt, 0 + 1, 0 + a)) = a
        /\ \A k \in 1 .. a : SubSeq(tgt, 0 + 1, 0 + a)[k] = tgt[0 + k]
    BY <2>1, Taken
  <2> QED BY <2>1, <2>2
<1>2. /\ w \in Seq(Byte) /\ Len(w) = a + n
      /\ \A k \in 1 .. a + n : w[k] = tgt[k]
  <2> DEFINE m == a + n
  <2>1. 0 + m <= Len(tgt) /\ 0 \in Nat /\ m \in Nat /\ 0 + 1 = 1 /\ 0 + m = m
          /\ \A k \in 1 .. m : 0 + k = k
    BY <1>0, LenProperties
  <2> HIDE DEF m
  <2>2. /\ SubSeq(tgt, 0 + 1, 0 + m) \in Seq(Byte) /\ Len(SubSeq(tgt, 0 + 1, 0 + m)) = m
        /\ \A k \in 1 .. m : SubSeq(tgt, 0 + 1, 0 + m)[k] = tgt[0 + k]
    BY <2>1, Taken
  <2>3. SubSeq(tgt, 1, m) \in Seq(Byte) /\ Len(SubSeq(tgt, 1, m)) = m
        /\ \A k \in 1 .. m : SubSeq(tgt, 1, m)[k] = tgt[k]
    BY <2>1, <2>2
  <2> QED BY <2>3 DEF m
<1>2a. Len(x) = n
  OBVIOUS
<1> HIDE DEF u, w, n
<1>3. /\ v \in Seq(Byte) /\ Len(v) = a + n
      /\ \A k \in 1 .. a + n : v[k] = IF k <= a THEN u[k] ELSE x[k - a]
  BY <1>1, <1>2a, ConcatProperties
<1> HIDE DEF v
<1>4. ASSUME NEW k \in 1 .. a + n PROVE v[k] = w[k]
  <2>1. CASE k <= a
    <3>1. k \in 1 .. a
      BY <1>0, <2>1
    <3> QED BY <1>1, <1>2, <1>3, <2>1, <3>1
  <2>2. CASE ~ (k <= a)
    <3>1. k - a \in 1 .. n /\ a + (k - a) = k
      BY <1>0, <2>2
    <3>2. x[k - a] = tgt[k]
      BY <1>0, <3>1
    <3> QED BY <1>2, <1>3, <2>2, <3>2
  <2> QED BY <2>1, <2>2
<1>5. v = w
  BY <1>2, <1>3, <1>4, SeqEqual
<1> QED BY <1>5 DEF u, v, w, n

\* What comes up to one place, and what is from there to another.
LEMMA PrefixSplits ==
    ASSUME NEW t \in Seq(Byte), NEW from \in 0 .. Len(t), NEW to \in from .. Len(t)
    PROVE  /\ SubSeq(t, 1, from) \in Seq(Byte) /\ Len(SubSeq(t, 1, from)) = from
           /\ SubSeq(t, from + 1, to) \in Seq(Byte) /\ Len(SubSeq(t, from + 1, to)) = to - from
           /\ \A k \in 1 .. to - from : SubSeq(t, from + 1, to)[k] = t[from + k]
           /\ SubSeq(t, 1, to) = SubSeq(t, 1, from) \o SubSeq(t, from + 1, to)
<1>1. /\ from \in Nat /\ to \in Nat /\ to - from \in Nat /\ 0 + 1 = 1 /\ 0 + from = from
      /\ from + (to - from) = to /\ 0 + from <= Len(t) /\ from + (to - from) <= Len(t)
  OBVIOUS
<1>2. SubSeq(t, 0 + 1, 0 + from) \in Seq(Byte) /\ Len(SubSeq(t, 0 + 1, 0 + from)) = from
  BY <1>1, Taken
<1> DEFINE n == to - from
           piece == SubSeq(t, from + 1, from + n)
<1>3. piece \in Seq(Byte) /\ Len(piece) = n /\ \A k \in 1 .. n : piece[k] = t[from + k]
  <2> HIDE DEF n
  <2> QED BY <1>1, Taken DEF n
<1>4. piece = SubSeq(t, from + 1, to)
  BY <1>1
<1>5. SubSeq(t, 1, from) \o piece = SubSeq(t, 1, from + Len(piece))
  <2>1. Continues(piece, t, from)
    <3> HIDE DEF n, piece
    <3> QED BY <1>1, <1>3 DEF Continues, n
  <2> HIDE DEF piece
  <2> QED BY <1>1, <1>3, <2>1, Grown
<1> HIDE DEF piece
<1>6. from + Len(piece) = to
  BY <1>1, <1>3
<1> QED BY <1>1, <1>2, <1>3, <1>4, <1>5, <1>6

LEMMA Associates ==
    ASSUME NEW x \in Seq(Byte), NEW y \in Seq(Byte), NEW z \in Seq(Byte)
    PROVE  (x \o y) \o z = x \o (y \o z)
  OBVIOUS

\* A command does not start with the byte that to delta.c is the end of the string.
LEMMA StartsNoNUL ==
    ASSUME NEW d \in Seq(Byte), NEW p \in Nat, decodeInt(d, p).next < Len(d),
           d[decodeInt(d, p).next + 1] \in CommandBytes
    PROVE  p < Len(d) /\ d[p + 1] # NUL
<1> DEFINE end == digitsEnd(d, p)
<1>1. decodeInt(d, p).next = end
  BY DEF decodeInt
<1>2. end \in Nat /\ end >= p /\ end < Len(d) /\ Len(d) \in Nat
  BY <1>1, digitsEndType, LenProperties
<1>3. p < Len(d)
  <2> HIDE DEF end
  <2> QED BY <1>2
<1>4. CASE end = p
  BY <1>1, <1>3, <1>4, ZeroAssumption DEF NUL
<1>5. CASE end # p
  <2>1. p \in p .. end - 1
    <3> HIDE DEF end
    <3> QED BY <1>2, <1>5
  <2>2. decodeDigit[d[p + 1]] \in Nat /\ p + 1 \in 1 .. Len(d)
    BY <2>1, digitsEndType
  <2>3. d[p + 1] \in Byte
    BY <2>2
  <2>4. d[p + 1] \in DigitBytes
    <3>1. ASSUME d[p + 1] \in Byte \ DigitBytes PROVE FALSE
      <4>1. decodeDigit[d[p + 1]] < 0
        BY <3>1, decodeEncoded
      <4> QED BY <2>2, <4>1
    <3> QED BY <2>3, <3>1
  <2> QED BY <1>3, <2>4, ZeroAssumption DEF NUL
<1> QED BY <1>4, <1>5

\* The rounds of delta_apply follow a delta's trail.
rebuilt(tgt, s) == <<s[1], SubSeq(tgt, 1, s[2])>>

LEMMA rebuiltIs ==
    ASSUME NEW tgt \in Seq(Byte), NEW s \in Points, s[2] <= Len(tgt)
    PROVE  /\ rebuilt(tgt, s) \in Progress
           /\ rebuilt(tgt, s)[1] = s[1]
           /\ rebuilt(tgt, s)[2] = SubSeq(tgt, 1, s[2])
           /\ Len(SubSeq(tgt, 1, s[2])) = s[2]
           /\ SubSeq(tgt, 1, s[2]) \in Seq(Byte)
<1>1. s[1] \in Nat /\ s[2] \in Nat
  BY DEF Points
<1> DEFINE m == s[2]
           u == SubSeq(tgt, 1, m)
<1>2. 0 + m <= Len(tgt) /\ 0 \in Nat /\ m \in Nat /\ 0 + 1 = 1 /\ 0 + m = m
  BY <1>1
<1> HIDE DEF m
<1>3. SubSeq(tgt, 0 + 1, 0 + m) \in Seq(Byte) /\ Len(SubSeq(tgt, 0 + 1, 0 + m)) = m
  BY <1>2, Taken
<1>4. u \in Seq(Byte) /\ Len(u) = m
  BY <1>2, <1>3
<1> HIDE DEF u
<1>5. <<s[1], u>> \in Progress
  BY <1>1, <1>4 DEF Progress
<1> QED BY <1>4, <1>5 DEF m, u, rebuilt

\* The command at s of a delta to tgt, and what is there after it.
LEMMA RebuiltNext ==
    ASSUME NEW src \in Seq(Byte), NEW d \in Seq(Byte), NEW tgt \in Seq(Byte),
           NEW s \in Points, NEW r \in Points, s[2] <= Len(tgt),
           Rebuilds(d, src, tgt, s, r)
    PROVE  LET c == decodeInt(d, s[1])
               o == decodeInt(d, c.next + 1)
           IN  /\ s[1] < Len(d) /\ d[s[1] + 1] # NUL
               /\ c.next < Len(d) /\ s[2] + c.val <= Len(tgt) /\ r[1] > s[1]
               /\ \/ /\ d[c.next + 1] = At
                     /\ o.next < Len(d) /\ d[o.next + 1] = Comma
                     /\ o.val + c.val <= Len(src)
                     /\ copiedTo(src, d, rebuilt(tgt, s)) = rebuilt(tgt, r)
                  \/ /\ d[c.next + 1] = Colon
                     /\ r[1] = c.next + 1 + c.val /\ r[1] <= Len(d)
                     /\ insertedTo(d, rebuilt(tgt, s)) = rebuilt(tgt, r)
<1> DEFINE a == s[2]
           c == decodeInt(d, s[1])
           o == decodeInt(d, c.next + 1)
           q == c.next
           v == c.val
           b == s[1]
           x == rebuilt(tgt, s)
           y == rebuilt(tgt, r)
           out == SubSeq(tgt, 1, a)
<1>1. a \in Nat /\ b \in Nat /\ r[1] \in Nat /\ r[2] \in Nat /\ r = <<r[1], r[2]>>
  BY DEF Points
<1>2. q \in Nat /\ v \in Nat /\ q >= b /\ q + 1 \in Nat
  BY <1>1, decodeIntType, CodecAssumption, SMTT(30) DEF Words
<1>3. o.next \in Nat /\ o.val \in Nat /\ o.next >= q + 1
  BY <1>2, decodeIntType, CodecAssumption DEF Words
<1>4. Len(d) \in Nat /\ Len(src) \in Nat /\ Len(tgt) \in Nat
  BY LenProperties
<1>5. /\ q < Len(d)
      /\ r[2] = a + v /\ r[2] <= Len(tgt)
      /\ \/ /\ d[q + 1] = At
            /\ o.next < Len(d) /\ d[o.next + 1] = Comma /\ r[1] = o.next + 1
            /\ o.val + v <= Len(src)
            /\ \A k \in 1 .. v : src[o.val + k] = tgt[a + k]
         \/ /\ d[q + 1] = Colon
            /\ r[1] = q + 1 + v /\ r[1] <= Len(d)
            /\ \A k \in 1 .. v : d[q + 1 + k] = tgt[a + k]
  BY DEF Rebuilds
<1>6. d[q + 1] \in CommandBytes
  BY <1>5 DEF CommandBytes
<1>7. b < Len(d) /\ d[b + 1] # NUL
  BY <1>1, <1>5, <1>6, StartsNoNUL
<1>8. x \in Progress /\ x[1] = b /\ x[2] = out /\ Len(out) = a /\ out \in Seq(Byte)
  BY rebuiltIs
<1>9. y = <<r[1], SubSeq(tgt, 1, a + v)>>
  BY <1>5 DEF rebuilt
<1>10. a + v <= Len(tgt)
  BY <1>5
<1>11. CASE d[q + 1] = At
  <2>1. /\ o.next < Len(d) /\ d[o.next + 1] = Comma /\ r[1] = o.next + 1
        /\ o.val + v <= Len(src)
        /\ \A k \in 1 .. v : src[o.val + k] = tgt[a + k]
    <3>1. At # Colon
      BY CodecAssumption
    <3> HIDE DEF q, o, v, a
    <3> QED BY <1>5, <1>11, <3>1
  <2> DEFINE w == o.val
             piece == SubSeq(src, w + 1, w + v)
  <2>3. piece \in Seq(Byte) /\ Len(piece) = v /\ \A k \in 1 .. v : piece[k] = src[w + k]
    <3>1. w \in Nat /\ w + v <= Len(src)
      BY <1>3, <2>1
    <3> HIDE DEF w, v
    <3> QED BY <1>2, <3>1, Taken
  <2>4. copiedTo(src, d, x) = <<o.next + 1, out \o piece>>
    BY <1>8, Zenon DEF copiedTo
  <2>5. Continues(piece, tgt, a)
    BY <1>10, <2>1, <2>3 DEF Continues
  <2>6. out \o piece = SubSeq(tgt, 1, a + v)
    <3> HIDE DEF piece, a, v
    <3>1. piece \in Seq(Byte) /\ Len(piece) = v
      BY <2>3
    <3>2. SubSeq(tgt, 1, a) \o piece = SubSeq(tgt, 1, a + Len(piece))
      BY <1>1, <2>5, <3>1, Grown
    <3> QED BY <3>1, <3>2
  <2>7. copiedTo(src, d, x) = y
    <3> HIDE DEF piece, out, o
    <3> QED BY <1>9, <2>1, <2>4, <2>6
  <2>9. r[1] > b
    <3> HIDE DEF b, q, o
    <3> QED BY <1>1, <1>2, <1>3, <2>1
  <2> QED BY <1>5, <1>7, <1>10, <1>11, <2>1, <2>7, <2>9
<1>12. CASE d[q + 1] # At
  <2>1. /\ d[q + 1] = Colon
        /\ r[1] = q + 1 + v /\ r[1] <= Len(d)
        /\ \A k \in 1 .. v : d[q + 1 + k] = tgt[a + k]
    <3> HIDE DEF q, o, v, a
    <3> QED BY <1>5, <1>12
  <2> DEFINE w == q + 1
             piece == SubSeq(d, w + 1, w + v)
  <2>3. piece \in Seq(Byte) /\ Len(piece) = v /\ \A k \in 1 .. v : piece[k] = d[w + k]
    <3>1. w \in Nat /\ w + v <= Len(d)
      BY <1>2, <2>1
    <3> HIDE DEF w, v
    <3> QED BY <1>2, <3>1, Taken
  <2>4. insertedTo(d, x) = <<w + v, out \o piece>>
    <3>1. q + 2 = w + 1
      BY <1>2
    <3>2. insertedTo(d, x) = <<q + 1 + v, out \o SubSeq(d, q + 2, q + 1 + v)>>
      BY <1>8, Zenon DEF insertedTo
    <3> HIDE DEF q, v, out, x
    <3> QED BY <3>1, <3>2
  <2>5. Continues(piece, tgt, a)
    BY <1>10, <2>1, <2>3 DEF Continues
  <2>6. out \o piece = SubSeq(tgt, 1, a + v)
    <3> HIDE DEF piece, a, v
    <3>1. piece \in Seq(Byte) /\ Len(piece) = v
      BY <2>3
    <3>2. SubSeq(tgt, 1, a) \o piece = SubSeq(tgt, 1, a + Len(piece))
      BY <1>1, <2>5, <3>1, Grown
    <3> QED BY <3>1, <3>2
  <2>7. insertedTo(d, x) = y
    <3> HIDE DEF piece, out, q, v
    <3> QED BY <1>9, <2>1, <2>4, <2>6
  <2>10. r[1] > b
    <3> HIDE DEF b, q, v
    <3> QED BY <1>1, <1>2, <2>1
  <2> QED BY <1>5, <1>7, <1>10, <2>1, <2>7, <2>10
<1> QED BY <1>11, <1>12

\* A command that rebuilds starts within the delta and leads on.
LEMMA RebuildsMoves ==
    ASSUME NEW src \in Seq(Byte), NEW d \in Seq(Byte), NEW tgt \in Seq(Byte),
           NEW s \in Points, NEW r \in Points, s[2] <= Len(tgt),
           Rebuilds(d, src, tgt, s, r)
    PROVE  s[1] < Len(d) /\ r[1] > s[1]
  BY RebuiltNext

LEMMA RoundRebuilds ==
    ASSUME NEW src \in Seq(Byte), NEW d \in Seq(Byte), NEW tgt \in Seq(Byte),
           NEW s \in Points, NEW r \in Points, s[2] <= Len(tgt), Len(src) < Word \div 2,
           Rebuilds(d, src, tgt, s, r)
    PROVE  /\ rounds(src, d, Len(tgt))[rebuilt(tgt, s)] = rounds(src, d, Len(tgt))[rebuilt(tgt, r)]
           /\ s[1] < Len(d) /\ r[1] > s[1]
<1> DEFINE R == rounds(src, d, Len(tgt))
           c == decodeInt(d, s[1])
           o == decodeInt(d, c.next + 1)
           x == rebuilt(tgt, s)
           y == rebuilt(tgt, r)
<1>1. /\ s[1] < Len(d) /\ d[s[1] + 1] # NUL
      /\ c.next < Len(d) /\ s[2] + c.val <= Len(tgt) /\ r[1] > s[1]
      /\ \/ /\ d[c.next + 1] = At
            /\ o.next < Len(d) /\ d[o.next + 1] = Comma
            /\ o.val + c.val <= Len(src)
            /\ copiedTo(src, d, x) = y
         \/ /\ d[c.next + 1] = Colon
            /\ r[1] = c.next + 1 + c.val /\ r[1] <= Len(d)
            /\ insertedTo(d, x) = y
  <2> HIDE DEF x, y
  <2> QED BY RebuiltNext DEF x, y
<1>2. x \in Progress /\ x[1] = s[1] /\ Len(x[2]) = s[2] /\ Len(tgt) \in Nat
  BY rebuiltIs, LenProperties
<1>3. CASE copiedTo(src, d, x) = y /\ d[c.next + 1] = At
             /\ o.next < Len(d) /\ d[o.next + 1] = Comma /\ o.val + c.val <= Len(src)
  <2>1. Copying(src, d, Len(tgt), x)
    <3> HIDE DEF x, y
    <3>1. ~ (asInt(src) >= 0 /\ o.val + c.val > asInt(src))
      <4> DEFINE z == o.val + c.val
                 i == asInt(src)
      <4>1. i = Len(src) /\ i \in Nat
        BY passedIs, LenProperties
      <4>2. z <= i /\ z \in Nat
        <5>1. s[1] \in Nat
          BY DEF Points
        <5>2. c.next + 1 \in Nat /\ c.val \in Nat
          BY <5>1, decodeIntType, CodecAssumption DEF Words
        <5>3. o.val \in Nat
          BY <5>2, decodeIntType, CodecAssumption DEF Words
        <5> QED BY <1>3, <4>1, <5>2, <5>3
      <4> HIDE DEF z, i
      <4>3. ~ (z > i)
        BY <4>1, <4>2
      <4> QED BY <4>3 DEF z, i
    <3> QED BY <1>1, <1>2, <1>3, <3>1, Zenon DEF Copying
  <2> HIDE DEF x
  <2>2. R[x] = R[copiedTo(src, d, x)]
    BY <1>2, <2>1, roundsIs
  <2> QED BY <1>1, <1>3, <2>2 DEF x
<1>4. CASE insertedTo(d, x) = y /\ d[c.next + 1] = Colon
             /\ r[1] = c.next + 1 + c.val /\ r[1] <= Len(d)
  <2>1. Inserting(src, d, Len(tgt), x)
    <3>1. c.next + 1 + c.val <= Len(d)
      BY <1>4
    <3> HIDE DEF x, y
    <3> QED BY <1>1, <1>2, <1>4, <3>1, Zenon DEF Inserting
  <2> HIDE DEF x
  <2>2. R[x] = R[insertedTo(d, x)]
    BY <1>2, <2>1, roundsIs
  <2> QED BY <1>1, <1>4, <2>2 DEF x
<1> HIDE DEF x, y
<1> QED BY <1>1, <1>3, <1>4

LEMMA RoundEnds ==
    ASSUME NEW src \in Seq(Byte), NEW d \in Seq(Byte), NEW tgt \in Seq(Byte),
           NEW s \in Points, Ends(d, tgt, s)
    PROVE  /\ rounds(src, d, Len(tgt))[rebuilt(tgt, s)] = Accepted(tgt)
           /\ s[1] < Len(d)
<1> DEFINE R == rounds(src, d, Len(tgt))
           c == decodeInt(d, s[1])
           q == c.next
           x == rebuilt(tgt, s)
<1>1. s[1] \in Nat
  BY DEF Points
<1>2. q < Len(d) /\ d[q + 1] = Semi /\ c.val = checksum(tgt) /\ s[2] = Len(tgt)
  BY DEF Ends
<1>3. s[1] < Len(d) /\ d[s[1] + 1] # NUL
  <2>1. d[q + 1] \in CommandBytes
    BY <1>2 DEF CommandBytes
  <2> QED BY <1>1, <1>2, <2>1, StartsNoNUL
<1>4. SubSeq(tgt, 1, s[2]) = tgt
  BY <1>2, SubSeqFull
<1>5. x \in Progress /\ x[1] = s[1] /\ x[2] = tgt
  <2>1. s[2] <= Len(tgt)
    BY <1>2, LenProperties
  <2> QED BY <1>4, <2>1, rebuiltIs
<1>6. ~ Copying(src, d, Len(tgt), x) /\ ~ Inserting(src, d, Len(tgt), x)
  <2>1. Semi # At /\ Semi # Colon
    BY CodecAssumption
  <2> QED BY <1>2, <1>5, <2>1, Zenon DEF Copying, Inserting
<1>7. closed(src, d, Len(tgt), x) = Accepted(tgt)
  <2>1. ~ Overrunning(src, d, Len(tgt), x)
    <3>1. Semi # At
      BY CodecAssumption
    <3> QED BY <1>2, <1>5, <3>1, Zenon DEF Overrunning
  <2> QED BY <1>2, <1>3, <1>5, <2>1 DEF closed
<1>8. R[x] = closed(src, d, Len(tgt), x)
  <2> HIDE DEF x
  <2>1. Len(tgt) \in Nat
    BY LenProperties
  <2> QED BY <1>5, <1>6, <2>1, roundsIs
<1> QED BY <1>3, <1>7, <1>8

\* delta.c takes every delta from its source to a target, and makes that target of it,
\* when the lengths of all three fit its ints (delta.c: delta_apply).
THEOREM DescribedIsReadByC ==
    ASSUME NEW src \in Seq(Byte), NEW d \in Seq(Byte), NEW tgt \in Seq(Byte),
           Len(src) < Word \div 2, Len(d) < Word \div 2, Len(tgt) < Word \div 2,
           Describes(d, src, tgt)
    PROVE  delta_apply(src, d) = Accepted(tgt)
<1> DEFINE h == decodeInt(d, 0)
           R == rounds(src, d, Len(tgt))
<1>1. PICK S \in SUBSET Points : Trail(S, d, src, tgt)
  BY DEF Describes
<1>2. /\ h.next < Len(d) /\ d[h.next + 1] = NewLine /\ h.val = Len(tgt)
      /\ <<h.next + 1, 0>> \in S
      /\ \A s \in S : Ends(d, tgt, s) \/ \E r \in S : Rebuilds(d, src, tgt, s, r)
  BY <1>1 DEF Trail
<1>3. Len(d) \in Nat /\ Len(tgt) \in Nat
  BY LenProperties
<1> DEFINE Good(s) == R[rebuilt(tgt, s)] = Accepted(tgt)
           T == {m \in Nat : \A s \in S : s[2] <= Len(tgt) /\ Len(d) - s[1] = m => Good(s)}
<1>4. \A s \in S : s \in Points /\ s[1] \in Nat /\ s[2] \in Nat
  BY DEF Points
<1>5. ASSUME NEW s \in S, s[2] <= Len(tgt) PROVE s[1] < Len(d)
  BY <1>2, <1>4, <1>5, RoundEnds, RebuildsMoves
<1>6. ASSUME NEW m \in Nat, \A k \in 0 .. m - 1 : k \in T PROVE m \in T
  <2> SUFFICES ASSUME NEW s \in S, s[2] <= Len(tgt), Len(d) - s[1] = m PROVE Good(s)
    OBVIOUS
  <2>1. CASE Ends(d, tgt, s)
    BY <1>4, <2>1, RoundEnds
  <2>2. CASE \E r \in S : Rebuilds(d, src, tgt, s, r)
    <3>1. PICK r \in S : Rebuilds(d, src, tgt, s, r)
      BY <2>2
    <3>2. R[rebuilt(tgt, s)] = R[rebuilt(tgt, r)] /\ r[1] > s[1]
      BY <1>4, <3>1, RoundRebuilds
    <3>3. r[2] <= Len(tgt)
      BY <3>1 DEF Rebuilds
    <3>4. r[1] < Len(d)
      BY <1>5, <3>3
    <3> DEFINE k == Len(d) - r[1]
    <3>5. k \in 0 .. m - 1
      <4> DEFINE x == r[1]
                 y == s[1]
                 l == Len(d)
      <4>1. x \in Nat /\ y \in Nat /\ l \in Nat /\ x > y /\ x < l /\ l - y = m
        BY <1>3, <1>4, <3>2, <3>4
      <4> HIDE DEF x, y, l
      <4>2. l - x \in 0 .. m - 1
        BY <4>1
      <4> QED BY <4>2 DEF x, l
    <3>6. k \in T
      BY <1>6, <3>5
    <3>7. Good(r)
      BY <3>3, <3>6
    <3> QED BY <3>2, <3>7
  <2> QED BY <1>2, <2>1, <2>2
<1>7. \A m \in Nat : m \in T
  <2> HIDE DEF T
  <2> QED BY <1>6, StrongInduction
<1> DEFINE s == <<h.next + 1, 0>>
<1>8. s \in S /\ s[1] = h.next + 1 /\ s[2] = 0 /\ 0 <= Len(tgt)
  BY <1>2, <1>3
<1>9. Good(s)
  <2>1. s[2] <= Len(tgt) /\ s[1] \in Nat
    BY <1>4, <1>8
  <2>2. s[1] < Len(d)
    BY <1>5, <1>8, <2>1
  <2>3. Len(d) - s[1] \in Nat
    BY <1>3, <2>1, <2>2
  <2>4. Len(d) - s[1] \in T
    BY <1>7, <2>3
  <2> HIDE DEF s
  <2> QED BY <1>8, <2>1, <2>4
<1>10. rebuilt(tgt, s) = <<h.next + 1, <<>>>>
  <2>1. SubSeq(tgt, 1, 0) = <<>>
    BY SubSeqEmpty
  <2> QED BY <1>8, <2>1 DEF rebuilt
<1>11. delta_apply(src, d) =
         IF h.next >= Len(d) \/ d[h.next + 1] # NewLine
         THEN Rejected ELSE returned(rounds(src, d, h.val)[<<h.next + 1, <<>>>>])
  <2>1. getInt(d, 0) = h
    BY getIntIs
  <2>2. passed(d) = d
    BY passedIs
  <2> HIDE DEF h
  <2> QED BY <2>1, <2>2, delta_applyIs
<1>13. returned(Accepted(tgt)) = Accepted(tgt)
  BY returnedIs
<1>12. ~ (h.next >= Len(d))
  <2>1. h.next \in Nat
    BY decodeIntType
  <2> QED BY <1>2, <1>3, <2>1
<1> HIDE DEF h
<1> QED BY <1>2, <1>9, <1>10, <1>11, <1>12, <1>13

(***************************************************************************)
(* And what it takes is a delta.                                           *)
(***************************************************************************)

\* y begins with x.
BeginsWith(y, x) == Len(x) <= Len(y) /\ \A k \in 1 .. Len(x) : y[k] = x[k]

\* tgt begins with what has been written, and what is left of d rebuilds the rest of it.
Meant(src, d, s, tgt) ==
    /\ tgt \in Seq(Byte) /\ BeginsWith(tgt, s[2])
    /\ \E S \in SUBSET Points :
          /\ <<s[1], Len(s[2])>> \in S
          /\ \A x \in S : Ends(d, tgt, x) \/ \E r \in S : Rebuilds(d, src, tgt, x, r)

LEMMA MeantBefore ==
    ASSUME NEW src, NEW d, NEW tgt, NEW s \in Progress, NEW t \in Progress,
           Meant(src, d, t, tgt), BeginsWith(t[2], s[2]),
           Rebuilds(d, src, tgt, <<s[1], Len(s[2])>>, <<t[1], Len(t[2])>>)
    PROVE  Meant(src, d, s, tgt)
<1> DEFINE u == s[2]
           v == t[2]
           x == <<s[1], Len(u)>>
           y == <<t[1], Len(v)>>
<1>1. u \in Seq(Byte) /\ v \in Seq(Byte) /\ Len(u) \in Nat /\ Len(v) \in Nat /\ s[1] \in Nat
  BY LenProperties DEF Progress
<1>2. tgt \in Seq(Byte) /\ BeginsWith(tgt, v) /\ BeginsWith(v, u) /\ Len(tgt) \in Nat
  BY LenProperties DEF Meant
<1>3. BeginsWith(tgt, u)
  <2> HIDE DEF u, v
  <2>1. Len(u) <= Len(v) /\ Len(v) <= Len(tgt)
    BY <1>2 DEF BeginsWith
  <2>2. Len(u) <= Len(tgt) /\ \A k \in 1 .. Len(u) : k \in 1 .. Len(v)
    BY <1>1, <1>2, <2>1
  <2> QED BY <1>2, <2>2 DEF BeginsWith
<1>4. PICK S \in SUBSET Points :
          /\ y \in S
          /\ \A z \in S : Ends(d, tgt, z) \/ \E r \in S : Rebuilds(d, src, tgt, z, r)
  BY DEF Meant
<1>5. x \in Points
  BY <1>1 DEF Points
<1> DEFINE T == S \cup {x}
<1>6. T \in SUBSET Points /\ x \in T
  BY <1>5
<1>7. \A z \in T : Ends(d, tgt, z) \/ \E r \in T : Rebuilds(d, src, tgt, z, r)
  <2> HIDE DEF x, y
  <2>1. Rebuilds(d, src, tgt, x, y)
    BY DEF x, y
  <2> QED BY <1>4, <2>1
<1> HIDE DEF T
<1> QED BY <1>2, <1>3, <1>6, <1>7 DEF Meant

LEMMA CopiedMeant ==
    ASSUME NEW src \in Seq(Byte), NEW d \in Seq(Byte), NEW tgt, NEW s \in Progress,
           LET c == decodeInt(d, s[1])
               o == decodeInt(d, c.next + 1)
           IN  /\ c.next < Len(d) /\ d[c.next + 1] = At
               /\ o.next < Len(d) /\ d[o.next + 1] = Comma
               /\ o.val + c.val <= Len(src),
           Meant(src, d, copiedTo(src, d, s), tgt)
    PROVE  Meant(src, d, s, tgt)
<1> DEFINE p == s[1]
           out == s[2]
           c == decodeInt(d, p)
           o == decodeInt(d, c.next + 1)
           q == c.next
           v == c.val
           w == o.val
           piece == SubSeq(src, w + 1, w + v)
           t == copiedTo(src, d, s)
<1>1. p \in Nat /\ out \in Seq(Byte) /\ s = <<p, out>>
  BY DEF Progress
<1>2. q \in Nat /\ v \in Nat /\ q + 1 \in Nat
  BY <1>1, decodeIntType, CodecAssumption, SMTT(30) DEF Words
<1>3. o.next \in Nat /\ w \in Nat /\ w + v <= Len(src)
  BY <1>2, decodeIntType, CodecAssumption DEF Words
<1>4. piece \in Seq(Byte) /\ Len(piece) = v /\ \A k \in 1 .. v : piece[k] = src[w + k]
  <2> HIDE DEF w, v
  <2> QED BY <1>2, <1>3, Taken
<1> DEFINE joint == out \o piece
<1>5. t = <<o.next + 1, joint>>
  BY Zenon DEF copiedTo
<1> HIDE DEF piece
<1>6. /\ joint \in Seq(Byte) /\ Len(joint) = Len(out) + v /\ Len(out) \in Nat
      /\ \A k \in 1 .. Len(out) : joint[k] = out[k]
      /\ \A k \in 1 .. v : joint[Len(out) + k] = piece[k]
  <2> HIDE DEF out, v
  <2> QED BY <1>1, <1>4, Joined
<1>7. t \in Progress /\ t[1] = o.next + 1 /\ t[2] = joint
  <2> DEFINE m == o.next + 1
  <2>1. m \in Nat
    BY <1>3
  <2>2. t = <<m, joint>>
    BY <1>5
  <2> HIDE DEF m, joint, t
  <2> QED BY <1>6, <2>1, <2>2 DEF Progress, m
<1>8. BeginsWith(joint, out)
  <2> DEFINE a == Len(out)
  <2>1. a \in Nat /\ v \in Nat
    BY <1>2, <1>6
  <2> HIDE DEF a, v
  <2>2. a <= a + v
    BY <2>1
  <2> QED BY <1>6, <2>2 DEF BeginsWith, a
<1>9. tgt \in Seq(Byte) /\ BeginsWith(tgt, joint)
  BY <1>7 DEF Meant
<1>10. Len(out) + v <= Len(tgt)
  BY <1>6, <1>9 DEF BeginsWith
<1>11. \A k \in 1 .. v : src[w + k] = tgt[Len(out) + k]
  <2> SUFFICES ASSUME NEW k \in 1 .. v PROVE src[w + k] = tgt[Len(out) + k]
    OBVIOUS
  <2> DEFINE a == Len(out)
  <2>1. a + k \in 1 .. a + v
    <3>1. a \in Nat /\ v \in Nat
      BY <1>2, <1>6
    <3> HIDE DEF a, v
    <3> QED BY <3>1
  <2>2. a + k \in 1 .. Len(joint)
    BY <1>6, <2>1
  <2>3. tgt[a + k] = joint[a + k]
    BY <1>9, <2>2 DEF BeginsWith
  <2> QED BY <1>4, <1>6, <2>3
<1>12. Rebuilds(d, src, tgt, <<p, Len(out)>>, <<t[1], Len(t[2])>>)
  <2> DEFINE x == <<p, Len(out)>>
             y == <<t[1], Len(t[2])>>
  <2>1. x[1] = p /\ x[2] = Len(out) /\ y[1] = o.next + 1 /\ y[2] = Len(out) + v
    BY <1>6, <1>7
  <2>2. /\ c.next < Len(d) /\ d[c.next + 1] = At
        /\ o.next < Len(d) /\ d[o.next + 1] = Comma /\ o.val + c.val <= Len(src)
    BY Zenon
  <2> DEFINE cc == decodeInt(d, x[1])
             oo == decodeInt(d, cc.next + 1)
  <2>3. cc = c /\ oo = o
    <3> HIDE DEF x, p
    <3> QED BY <2>1
  <2>4. \A k \in 1 .. v : src[o.val + k] = tgt[x[2] + k]
    <3> HIDE DEF x, out
    <3> QED BY <1>11, <2>1
  <2>5. y[2] = x[2] + v /\ y[2] <= Len(tgt) /\ y[1] = o.next + 1
    <3> HIDE DEF x, y, out
    <3> QED BY <1>10, <2>1
  <2> HIDE DEF x, y, c, o
  <2>6. Rebuilds(d, src, tgt, x, y)
    BY <2>2, <2>3, <2>4, <2>5, Zenon DEF Rebuilds
  <2> QED BY <2>6 DEF x, y
<1> HIDE DEF t, joint, out
<1>13. BeginsWith(t[2], s[2])
  BY <1>7, <1>8 DEF out
<1> QED BY <1>7, <1>12, <1>13, MeantBefore DEF t, out, p

LEMMA InsertedMeant ==
    ASSUME NEW src \in Seq(Byte), NEW d \in Seq(Byte), NEW tgt, NEW s \in Progress,
           LET c == decodeInt(d, s[1])
           IN  /\ c.next < Len(d) /\ d[c.next + 1] = Colon
               /\ c.next + 1 + c.val <= Len(d),
           Meant(src, d, insertedTo(d, s), tgt)
    PROVE  Meant(src, d, s, tgt)
<1> DEFINE p == s[1]
           out == s[2]
           c == decodeInt(d, p)
           q == c.next
           v == c.val
           w == q + 1
           piece == SubSeq(d, w + 1, w + v)
           t == insertedTo(d, s)
<1>1. p \in Nat /\ out \in Seq(Byte) /\ s = <<p, out>>
  BY DEF Progress
<1>2. q \in Nat /\ v \in Nat /\ w \in Nat /\ w + v <= Len(d)
  <2>1. q \in Nat /\ v \in Words
    <3> HIDE DEF p
    <3> QED BY ONLY <1>1, d \in Seq(Byte), decodeIntType
  <2>2. q + 1 + v <= Len(d)
    OBVIOUS
  <2>3. v \in Nat
    <3> HIDE DEF v
    <3> QED BY ONLY <2>1, CodecAssumption DEF Words
  <2> HIDE DEF q, v
  <2> QED BY ONLY <2>1, <2>2, <2>3
<1>4. piece \in Seq(Byte) /\ Len(piece) = v /\ \A k \in 1 .. v : piece[k] = d[w + k]
  <2> HIDE DEF w, v
  <2> QED BY <1>2, Taken
<1> DEFINE joint == out \o piece
<1>5. t = <<w + v, joint>>
  <2>1. t = <<q + 1 + v, out \o SubSeq(d, q + 2, q + 1 + v)>>
    BY Zenon DEF insertedTo
  <2>2. q + 2 = w + 1
    BY <1>2
  <2> HIDE DEF t, q, v, out
  <2> QED BY <2>1, <2>2
<1> HIDE DEF piece
<1>6. /\ joint \in Seq(Byte) /\ Len(joint) = Len(out) + v /\ Len(out) \in Nat
      /\ \A k \in 1 .. Len(out) : joint[k] = out[k]
      /\ \A k \in 1 .. v : joint[Len(out) + k] = piece[k]
  <2> HIDE DEF out, v
  <2> QED BY <1>1, <1>4, Joined
<1>7. t \in Progress /\ t[1] = w + v /\ t[2] = joint
  <2> DEFINE m == w + v
  <2>1. m \in Nat
    BY <1>2
  <2>2. t = <<m, joint>>
    BY <1>5
  <2> HIDE DEF m, joint, t
  <2> QED BY <1>6, <2>1, <2>2 DEF Progress, m
<1>8. BeginsWith(joint, out)
  <2> DEFINE a == Len(out)
  <2>1. a \in Nat /\ v \in Nat
    BY <1>2, <1>6
  <2> HIDE DEF a, v
  <2>2. a <= a + v
    BY <2>1
  <2> QED BY <1>6, <2>2 DEF BeginsWith, a
<1>9. tgt \in Seq(Byte) /\ BeginsWith(tgt, joint)
  BY <1>7 DEF Meant
<1>10. Len(out) + v <= Len(tgt)
  BY <1>6, <1>9 DEF BeginsWith
<1>11. \A k \in 1 .. v : d[q + 1 + k] = tgt[Len(out) + k]
  <2> SUFFICES ASSUME NEW k \in 1 .. v PROVE d[w + k] = tgt[Len(out) + k]
    OBVIOUS
  <2> DEFINE a == Len(out)
  <2>1. a + k \in 1 .. a + v
    <3>1. a \in Nat /\ v \in Nat
      BY <1>2, <1>6
    <3> HIDE DEF a, v
    <3> QED BY <3>1
  <2>2. a + k \in 1 .. Len(joint)
    BY <1>6, <2>1
  <2>3. tgt[a + k] = joint[a + k]
    BY <1>9, <2>2 DEF BeginsWith
  <2> QED BY <1>4, <1>6, <2>3
<1>12. Rebuilds(d, src, tgt, <<p, Len(out)>>, <<t[1], Len(t[2])>>)
  <2> DEFINE x == <<p, Len(out)>>
             y == <<t[1], Len(t[2])>>
  <2>1. x[1] = p /\ x[2] = Len(out) /\ y[1] = q + 1 + v /\ y[2] = Len(out) + v
    BY <1>6, <1>7
  <2>2. /\ c.next < Len(d) /\ d[c.next + 1] = Colon
        /\ c.next + 1 + c.val <= Len(d)
    BY Zenon
  <2>3. y[1] <= Len(d)
    <3> HIDE DEF y
    <3> QED BY <2>1, <2>2
  <2> DEFINE cc == decodeInt(d, x[1])
  <2>6. cc = c
    <3> HIDE DEF x, p
    <3> QED BY <2>1
  <2>4. \A k \in 1 .. v : d[q + 1 + k] = tgt[x[2] + k]
    <3> HIDE DEF x, out
    <3> QED BY <1>11, <2>1
  <2>5. y[2] = x[2] + v /\ y[2] <= Len(tgt) /\ y[1] = q + 1 + v
    <3> HIDE DEF x, y, out
    <3> QED BY <1>10, <2>1
  <2> HIDE DEF x, y, c
  <2>7. Rebuilds(d, src, tgt, x, y)
    BY <2>2, <2>3, <2>6, <2>4, <2>5, Zenon DEF Rebuilds
  <2> QED BY <2>7 DEF x, y
<1> HIDE DEF t, joint, out
<1>13. BeginsWith(t[2], s[2])
  BY <1>7, <1>8 DEF out
<1> QED BY <1>7, <1>12, <1>13, MeantBefore DEF t, out, p

LEMMA ClosedMeant ==
    ASSUME NEW src \in Seq(Byte), NEW d \in Seq(Byte), NEW s \in Progress,
           LET c == decodeInt(d, s[1])
           IN  c.next < Len(d) /\ d[c.next + 1] = Semi /\ c.val = checksum(s[2])
    PROVE  Meant(src, d, s, s[2])
<1> DEFINE out == s[2]
           x == <<s[1], Len(out)>>
           S == {x}
<1>1. out \in Seq(Byte) /\ Len(out) \in Nat /\ s[1] \in Nat
  BY LenProperties DEF Progress
<1>2. S \in SUBSET Points
  BY <1>1 DEF Points
<1>3. BeginsWith(out, out)
  BY <1>1 DEF BeginsWith
<1>4. Ends(d, out, x)
  BY DEF Ends
<1> HIDE DEF x
<1>5. x \in S /\ \A z \in S : Ends(d, out, z) \/ \E r \in S : Rebuilds(d, src, out, z, r)
  BY <1>4
<1> HIDE DEF S
<1> QED BY <1>1, <1>2, <1>3, <1>5 DEF Meant, x

\* Past its end a delta has no command.
LEMMA NothingPastEnd ==
    ASSUME NEW src \in Seq(Byte), NEW d \in Seq(Byte), NEW limit \in Nat, NEW s \in Progress,
           ~ (s[1] < Len(d))
    PROVE  rounds(src, d, limit)[s] = Rejected
<1>1. ~ Copying(src, d, limit, s) /\ ~ Inserting(src, d, limit, s)
      /\ closed(src, d, limit, s) = Rejected
  BY DEF Copying, Inserting, Overrunning, closed
<1> QED BY <1>1, roundsIs

\* Nothing comes of the commands from s on, or what they mean.
Comes(src, d, limit, s, r) ==
    r \in {Rejected, Undefined} \/ \E tgt : r = Accepted(tgt) /\ Len(tgt) = limit /\ Meant(src, d, s, tgt)

LEMMA RoundsMeant ==
    ASSUME NEW src \in Seq(Byte), NEW d \in Seq(Byte), NEW limit \in Nat, NEW s0 \in Progress
    PROVE  Comes(src, d, limit, s0, rounds(src, d, limit)[s0])
<1> DEFINE R == rounds(src, d, limit)
           L == Len(d)
           Good(s) == Comes(src, d, limit, s, R[s])
           T == {m \in Nat : \A s \in Progress : s[1] < L /\ L - s[1] = m => Good(s)}
<1>1. L \in Nat
  BY LenProperties
<1>2. ASSUME NEW s \in Progress, ~ (s[1] < L) PROVE Good(s)
  BY <1>2, NothingPastEnd DEF Comes
<1>3. ASSUME NEW m \in Nat, \A k \in 0 .. m - 1 : k \in T PROVE m \in T
  <2> SUFFICES ASSUME NEW s \in Progress, s[1] < L, L - s[1] = m PROVE Good(s)
    OBVIOUS
  <2>1. ASSUME NEW t \in Progress, t[1] > s[1] PROVE Good(t)
    <3>1. CASE ~ (t[1] < L)
      BY <1>2, <3>1
    <3>2. CASE t[1] < L
      <4> DEFINE x == t[1]
                 y == s[1]
      <4>1. x \in Nat /\ y \in Nat /\ x > y /\ x < L /\ L - y = m
        BY <2>1, <3>2 DEF Progress
      <4> HIDE DEF x, y, L, T, Good
      <4>2. L - x \in 0 .. m - 1 /\ L - x \in Nat
        BY <1>1, <4>1
      <4>3. L - x \in T
        BY <1>3, <4>2
      <4> QED BY <3>2, <4>3 DEF T, x
    <3> QED BY <3>1, <3>2
  <2> DEFINE c == decodeInt(d, s[1])
             o == decodeInt(d, c.next + 1)
  <2>2. CASE Copying(src, d, limit, s)
    <3> DEFINE t == copiedTo(src, d, s)
    <3>1. t \in Progress /\ t[1] > s[1] /\ R[s] = R[t]
      BY <2>2, CopiedType, roundsIs
    <3>2. Good(t)
      BY <2>1, <3>1
    <3>3. CASE o.next < L
      <4>1. /\ c.next < L /\ d[c.next + 1] = At /\ d[o.next + 1] = Comma
            /\ o.val + c.val <= Len(src)
        BY <2>2, <3>3 DEF Copying
      <4>2. \A tgt : Meant(src, d, t, tgt) => Meant(src, d, s, tgt)
        BY <3>3, <4>1, CopiedMeant
      <4> HIDE DEF t, R
      <4> QED BY <3>1, <3>2, <4>2 DEF Comes
    <3>4. CASE ~ (o.next < L)
      <4>1. t[1] = o.next + 1 /\ o.next \in Nat
        <5>1. s[1] \in Nat
          BY DEF Progress
        <5>2. c.next + 1 \in Nat
          BY <5>1, decodeIntType
        <5>3. o.next \in Nat
          BY <5>2, decodeIntType
        <5>4. t[1] = o.next + 1
          BY DEF copiedTo
        <5> QED BY <5>3, <5>4
      <4>2. ~ (t[1] < L)
        <5> DEFINE a == o.next
        <5>1. a \in Nat /\ ~ (a < L) /\ t[1] = a + 1
          BY <3>4, <4>1
        <5> HIDE DEF a, L, t
        <5>2. ~ (a + 1 < L)
          BY <1>1, <5>1
        <5> QED BY <5>1, <5>2
      <4>3. R[t] = Rejected
        BY <3>1, <4>2, NothingPastEnd
      <4> QED BY <3>1, <4>3 DEF Comes
    <3> QED BY <3>3, <3>4
  <2>3. CASE Inserting(src, d, limit, s)
    <3> DEFINE t == insertedTo(d, s)
    <3>1. t \in Progress /\ t[1] > s[1] /\ R[s] = R[t]
      BY <2>3, InsertedType, roundsIs
    <3>2. Good(t)
      BY <2>1, <3>1
    <3>3. c.next < L /\ d[c.next + 1] = Colon /\ c.next + 1 + c.val <= L
      BY <2>3 DEF Inserting
    <3>4. \A tgt : Meant(src, d, t, tgt) => Meant(src, d, s, tgt)
      BY <3>3, InsertedMeant
    <3> HIDE DEF t, R
    <3> QED BY <3>1, <3>2, <3>4 DEF Comes
  <2>4. CASE ~ Copying(src, d, limit, s) /\ ~ Inserting(src, d, limit, s)
    <3>1. R[s] = closed(src, d, limit, s)
      BY <2>4, roundsIs
    <3>2. CASE closed(src, d, limit, s) \in {Rejected, Undefined}
      BY <3>1, <3>2 DEF Comes
    <3>3. CASE closed(src, d, limit, s) \notin {Rejected, Undefined}
      <4>1. /\ c.next < L /\ d[c.next + 1] = Semi /\ c.val = checksum(s[2]) /\ Len(s[2]) = limit
            /\ closed(src, d, limit, s) = Accepted(s[2])
        BY <3>3 DEF closed
      <4>2. Meant(src, d, s, s[2])
        BY <4>1, ClosedMeant
      <4> QED BY <3>1, <4>1, <4>2 DEF Comes
    <3> QED BY <3>2, <3>3
  <2> QED BY <2>2, <2>3, <2>4
<1>4. \A m \in Nat : m \in T
  <2> HIDE DEF T
  <2> QED BY <1>3, StrongInduction
<1>5. CASE s0[1] < L
  <2>1. s0[1] \in Nat
    BY DEF Progress
  <2>2. L - s0[1] \in Nat
    BY <1>1, <1>5, <2>1
  <2>3. L - s0[1] \in T
    BY <1>4, <2>2
  <2> QED BY <1>5, <2>3
<1> QED BY <1>2, <1>5

\* What delta.c makes of a delta is what the delta describes: it takes no other bytes for
\* one, when the lengths fit its ints (delta.c: delta_apply).
THEOREM ReadByCIsDescribed ==
    ASSUME NEW src \in Seq(Byte), NEW d \in Seq(Byte),
           Len(src) < Word \div 2, Len(d) < Word \div 2, delta_apply(src, d).ok
    PROVE  /\ delta_apply(src, d).out \in Seq(Byte)
           /\ delta_apply(src, d) = Accepted(delta_apply(src, d).out)
           /\ Describes(d, src, delta_apply(src, d).out)
<1> DEFINE h == decodeInt(d, 0)
           s == <<h.next + 1, <<>>>>
           r == rounds(src, d, h.val)[s]
<1>1. h.next \in Nat /\ h.val \in Nat /\ Len(d) \in Nat
  BY decodeIntType, CodecAssumption, LenProperties DEF Words
<1>2. delta_apply(src, d) =
         IF h.next >= Len(d) \/ d[h.next + 1] # NewLine
         THEN Rejected ELSE returned(r)
  <2>1. getInt(d, 0) = h
    BY getIntIs
  <2>2. passed(d) = d
    BY passedIs
  <2> HIDE DEF h
  <2> QED BY <2>1, <2>2, delta_applyIs
<1>3. /\ ~ Rejected.ok /\ ~ Undefined.ok
      /\ \A t : Accepted(t).ok /\ Accepted(t).out = t
  BY DEF Rejected, Undefined, Stopped, Accepted
<1>4. h.next < Len(d) /\ d[h.next + 1] = NewLine /\ delta_apply(src, d) = r
  <2> HIDE DEF r, h
  <2>1. ~ (h.next >= Len(d)) /\ d[h.next + 1] = NewLine /\ delta_apply(src, d) = returned(r)
    BY <1>2, <1>3
  <2>2. returned(r) = r
    BY <1>3, <2>1 DEF returned
  <2> QED BY <1>1, <2>1, <2>2
<1>5. s \in Progress /\ s[1] = h.next + 1 /\ s[2] = <<>>
  <2> DEFINE m == h.next + 1
  <2>1. m \in Nat /\ <<>> \in Seq(Byte) /\ s = <<m, <<>>>>
    BY <1>1
  <2> HIDE DEF m, s
  <2> QED BY <2>1 DEF Progress, m
<1>6. Comes(src, d, h.val, s, r)
  <2> HIDE DEF s, h
  <2> QED BY <1>1, <1>5, RoundsMeant
<1> HIDE DEF r, s
<1>7. PICK tgt : r = Accepted(tgt) /\ Len(tgt) = h.val /\ Meant(src, d, s, tgt)
  BY <1>3, <1>4, <1>6 DEF Comes
<1>8. PICK S \in SUBSET Points :
          /\ <<s[1], Len(s[2])>> \in S
          /\ \A x \in S : Ends(d, tgt, x) \/ \E q \in S : Rebuilds(d, src, tgt, x, q)
  BY <1>7 DEF Meant
<1>9. Len(s[2]) = 0
  BY <1>5
<1>10. Trail(S, d, src, tgt)
  BY <1>4, <1>5, <1>7, <1>8, <1>9 DEF Trail
<1>11. Describes(d, src, tgt)
  BY <1>10 DEF Describes
<1>12. tgt \in Seq(Byte) /\ delta_apply(src, d).out = tgt
  BY <1>3, <1>4, <1>7 DEF Meant
<1> QED BY <1>4, <1>7, <1>11, <1>12

(***************************************************************************)
(* The JavaScript decoder reads a number as decodeInt does, where the low  *)
(* bits of a byte say which digit it is.                                   *)
(***************************************************************************)

LEMMA HalfTable == /\ ByteCard \div 2 \in Nat /\ ByteCard \div 2 >= 1 /\ ByteCard \div 2 <= ByteCard
<1>1. Radix >= 2 /\ Alphabet \in Seq(Byte) /\ Len(Alphabet) = Radix
  BY CodecAssumption, RadixIs DEF Radix
<1>2. 1 \in 1 .. Radix /\ 2 \in 1 .. Radix
  BY <1>1, RadixIs
<1>3. Alphabet[1] \in Byte /\ Alphabet[2] \in Byte /\ Alphabet[1] < Alphabet[2]
  BY <1>1, <1>2, CodecAssumption
<1>4. ByteCard \in Nat /\ ByteCard >= 2
  <2> DEFINE a == Alphabet[1]
             b == Alphabet[2]
  <2>1. a \in 0 .. ByteCard - 1 /\ b \in 0 .. ByteCard - 1 /\ a < b /\ ByteCard \in Nat
    BY <1>3, CodecAssumption DEF Byte
  <2> HIDE DEF a, b
  <2> QED BY <2>1
<1> QED BY <1>4

LEMMA lowValueType ==
    \A c \in Byte : /\ lowValue(c) \in Int /\ lowValue(c) >= -1
                    /\ c < ByteCard \div 2 => lowValue(c) = zValue[c]
<1> TAKE c \in Byte
<1>1. c \in Nat /\ c < ByteCard /\ ByteCard \in Nat
  BY CodecAssumption DEF Byte
<1>2. lowBits(c) \in Byte /\ (c < ByteCard \div 2 => lowBits(c) = c)
  <2> DEFINE h == ByteCard \div 2
  <2>1. h \in Nat /\ h >= 1 /\ h <= ByteCard
    BY HalfTable
  <2> HIDE DEF h
  <2>2. c % h \in 0 .. ByteCard - 1 /\ (c < h => c % h = c)
    BY <1>1, <2>1
  <2> QED BY <2>2 DEF lowBits, Byte, h
<1>3. zValue[lowBits(c)] \in -1 .. Radix - 1
  BY <1>2, zValueIs, decodeDigitType
<1> QED BY <1>2, <1>3, RadixIs DEF lowValue

\* The loop of Reader.getInt.
reading(d) ==
    CHOOSE scan : scan = [s \in Nat \X Words |->
        IF s[1] >= Len(d) THEN [val |-> s[2], next |-> s[1] - 1]
        ELSE IF lowValue(d[s[1] + 1]) < 0 THEN [val |-> s[2], next |-> s[1]]
        ELSE scan[<<s[1] + 1, (s[2] * Radix + lowValue(d[s[1] + 1])) % Word>>]]

LEMMA readingIs ==
    ASSUME NEW d \in Seq(Byte), NEW z \in Nat, NEW v \in Words
    PROVE  /\ z >= Len(d) => reading(d)[<<z, v>>] = [val |-> v, next |-> z - 1]
           /\ z < Len(d) /\ lowValue(d[z + 1]) < 0 =>
                 reading(d)[<<z, v>>] = [val |-> v, next |-> z]
           /\ z < Len(d) /\ lowValue(d[z + 1]) >= 0 =>
                 /\ (v * Radix + lowValue(d[z + 1])) % Word \in Words
                 /\ reading(d)[<<z, v>>] =
                       reading(d)[<<z + 1, (v * Radix + lowValue(d[z + 1])) % Word>>]
<1> DEFINE S == Nat \X Words
           L == Len(d)
           left == [s \in S |-> IF s[1] < L THEN L - s[1] ELSE 0]
           Go == {s \in S : s[1] < L /\ lowValue(d[s[1] + 1]) >= 0}
           to(s) == <<s[1] + 1, (s[2] * Radix + lowValue(d[s[1] + 1])) % Word>>
           step == [s \in Go |-> to(s)]
           res == [s \in S |-> IF s[1] >= L THEN [val |-> s[2], next |-> s[1] - 1]
                               ELSE [val |-> s[2], next |-> s[1]]]
<1>1. L \in Nat /\ Words \subseteq Nat
  BY LenProperties, CodecAssumption DEF Words
<1>2. left \in [S -> 0 .. L]
  <2> HIDE DEF L
  <2> QED BY <1>1
<1>3. \A s \in Go : to(s) \in S
  <2> TAKE s \in Go
  <2>1. s[1] \in Nat /\ s[2] \in Words /\ s[1] < L
    OBVIOUS
  <2>2. d[s[1] + 1] \in Byte
    BY <2>1
  <2>3. lowValue(d[s[1] + 1]) \in Nat
    BY <2>2, lowValueType
  <2>4. (s[2] * Radix + lowValue(d[s[1] + 1])) % Word \in Words
    BY <1>1, <2>1, <2>3, WrappedInWords
  <2> QED BY <2>1, <2>4
<1>4. step \in [Go -> S]
  BY <1>3
<1>5. \A s \in Go : left[step[s]] < left[s]
  <2> TAKE s \in Go
  <2>1. to(s) \in S /\ to(s)[1] = s[1] + 1 /\ step[s] = to(s)
    BY <1>3
  <2>2. s[1] \in Nat /\ s[1] < L /\ s \in S
    OBVIOUS
  <2> HIDE DEF to, step, L, Go
  <2>3. left[to(s)] = IF s[1] + 1 < L THEN L - (s[1] + 1) ELSE 0
    BY <2>1
  <2> QED BY <1>1, <2>1, <2>2, <2>3
<1> DEFINE Body(f, s) ==
              IF s[1] >= L THEN [val |-> s[2], next |-> s[1] - 1]
              ELSE IF lowValue(d[s[1] + 1]) < 0 THEN [val |-> s[2], next |-> s[1]]
              ELSE f[<<s[1] + 1, (s[2] * Radix + lowValue(d[s[1] + 1])) % Word>>]
<1>6. \E f : f = [s \in S |-> IF s \in Go THEN f[step[s]] ELSE res[s]]
  <2>1. \A s \in Go : s \in S
    BY Zenon
  <2>2. Go \in SUBSET S
    BY ONLY <2>1, Zenon
  <2> HIDE DEF S, left, Go, step, res, L
  <2>3. L \in Nat
    BY <1>1
  <2>4. Shrinks(Go, step, left)
    BY <1>5 DEF Shrinks
  <2>5. \E f : HandsOn(S, Go, step, res, f)
    BY ONLY <2>3, <1>2, <1>4, <2>2, <2>4, TailRecursionExists
  <2> QED BY <2>5 DEF HandsOn
<1>7. \E f : f = [s \in S |-> Body(f, s)]
  <2>1. PICK f : f = [s \in S |-> IF s \in Go THEN f[step[s]] ELSE res[s]]
    BY <1>6
  <2>2. \A s \in S : (IF s \in Go THEN f[step[s]] ELSE res[s]) = Body(f, s)
    <3> SUFFICES ASSUME NEW s \in S
                 PROVE  (IF s \in Go THEN f[step[s]] ELSE res[s]) = Body(f, s)
      OBVIOUS
    <3>1. s[1] \in Nat
      OBVIOUS
    <3>2. CASE s[1] >= L
      <4>1. ~ (s[1] < L)
        <5> HIDE DEF L
        <5> QED BY <1>1, <3>1, <3>2
      <4> QED BY <3>2, <4>1
    <3>3. CASE ~ (s[1] >= L)
      <4>1. s[1] < L
        <5> HIDE DEF L
        <5> QED BY <1>1, <3>1, <3>3
      <4>2. lowValue(d[s[1] + 1]) \in Int
        <5>1. d[s[1] + 1] \in Byte
          BY <3>1, <4>1
        <5> QED BY <5>1, lowValueType
      <4> DEFINE g == lowValue(d[s[1] + 1])
      <4>3. g >= 0 <=> ~ (g < 0)
        <5>1. g \in Int
          BY <4>2
        <5> HIDE DEF g
        <5> QED BY <5>1
      <4>4. s \in Go <=> g >= 0
        BY <4>1
      <4> QED BY <3>3, <4>1, <4>3, <4>4
    <3> QED BY <3>2, <3>3
  <2> HIDE DEF Go, step, res, Body
  <2>3. [s \in S |-> IF s \in Go THEN f[step[s]] ELSE res[s]] = [s \in S |-> Body(f, s)]
    BY <2>2
  <2> QED BY <2>1, <2>3
<1>8. reading(d) = [s \in S |-> Body(reading(d), s)]
  BY <1>7, Zenon DEF reading
<1>9. <<z, v>> \in S
  OBVIOUS
<1>10. reading(d)[<<z, v>>] = Body(reading(d), <<z, v>>)
  <2> HIDE DEF Body, S
  <2> QED BY <1>8, <1>9
<1> DEFINE g == lowValue(d[z + 1])
           R == reading(d)
           w == (v * Radix + g) % Word
<1>11. R[<<z, v>>] = IF z >= L THEN [val |-> v, next |-> z - 1]
                     ELSE IF g < 0 THEN [val |-> v, next |-> z] ELSE R[<<z + 1, w>>]
  BY <1>10
<1>12. z < L => g \in Int
  <2> SUFFICES ASSUME z < L PROVE g \in Int
    OBVIOUS
  <2>1. d[z + 1] \in Byte
    OBVIOUS
  <2> QED BY <2>1, lowValueType
<1>13. z < L /\ g >= 0 => w \in Words
  BY <1>1, <1>12, WrappedInWords
<1> HIDE DEF R, w, g, L
<1>14. /\ z >= L => R[<<z, v>>] = [val |-> v, next |-> z - 1]
       /\ z < L /\ g < 0 => R[<<z, v>>] = [val |-> v, next |-> z]
       /\ z < L /\ g >= 0 => w \in Words /\ R[<<z, v>>] = R[<<z + 1, w>>]
  BY <1>1, <1>11, <1>12, <1>13
<1> QED BY <1>14 DEF R, w, g, L

LEMMA ReaderIsReading ==
    ASSUME NEW d \in Seq(Byte), NEW p \in Nat
    PROVE  Reader_getInt(d, p) = reading(d)[<<p, 0>>]
  BY Zenon DEF Reader_getInt, reading

\* A number has a value, and leaves the reader within the bytes there are.
LEMMA ReaderType ==
    ASSUME NEW d \in Seq(Byte), NEW p \in Nat
    PROVE  /\ Reader_getInt(d, p).val \in Words
           /\ Reader_getInt(d, p).next \in Int
           /\ p < Len(d) => /\ Reader_getInt(d, p).next >= p
                            /\ Reader_getInt(d, p).next < Len(d)
           /\ p >= Len(d) => Reader_getInt(d, p).next = p - 1
<1> DEFINE L == Len(d)
           R == reading(d)
           Settled(r, z) == /\ r.val \in Words /\ r.next \in Int
                            /\ z < L => r.next >= z /\ r.next < L
                            /\ z >= L => r.next = z - 1
           T == {m \in Nat : \A z \in Nat, v \in Words : z + m >= L => Settled(R[<<z, v>>], z)}
<1>1. L \in Nat /\ 0 \in Words
  BY LenProperties, CodecAssumption DEF Words
<1>2. ASSUME NEW z \in Nat, NEW v \in Words, z >= L PROVE Settled(R[<<z, v>>], z)
  <2>1. R[<<z, v>>] = [val |-> v, next |-> z - 1]
    BY <1>2, readingIs
  <2> DEFINE r == R[<<z, v>>]
  <2>2. r.val = v /\ r.next = z - 1
    BY <2>1
  <2> HIDE DEF r, R, L
  <2>3. Settled(r, z)
    BY <1>1, <1>2, <2>2
  <2> QED BY <2>3 DEF r
<1>3. 0 \in T
  <2> HIDE DEF Settled, L, R
  <2> QED BY <1>2
<1>4. ASSUME NEW m \in T PROVE m + 1 \in T
  <2> SUFFICES ASSUME NEW z \in Nat, NEW v \in Words, z + (m + 1) >= L
               PROVE  Settled(R[<<z, v>>], z)
    OBVIOUS
  <2>1. CASE z >= L
    <3> HIDE DEF Settled, L, R
    <3> QED BY <1>2, <2>1
  <2>2. CASE ~ (z >= L)
    <3> DEFINE g == lowValue(d[z + 1])
               w == (v * Radix + g) % Word
               r == R[<<z, v>>]
    <3>1. z < L /\ m \in Nat
      <4> HIDE DEF L
      <4> QED BY <1>1, <2>2
    <3>2. g \in Int
      <4>1. d[z + 1] \in Byte
        BY <3>1
      <4> QED BY <4>1, lowValueType
    <3>3. CASE g < 0
      <4>1. r = [val |-> v, next |-> z]
        BY <3>1, <3>3, readingIs, ZenonT(30)
      <4>2. r.val = v /\ r.next = z
        BY <4>1
      <4> HIDE DEF r, R, L
      <4>3. Settled(r, z)
        BY <1>1, <3>1, <4>2
      <4> QED BY <4>3 DEF r
    <3>4. CASE ~ (g < 0)
      <4>1. g >= 0
        <5> HIDE DEF g
        <5> QED BY <3>2, <3>4
      <4>2. w \in Words /\ r = R[<<z + 1, w>>]
        BY <3>1, <4>1, readingIs, ZenonT(30)
      <4>3. Settled(r, z + 1)
        <5> HIDE DEF Settled, L, R, w, r
        <5>1. (z + 1) + m >= L /\ z + 1 \in Nat
          BY <1>1, <3>1
        <5>2. Settled(R[<<z + 1, w>>], z + 1)
          BY <1>4, <4>2, <5>1
        <5> QED BY <4>2, <5>2
      <4> HIDE DEF r, R, L
      <4> DEFINE a == r.next
      <4>4. /\ r.val \in Words /\ a \in Int
            /\ z + 1 < L => a >= z + 1 /\ a < L
            /\ z + 1 >= L => a = (z + 1) - 1
        BY <4>3
      <4> HIDE DEF a
      <4>5. a >= z /\ a < L
        BY <1>1, <3>1, <4>4
      <4>6. Settled(r, z)
        BY <1>1, <3>1, <4>4, <4>5 DEF a
      <4> QED BY <4>6 DEF r
    <3> QED BY <3>3, <3>4
  <2> QED BY <2>1, <2>2
<1>5. T = Nat
  <2> HIDE DEF T
  <2>1. T \in SUBSET Nat
    BY DEF T
  <2> QED BY <1>3, <1>4, <2>1, SetInduction
<1>6. Settled(R[<<p, 0>>], p)
  <2>1. L \in T /\ p + L >= L
    <3> HIDE DEF L, T
    <3> QED BY <1>1, <1>5
  <2> HIDE DEF Settled, L, R
  <2> QED BY <1>1, <2>1
<1>7. Reader_getInt(d, p) = R[<<p, 0>>]
  BY ReaderIsReading
<1> QED BY <1>6, <1>7

\* What is read at p, with the byte that ends it, are bytes the small table knows.
Plain(d, p) ==
    \A k \in p + 1 .. decodeInt(d, p).next + 1 :
        k <= Len(d) => lowValue(d[k]) = zValue[d[k]]

\* Then it is the same number, and it ends at the same place: but one before it, where
\* no byte has ended it (fossil-delta.mjs: Reader.getInt; codec.go: decodeInt).
LEMMA ReadsAs ==
    ASSUME NEW d \in Seq(Byte), NEW p \in Nat, Plain(d, p)
    PROVE  LET c == decodeInt(d, p)
           IN  /\ Reader_getInt(d, p).val = c.val
               /\ c.next < Len(d) => Reader_getInt(d, p).next = c.next
               /\ c.next >= Len(d) => Reader_getInt(d, p).next = c.next - 1
<1> DEFINE end == digitsEnd(d, p)
           f == valuesFrom(d, p)
           T == {m \in Nat : p + m <= end => reading(d)[<<p + m, f[p + m]>>] = Reader_getInt(d, p)}
<1>1. end \in Nat /\ end >= p
  BY digitsEndType
<1>2. \A k \in p .. end : f[k] \in Words
  BY valuesFromType
<1>3. /\ f[p] = 0
      /\ \A k \in p + 1 .. end : f[k] = (f[k - 1] * Radix + decodeDigit[d[k]]) % Word
  <2> DEFINE Step(k) == IF k = p THEN 0 ELSE (f[k - 1] * Radix + decodeDigit[d[k]]) % Word
  <2>1. f = [k \in p .. end |-> Step(k)]
    BY valuesFromIs
  <2>2. p \in p .. end /\ \A k \in p + 1 .. end : k \in p .. end /\ k # p
    BY <1>1
  <2> HIDE DEF f, end
  <2> QED BY <2>1, <2>2
<1>a. decodeInt(d, p) = [val |-> f[end], next |-> end]
  BY Zenon DEF decodeInt, valuesFrom
<1>b. \A k \in p + 1 .. end + 1 : k <= Len(d) => lowValue(d[k]) = decodeDigit[d[k]]
  <2>1. decodeInt(d, p).next = end
    BY <1>a
  <2> SUFFICES ASSUME NEW k \in p + 1 .. end + 1, k <= Len(d) PROVE lowValue(d[k]) = decodeDigit[d[k]]
    OBVIOUS
  <2>2. lowValue(d[k]) = zValue[d[k]]
    BY <2>1 DEF Plain
  <2>3. k \in 1 .. Len(d)
    <3> HIDE DEF end
    <3> QED BY <1>1
  <2>4. d[k] \in Byte
    BY <2>3
  <2> QED BY <2>2, <2>4, zValueIs
<1>4. 0 \in T
  BY <1>3, ReaderIsReading
<1>5. ASSUME NEW m \in T PROVE m + 1 \in T
  <2> SUFFICES ASSUME p + (m + 1) <= end
               PROVE  reading(d)[<<p + (m + 1), f[p + (m + 1)]>>] = Reader_getInt(d, p)
    OBVIOUS
  <2> DEFINE z == p + m
             v == f[z]
  <2>1. z \in Nat /\ z \in p .. end - 1 /\ z \in p .. end /\ m \in Nat /\ p + m <= end
    BY <1>1
  <2>2. v \in Words
    BY <1>2, <2>1
  <2>3. z + 1 \in 1 .. Len(d) /\ decodeDigit[d[z + 1]] \in Nat
    BY <2>1, digitsEndType
  <2>5. z + 1 \in p + 1 .. end /\ (z + 1) - 1 = z /\ p + (m + 1) = z + 1 /\ z + 1 \in p + 1 .. end + 1
    BY <1>1, <2>1
  <2>4. z < Len(d) /\ lowValue(d[z + 1]) = decodeDigit[d[z + 1]]
    <3>1. z + 1 <= Len(d)
      BY <2>3
    <3> HIDE DEF z, end
    <3> QED BY <1>b, <2>1, <2>5, <3>1
  <2>6. f[z + 1] = (f[z] * Radix + decodeDigit[d[z + 1]]) % Word
    <3> HIDE DEF z, f, end
    <3> QED BY <1>3, <2>5
  <2>7. reading(d)[<<z, v>>] = Reader_getInt(d, p)
    BY <1>5, <2>1
  <2> HIDE DEF z, f, end, T
  <2>8. reading(d)[<<z, v>>] = reading(d)[<<z + 1, (v * Radix + lowValue(d[z + 1])) % Word>>]
    <3>1. lowValue(d[z + 1]) >= 0
      BY <2>3, <2>4
    <3> HIDE DEF v
    <3> QED BY <2>1, <2>2, <2>4, <3>1, readingIs, ZenonT(30)
  <2>9. (v * Radix + lowValue(d[z + 1])) % Word = f[z + 1]
    BY <2>4, <2>6
  <2> QED BY <2>5, <2>7, <2>8, <2>9
<1>6. T = Nat
  <2> HIDE DEF T
  <2>1. T \in SUBSET Nat
    BY DEF T
  <2> QED BY <1>4, <1>5, <2>1, SetInduction
<1>7. reading(d)[<<end, f[end]>>] = Reader_getInt(d, p)
  <2>1. end - p \in Nat /\ p + (end - p) = end
    BY <1>1
  <2>2. end - p \in T
    BY <1>6, <2>1
  <2> HIDE DEF end, f
  <2> QED BY <1>1, <2>1, <2>2
<1>8. end < Len(d) => lowValue(d[end + 1]) < 0
  <2> SUFFICES ASSUME end < Len(d) PROVE lowValue(d[end + 1]) < 0
    OBVIOUS
  <2>1. p < Len(d)
    BY <1>1
  <2>2. decodeDigit[d[end + 1]] < 0
    BY <2>1, digitsEndWithin
  <2>3. end + 1 \in p + 1 .. end + 1 /\ end + 1 <= Len(d)
    BY <1>1
  <2> HIDE DEF end
  <2> QED BY <1>b, <2>2, <2>3
<1>9. f[end] \in Words
  BY <1>1, <1>2
<1> DEFINE r == Reader_getInt(d, p)
<1>10. /\ end < Len(d) => r = [val |-> f[end], next |-> end]
       /\ end >= Len(d) => r = [val |-> f[end], next |-> end - 1]
  <2> HIDE DEF end, f
  <2> QED BY <1>1, <1>7, <1>8, <1>9, readingIs, ZenonT(30)
<1>11. end < Len(d) \/ end >= Len(d)
  <2> HIDE DEF end
  <2> QED BY <1>1, LenProperties
<1> HIDE DEF r, f, end
<1> QED BY <1>10, <1>11, <1>a DEF r

\* All digits and operators are below half the range of a byte (so is ASCII).
LEMMA PlainOfAscii ==
    ASSUME NEW d \in Seq(Byte), NEW p \in Nat,
           DigitBytes \cup CommandBytes \subseteq 0 .. ByteCard \div 2 - 1,
           decodeInt(d, p).next < Len(d), d[decodeInt(d, p).next + 1] \in CommandBytes
    PROVE  Plain(d, p)
<1> DEFINE end == digitsEnd(d, p)
<1>1. end \in Nat /\ end >= p /\ decodeInt(d, p).next = end
  BY digitsEndType DEF decodeInt
<1> SUFFICES ASSUME NEW k \in p + 1 .. end + 1, k <= Len(d) PROVE lowValue(d[k]) = zValue[d[k]]
  BY <1>1 DEF Plain
<1>2. k \in 1 .. Len(d) /\ k \in Nat
  <2> HIDE DEF end
  <2> QED BY <1>1
<1>3. d[k] \in Byte
  BY <1>2
<1>4. d[k] \in DigitBytes \cup CommandBytes
  <2>1. CASE k = end + 1
    BY <1>1, <2>1
  <2>2. CASE k # end + 1
    <3>1. k - 1 \in p .. end - 1 /\ (k - 1) + 1 = k
      <4> HIDE DEF end
      <4> QED BY <1>1, <1>2, <2>2
    <3>2. decodeDigit[d[k]] \in Nat
      <4> HIDE DEF end
      <4>1. \A j \in p .. end - 1 : decodeDigit[d[j + 1]] \in Nat
        BY digitsEndType DEF end
      <4> QED BY <3>1, <4>1
    <3>3. ASSUME d[k] \notin DigitBytes PROVE FALSE
      <4>1. decodeDigit[d[k]] < 0
        BY <1>3, <3>3, decodeEncoded
      <4> QED BY <3>2, <4>1
    <3> QED BY <3>3
  <2> QED BY <2>1, <2>2
<1>5. d[k] < ByteCard \div 2
  <2>1. d[k] \in 0 .. ByteCard \div 2 - 1
    BY <1>4
  <2> DEFINE h == ByteCard \div 2
             b == d[k]
  <2>2. h \in Nat /\ b \in 0 .. h - 1
    BY <2>1, HalfTable
  <2> HIDE DEF h, b
  <2>3. b < h
    BY <2>2
  <2> QED BY <2>3 DEF h, b
<1> QED BY <1>3, <1>5, lowValueType

LEMMA PlainOfLow ==
    ASSUME NEW d \in Seq(Byte), NEW p \in Nat, \A k \in 1 .. Len(d) : d[k] < ByteCard \div 2
    PROVE  Plain(d, p)
<1>1. decodeInt(d, p).next \in Nat
  BY decodeIntType
<1> SUFFICES ASSUME NEW k \in p + 1 .. decodeInt(d, p).next + 1, k <= Len(d)
             PROVE  lowValue(d[k]) = zValue[d[k]]
  BY DEF Plain
<1>2. k \in 1 .. Len(d)
  <2> DEFINE e == decodeInt(d, p).next
  <2>1. e \in Nat /\ k \in p + 1 .. e + 1
    BY <1>1
  <2> HIDE DEF e
  <2> QED BY <2>1
<1>3. d[k] \in Byte /\ d[k] < ByteCard \div 2
  BY <1>2
<1> QED BY <1>3, lowValueType

(***************************************************************************)
(* The loop of applyDelta.                                                 *)
(***************************************************************************)

\* One round of the loop; run is the rounds that follow.
roundJS(src, d, limit, run, s) ==
    LET p == s[1]
        out == s[2]
        cnt == Reader_getInt(d, p)
        ofst == Reader_getInt(d, cnt.next + 1)
        total == Len(out) + cnt.val
        text == cnt.next + 1
        copy ==
            IF \/ ~ charIs(d, ofst.next, Comma)
               \/ total > limit.val
               \/ ofst.val + cnt.val > Len(src)
            THEN Rejected
            ELSE run[<<ofst.next + 1,
                       out \o SubSeq(src, ofst.val + 1, ofst.val + cnt.val)>>]
        insert ==
            IF total > limit.val \/ cnt.val > Len(d) \/ text + cnt.val >= Len(d)
            THEN Rejected
            ELSE run[<<text + cnt.val,
                       out \o SubSeq(d, text + 1, text + cnt.val)>>]
        end ==
            IF cnt.val # checksumLanes(out) \/ Len(out) # limit.val
            THEN Rejected
            ELSE Accepted(out)
    IN  IF p >= Len(d) THEN Rejected
        ELSE CASE charIs(d, cnt.next, At) -> copy
               [] charIs(d, cnt.next, Colon) -> insert
               [] charIs(d, cnt.next, Semi) -> end
               [] OTHER -> Rejected

roundsJS(src, d, limit) ==
    CHOOSE run : run = [s \in Nat \X Seq(Byte) |-> roundJS(src, d, limit, run, s)]

LEMMA applyDeltaIs ==
    ASSUME NEW src, NEW d
    PROVE  applyDelta(src, d) =
             LET limit == Reader_getInt(d, 0)
             IN  IF charIs(d, limit.next, NewLine)
                 THEN roundsJS(src, d, limit)[<<limit.next + 1, <<>>>>]
                 ELSE Rejected
  BY Zenon DEF applyDelta, roundsJS, roundJS

\* The command at s copies, inserts.
CopyingJS(src, d, limit, s) ==
    LET c == Reader_getInt(d, s[1])
        o == Reader_getInt(d, c.next + 1)
    IN  /\ s[1] < Len(d) /\ charIs(d, c.next, At)
        /\ charIs(d, o.next, Comma)
        /\ Len(s[2]) + c.val <= limit.val /\ o.val + c.val <= Len(src)

InsertingJS(src, d, limit, s) ==
    LET c == Reader_getInt(d, s[1])
    IN  /\ s[1] < Len(d) /\ charIs(d, c.next, Colon)
        /\ Len(s[2]) + c.val <= limit.val
        /\ c.val <= Len(d) /\ c.next + 1 + c.val < Len(d)

\* What is written, and where the next command is, after it.
copiedJS(src, d, s) ==
    LET c == Reader_getInt(d, s[1])
        o == Reader_getInt(d, c.next + 1)
    IN  <<o.next + 1, s[2] \o SubSeq(src, o.val + 1, o.val + c.val)>>

insertedJS(d, s) ==
    LET c == Reader_getInt(d, s[1])
    IN  <<c.next + 1 + c.val, s[2] \o SubSeq(d, c.next + 1 + 1, c.next + 1 + c.val)>>

\* What is returned where neither is done.
closedJS(d, limit, s) ==
    LET c == Reader_getInt(d, s[1])
    IN  IF /\ s[1] < Len(d) /\ charIs(d, c.next, Semi)
           /\ c.val = checksum(s[2]) /\ Len(s[2]) = limit.val
        THEN Accepted(s[2]) ELSE Rejected

LEMMA roundJSIs ==
    ASSUME NEW src \in Seq(Byte), NEW d \in Seq(Byte), NEW limit, limit.val \in Nat, NEW run,
           NEW s \in Progress
    PROVE  roundJS(src, d, limit, run, s) =
             IF CopyingJS(src, d, limit, s) THEN run[copiedJS(src, d, s)]
             ELSE IF InsertingJS(src, d, limit, s) THEN run[insertedJS(d, s)]
             ELSE closedJS(d, limit, s)
<1> DEFINE p == s[1]
           out == s[2]
           c == Reader_getInt(d, p)
           o == Reader_getInt(d, c.next + 1)
           lim == limit.val
           q == c.next
           v == c.val
           w == o.val
           total == Len(out) + v
           copy == IF \/ ~ charIs(d, o.next, Comma)
                      \/ total > lim
                      \/ w + v > Len(src)
                   THEN Rejected ELSE run[copiedJS(src, d, s)]
           insert == IF total > lim \/ v > Len(d) \/ q + 1 + v >= Len(d)
                     THEN Rejected ELSE run[insertedJS(d, s)]
           end == IF v # checksum(out) \/ Len(out) # lim THEN Rejected ELSE Accepted(out)
<1>1. p \in Nat /\ out \in Seq(Byte) /\ Len(out) \in Nat /\ Len(d) \in Nat /\ Len(src) \in Nat
  BY LenProperties DEF Progress
<1>2. v \in Nat /\ q \in Int
  BY <1>1, ReaderType, CodecAssumption DEF Words
<1>3. p < Len(d) => w \in Nat
  <2> SUFFICES ASSUME p < Len(d) PROVE w \in Nat
    OBVIOUS
  <2>0. q \in Int /\ q >= p
    BY <1>1, ReaderType
  <2> DEFINE m == q + 1
  <2>1. m \in Nat
    <3> HIDE DEF p, q
    <3> QED BY <1>1, <2>0
  <2>2. Reader_getInt(d, m).val \in Words
    <3> HIDE DEF m
    <3> QED BY <2>1, ReaderType
  <2> QED BY <2>2, CodecAssumption DEF Words
<1>4. checksumLanes(out) = checksum(out)
  BY <1>1, LanesAgree
<1>5. roundJS(src, d, limit, run, s) =
        IF p >= Len(d) THEN Rejected
        ELSE CASE charIs(d, q, At) -> copy
               [] charIs(d, q, Colon) -> insert
               [] charIs(d, q, Semi) -> end
               [] OTHER -> Rejected
  <2> DEFINE k == checksumLanes(out)
             A == <<o.next + 1, out \o SubSeq(src, o.val + 1, o.val + c.val)>>
             B == <<c.next + 1 + c.val, out \o SubSeq(d, c.next + 1 + 1, c.next + 1 + c.val)>>
  <2>1. roundJS(src, d, limit, run, s) =
          IF p >= Len(d) THEN Rejected
          ELSE CASE charIs(d, q, At) ->
                      (IF \/ ~ charIs(d, o.next, Comma)
                          \/ Len(out) + c.val > limit.val
                          \/ o.val + c.val > Len(src)
                       THEN Rejected ELSE run[A])
                 [] charIs(d, q, Colon) ->
                      (IF Len(out) + c.val > limit.val \/ c.val > Len(d) \/ c.next + 1 + c.val >= Len(d)
                       THEN Rejected ELSE run[B])
                 [] charIs(d, q, Semi) ->
                      (IF c.val # k \/ Len(out) # limit.val THEN Rejected ELSE Accepted(out))
                 [] OTHER -> Rejected
    BY Zenon DEF roundJS
  <2>2. k = checksum(out)
    BY <1>4
  <2>3. copiedJS(src, d, s) = A /\ insertedJS(d, s) = B
    BY Zenon DEF copiedJS, insertedJS
  <2> HIDE DEF k, c, o, p, out
  <2> QED BY <2>1, <2>2, <2>3
<1> DEFINE isAt == charIs(d, q, At)
           isColon == charIs(d, q, Colon)
           isSemi == charIs(d, q, Semi)
<1>6. ~ (isAt /\ isColon) /\ ~ (isAt /\ isSemi) /\ ~ (isColon /\ isSemi)
  BY CodecAssumption DEF charIs
<1>7. CASE p >= Len(d)
  <2>1. ~ (p < Len(d))
    <3> HIDE DEF p
    <3> QED BY <1>1, <1>7
  <2>2. /\ ~ CopyingJS(src, d, limit, s) /\ ~ InsertingJS(src, d, limit, s)
        /\ closedJS(d, limit, s) = Rejected
    BY <2>1 DEF CopyingJS, InsertingJS, closedJS
  <2> HIDE DEF copy, insert, end, p, q
  <2> QED BY <1>5, <1>7, <2>2
<1>8. CASE ~ (p >= Len(d))
  <2>1. p < Len(d)
    <3> HIDE DEF p
    <3> QED BY <1>1, <1>8
  <2>2. roundJS(src, d, limit, run, s) =
          CASE isAt -> copy [] isColon -> insert [] isSemi -> end [] OTHER -> Rejected
    <3> HIDE DEF copy, insert, end, p, q
    <3> QED BY <1>5, <1>8
  <2> DEFINE lo == Len(out)
             ls == Len(src)
             ld == Len(d)
  <2>3. /\ lo \in Nat /\ ls \in Nat /\ ld \in Nat /\ v \in Nat /\ w \in Nat /\ q \in Int /\ lim \in Nat
    BY <1>1, <1>2, <1>3, <2>1
  <2>4. /\ (lo + v <= lim <=> ~ (lo + v > lim)) /\ (w + v <= ls <=> ~ (w + v > ls))
        /\ (v <= ld <=> ~ (v > ld)) /\ (q + 1 + v < ld <=> ~ (q + 1 + v >= ld))
    <3> HIDE DEF lo, ls, ld, v, w, q, lim
    <3> QED BY <2>3
  <2>5. CopyingJS(src, d, limit, s) <=> isAt /\ ~ (\/ ~ charIs(d, o.next, Comma)
                                                   \/ total > lim
                                                   \/ w + v > Len(src))
    BY <2>1, <2>4, Zenon DEF CopyingJS
  <2>6. InsertingJS(src, d, limit, s)
          <=> isColon /\ ~ (total > lim \/ v > Len(d) \/ q + 1 + v >= Len(d))
    BY <2>1, <2>4, Zenon DEF InsertingJS
  <2>7. closedJS(d, limit, s) = IF isSemi THEN end ELSE Rejected
    BY <2>1 DEF closedJS
  <2> HIDE DEF isAt, isColon, isSemi, end, total, p, q, c, o, out, v, w, lim
  <2>8. CASE isAt
    BY <1>6, <2>2, <2>5, <2>6, <2>7, <2>8
  <2>9. CASE isColon
    BY <1>6, <2>2, <2>5, <2>6, <2>7, <2>9
  <2>10. CASE ~ isAt /\ ~ isColon
    <3> HIDE DEF copy, insert
    <3> QED BY <2>2, <2>5, <2>6, <2>7, <2>10
  <2> QED BY <2>8, <2>9, <2>10
<1> QED BY <1>7, <1>8

LEMMA CopiedJSType ==
    ASSUME NEW src \in Seq(Byte), NEW d \in Seq(Byte), NEW limit, NEW s \in Progress,
           CopyingJS(src, d, limit, s)
    PROVE  copiedJS(src, d, s) \in Progress /\ copiedJS(src, d, s)[1] > s[1]
<1> DEFINE p == s[1]
           out == s[2]
           c == Reader_getInt(d, p)
           q == c.next
           m == q + 1
           o == Reader_getInt(d, m)
           e == o.next
           v == c.val
           w == o.val
<1>1. p \in Nat /\ out \in Seq(Byte) /\ Len(d) \in Nat /\ p < Len(d)
  BY LenProperties DEF Progress, CopyingJS
<1>2. v \in Nat /\ q \in Int /\ q >= p /\ q < Len(d)
  BY <1>1, ReaderType, CodecAssumption DEF Words
<1>3. m \in Nat /\ m > p /\ m <= Len(d)
  <2> HIDE DEF p, q
  <2> QED BY <1>1, <1>2
<1>4. w \in Nat /\ e \in Int /\ (m < Len(d) => e >= m) /\ (m >= Len(d) => e = m - 1)
  <2> HIDE DEF m
  <2> QED BY <1>3, ReaderType, CodecAssumption DEF Words
<1>5. e + 1 \in Nat /\ e + 1 > p
  <2> HIDE DEF p, e, m
  <2> QED BY <1>1, <1>3, <1>4
<1>6. w + v <= Len(src)
  BY DEF CopyingJS
<1>7. SubSeq(src, w + 1, w + v) \in Seq(Byte)
  <2> HIDE DEF w, v
  <2> QED BY <1>2, <1>4, <1>6, Taken
<1> DEFINE joint == out \o SubSeq(src, w + 1, w + v)
           j == e + 1
<1>8. joint \in Seq(Byte)
  BY <1>1, <1>7
<1>9. copiedJS(src, d, s) = <<j, joint>>
  BY Zenon DEF copiedJS
<1>10. j \in Nat /\ j > p
  BY <1>5
<1> HIDE DEF j, joint, p
<1> QED BY <1>8, <1>9, <1>10 DEF Progress, p

LEMMA InsertedJSType ==
    ASSUME NEW src \in Seq(Byte), NEW d \in Seq(Byte), NEW limit, NEW s \in Progress,
           InsertingJS(src, d, limit, s)
    PROVE  insertedJS(d, s) \in Progress /\ insertedJS(d, s)[1] > s[1]
<1> DEFINE p == s[1]
           out == s[2]
           c == Reader_getInt(d, p)
           q == c.next
           v == c.val
           m == q + 1
<1>1. p \in Nat /\ out \in Seq(Byte) /\ Len(d) \in Nat /\ p < Len(d)
  BY LenProperties DEF Progress, InsertingJS
<1>2. v \in Nat /\ q \in Int /\ q >= p /\ m + v < Len(d)
  BY <1>1, ReaderType, CodecAssumption DEF Words, InsertingJS
<1>3. m \in Nat /\ m + v \in Nat /\ m + v > p /\ m + v <= Len(d)
  <2> HIDE DEF p, q, v
  <2> QED BY <1>1, <1>2
<1>4. SubSeq(d, m + 1, m + v) \in Seq(Byte)
  <2> HIDE DEF m, v
  <2> QED BY <1>2, <1>3, Taken
<1> DEFINE joint == out \o SubSeq(d, m + 1, m + v)
           j == m + v
<1>5. joint \in Seq(Byte)
  BY <1>1, <1>4
<1>6. insertedJS(d, s) = <<j, joint>>
  BY Zenon DEF insertedJS
<1>7. j \in Nat /\ j > p
  BY <1>3
<1> HIDE DEF j, joint, p
<1> QED BY <1>5, <1>6, <1>7 DEF Progress, p

LEMMA roundsJSIs ==
    ASSUME NEW src \in Seq(Byte), NEW d \in Seq(Byte), NEW limit, limit.val \in Nat,
           NEW s \in Progress
    PROVE  LET R == roundsJS(src, d, limit)
           IN  /\ CopyingJS(src, d, limit, s) => R[s] = R[copiedJS(src, d, s)]
               /\ InsertingJS(src, d, limit, s) => R[s] = R[insertedJS(d, s)]
               /\ ~ CopyingJS(src, d, limit, s) /\ ~ InsertingJS(src, d, limit, s) =>
                     R[s] = closedJS(d, limit, s)
<1> DEFINE R == roundsJS(src, d, limit)
           Cop(t) == CopyingJS(src, d, limit, t)
           Ins(t) == InsertingJS(src, d, limit, t)
           Go == {t \in Progress : Cop(t) \/ Ins(t)}
           To(t) == IF Cop(t) THEN copiedJS(src, d, t) ELSE insertedJS(d, t)
           step == [t \in Go |-> To(t)]
           res == [t \in Progress |-> closedJS(d, limit, t)]
           Body(f, t) == roundJS(src, d, limit, f, t)
           L == Len(d)
<1>1. L \in Nat
  BY LenProperties
<1>2. ASSUME NEW t \in Go
      PROVE  t \in Progress /\ t[1] < L /\ To(t) \in Progress /\ To(t)[1] > t[1]
  <2>1. t \in Progress /\ (Cop(t) \/ Ins(t))
    OBVIOUS
  <2>2. t[1] < L
    BY <2>1 DEF CopyingJS, InsertingJS
  <2>3. CASE Cop(t)
    BY <2>1, <2>2, <2>3, CopiedJSType
  <2>4. CASE ~ Cop(t)
    BY <2>1, <2>2, <2>4, InsertedJSType
  <2> QED BY <2>3, <2>4
<1>3. \A f : \A t \in Progress : Body(f, t) = IF t \in Go THEN f[step[t]] ELSE res[t]
  <2> TAKE f
  <2> TAKE t \in Progress
  <2>1. Body(f, t) = IF Cop(t) THEN f[copiedJS(src, d, t)]
                     ELSE IF Ins(t) THEN f[insertedJS(d, t)] ELSE closedJS(d, limit, t)
    BY roundJSIs
  <2>2. t \in Go <=> Cop(t) \/ Ins(t)
    OBVIOUS
  <2>3. t \in Go => step[t] = To(t)
    OBVIOUS
  <2>4. res[t] = closedJS(d, limit, t)
    OBVIOUS
  <2>5. To(t) = IF Cop(t) THEN copiedJS(src, d, t) ELSE insertedJS(d, t)
    OBVIOUS
  <2> HIDE DEF Go, step, res, Cop, Ins, Body, To
  <2> QED BY <2>1, <2>2, <2>3, <2>4, <2>5
<1>4. \A t \in Go : t \in Progress
  BY <1>2
<1> HIDE DEF Go, To, L, Cop, Ins, Body
<1>5. step \in [Go -> Progress] /\ \A t \in Go : t[1] < L /\ step[t][1] > t[1]
  BY <1>2
<1>6. Go \in SUBSET Progress
  BY <1>4
<1> HIDE DEF step, res
<1>7. PICK f : HandsOn(Progress, Go, step, res, f)
  BY <1>1, <1>5, <1>6, ReadingExists
<1>8. f = [t \in Progress |-> Body(f, t)]
  <2>1. [t \in Progress |-> Body(f, t)] = [t \in Progress |-> IF t \in Go THEN f[step[t]] ELSE res[t]]
    BY <1>3
  <2> QED BY <1>7, <2>1 DEF HandsOn
<1>9. R = CHOOSE g : g = [t \in Progress |-> Body(g, t)]
  BY Zenon DEF roundsJS, Progress, Body
<1>10. R = [t \in Progress |-> Body(R, t)]
  <2> HIDE DEF R
  <2> QED BY <1>8, <1>9
<1>11. R[s] = Body(R, s)
  <2> HIDE DEF R
  <2> QED BY <1>10
<1>12. R[s] = IF Cop(s) THEN R[copiedJS(src, d, s)]
              ELSE IF Ins(s) THEN R[insertedJS(d, s)] ELSE closedJS(d, limit, s)
  BY <1>11, roundJSIs DEF Body, Cop, Ins
<1>13. ~ (Cop(s) /\ Ins(s))
  BY CodecAssumption DEF Cop, Ins, CopyingJS, InsertingJS, charIs
<1> HIDE DEF R
<1>14. /\ Cop(s) => R[s] = R[copiedJS(src, d, s)]
       /\ Ins(s) => R[s] = R[insertedJS(d, s)]
       /\ ~ Cop(s) /\ ~ Ins(s) => R[s] = closedJS(d, limit, s)
  BY <1>12, <1>13
<1> QED BY <1>14 DEF R, Cop, Ins

\* Where the bytes are plain, a command is met where decodeInt finds it.
LEMMA MeetsCommand ==
    ASSUME NEW d \in Seq(Byte), NEW p \in Nat, p < Len(d), Plain(d, p), NEW x \in CommandBytes
    PROVE  LET c == decodeInt(d, p)
               r == Reader_getInt(d, p)
           IN  /\ charIs(d, r.next, x) <=> c.next < Len(d) /\ d[c.next + 1] = x
               /\ r.val = c.val
               /\ c.next < Len(d) => r.next = c.next
<1> DEFINE c == decodeInt(d, p)
           r == Reader_getInt(d, p)
           e == c.next
           L == Len(d)
<1>1. e = digitsEnd(d, p)
  BY DEF decodeInt
<1>2. e \in Nat /\ e >= p /\ L \in Nat /\ p < L /\ e <= L
  <2>1. digitsEnd(d, p) \in Nat /\ digitsEnd(d, p) >= p /\ digitsEnd(d, p) <= Len(d)
    BY digitsEndType, digitsEndWithin
  <2> QED BY <1>1, <2>1, LenProperties
<1>3. r.val = c.val /\ (e < L => r.next = e) /\ (e >= L => r.next = e - 1)
  BY ReadsAs
<1>4. CASE e < L
  <2>1. r.next = e /\ e >= 0
    BY <1>2, <1>3, <1>4
  <2>2. charIs(d, r.next, x) <=> d[e + 1] = x
    BY <2>1 DEF charIs
  <2> QED BY <1>3, <1>4, <2>1, <2>2
<1>5. CASE ~ (e < L)
  <2>1. e = L /\ e - 1 \in p .. e - 1 /\ (e - 1) + 1 = e /\ r.next = e - 1 /\ e >= L
    <3> HIDE DEF e, L
    <3> QED BY <1>2, <1>3, <1>5
  <2>2. decodeDigit[d[e]] \in Nat /\ e \in 1 .. L
    <3>1. \A j \in p .. e - 1 : j + 1 \in 1 .. L /\ decodeDigit[d[j + 1]] \in Nat
      BY <1>1, digitsEndType
    <3> HIDE DEF e, L
    <3> QED BY <2>1, <3>1
  <2>3. d[e] \in Byte
    BY <2>2
  <2>4. d[e] \in DigitBytes
    <3>1. ASSUME d[e] \notin DigitBytes PROVE FALSE
      <4>1. decodeDigit[d[e]] < 0
        BY <2>3, <3>1, decodeEncoded
      <4> QED BY <2>2, <4>1
    <3> QED BY <3>1
  <2>5. d[e] # x
    BY <2>4, CodecAssumption
  <2>6. ~ charIs(d, r.next, x)
    <3> HIDE DEF e
    <3> QED BY <2>1, <2>5 DEF charIs
  <2> QED BY <1>3, <1>5, <2>6
<1> QED BY <1>4, <1>5

\* The digits and the operators are ASCII.
AsciiFormat == DigitBytes \cup CommandBytes \subseteq 0 .. ByteCard \div 2 - 1

\* The rounds of applyDelta follow a delta's trail.
LEMMA RoundRebuildsJS ==
    ASSUME NEW src \in Seq(Byte), NEW d \in Seq(Byte), NEW tgt \in Seq(Byte), AsciiFormat,
           NEW limit, limit.val = Len(tgt),
           NEW s \in Points, NEW r \in Points, s[2] <= Len(tgt),
           Rebuilds(d, src, tgt, s, r), r[1] < Len(d)
    PROVE  roundsJS(src, d, limit)[rebuilt(tgt, s)] = roundsJS(src, d, limit)[rebuilt(tgt, r)]
<1> DEFINE R == roundsJS(src, d, limit)
           c == decodeInt(d, s[1])
           o == decodeInt(d, c.next + 1)
           cj == Reader_getInt(d, s[1])
           oj == Reader_getInt(d, cj.next + 1)
           x == rebuilt(tgt, s)
           y == rebuilt(tgt, r)
<1>1. /\ s[1] < Len(d)
      /\ c.next < Len(d) /\ s[2] + c.val <= Len(tgt)
      /\ \/ /\ d[c.next + 1] = At
            /\ o.next < Len(d) /\ d[o.next + 1] = Comma
            /\ o.val + c.val <= Len(src)
            /\ copiedTo(src, d, x) = y
         \/ /\ d[c.next + 1] = Colon
            /\ r[1] = c.next + 1 + c.val /\ r[1] <= Len(d)
            /\ insertedTo(d, x) = y
  <2> HIDE DEF x, y
  <2> QED BY RebuiltNext DEF x, y
<1>2. x \in Progress /\ x[1] = s[1] /\ Len(x[2]) = s[2] /\ Len(tgt) \in Nat /\ limit.val \in Nat
  BY rebuiltIs, LenProperties
<1>3. s[1] \in Nat /\ c.next + 1 \in Nat /\ c.next \in Nat /\ c.val \in Nat /\ Len(d) \in Nat
  <2>1. s[1] \in Nat
    BY DEF Points
  <2> QED BY <2>1, decodeIntType, CodecAssumption, LenProperties DEF Words
<1>4. At \in CommandBytes /\ Colon \in CommandBytes /\ Comma \in CommandBytes
  BY DEF CommandBytes
<1>5. Plain(d, s[1])
  <2>1. d[c.next + 1] \in CommandBytes
    BY <1>1, <1>4
  <2> QED BY <1>1, <1>3, <2>1, PlainOfAscii DEF AsciiFormat
<1>6. /\ cj.val = c.val /\ cj.next = c.next
      /\ charIs(d, cj.next, At) <=> d[c.next + 1] = At
      /\ charIs(d, cj.next, Colon) <=> d[c.next + 1] = Colon
  BY <1>1, <1>3, <1>4, <1>5, MeetsCommand, SMTT(30)
<1>7. CASE copiedTo(src, d, x) = y /\ d[c.next + 1] = At
             /\ o.next < Len(d) /\ d[o.next + 1] = Comma /\ o.val + c.val <= Len(src)
  <2> DEFINE m == c.next + 1
  <2>1. m \in Nat /\ m < Len(d)
    <3>1. o.next >= m /\ o.next \in Nat /\ m \in Nat
      BY <1>3, decodeIntType
    <3> DEFINE e == o.next
    <3>2. e >= m /\ e < Len(d) /\ e \in Nat /\ m \in Nat
      BY <1>7, <3>1
    <3> HIDE DEF e, m
    <3> QED BY <1>3, <3>2
  <2>2. Plain(d, m)
    <3>1. decodeInt(d, m).next < Len(d) /\ d[decodeInt(d, m).next + 1] \in CommandBytes
      BY <1>4, <1>7
    <3> HIDE DEF m
    <3> QED BY <2>1, <3>1, PlainOfAscii DEF AsciiFormat
  <2>3. oj = Reader_getInt(d, m)
    BY <1>6
  <2>4. oj.val = o.val /\ oj.next = o.next /\ charIs(d, oj.next, Comma)
    <3>1. LET a == decodeInt(d, m)
              b == Reader_getInt(d, m)
          IN  /\ charIs(d, b.next, Comma) <=> a.next < Len(d) /\ d[a.next + 1] = Comma
              /\ b.val = a.val
              /\ a.next < Len(d) => b.next = a.next
      <4> HIDE DEF m
      <4> QED BY <1>4, <2>1, <2>2, MeetsCommand
    <3>2. decodeInt(d, m) = o
      OBVIOUS
    <3> HIDE DEF m, o, oj
    <3> QED BY <1>7, <2>3, <3>1, <3>2
  <2>5. CopyingJS(src, d, limit, x)
    <3>1. Len(x[2]) + cj.val <= limit.val /\ oj.val + cj.val <= Len(src)
      <4> HIDE DEF x, cj, oj, c, o
      <4> QED BY <1>1, <1>2, <1>6, <1>7, <2>4
    <3>2. charIs(d, cj.next, At) /\ s[1] < Len(d)
      BY <1>1, <1>6, <1>7
    <3> HIDE DEF x
    <3> QED BY <1>2, <2>4, <3>1, <3>2, Zenon DEF CopyingJS
  <2>6. copiedJS(src, d, x) = copiedTo(src, d, x)
    <3>1. copiedJS(src, d, x) = <<oj.next + 1, x[2] \o SubSeq(src, oj.val + 1, oj.val + cj.val)>>
      <4> HIDE DEF x
      <4> QED BY <1>2, Zenon DEF copiedJS
    <3>2. copiedTo(src, d, x) = <<o.next + 1, x[2] \o SubSeq(src, o.val + 1, o.val + c.val)>>
      <4> HIDE DEF x
      <4> QED BY <1>2, Zenon DEF copiedTo
    <3> HIDE DEF x, oj, cj, o, c
    <3> QED BY <1>6, <2>4, <3>1, <3>2
  <2> HIDE DEF x
  <2>7. R[x] = R[copiedJS(src, d, x)]
    BY <1>2, <2>5, roundsJSIs
  <2> QED BY <1>7, <2>6, <2>7 DEF x
<1>8. CASE insertedTo(d, x) = y /\ d[c.next + 1] = Colon
             /\ r[1] = c.next + 1 + c.val /\ r[1] <= Len(d)
  <2>1. InsertingJS(src, d, limit, x)
    <3>1. Len(x[2]) + cj.val <= limit.val
      <4> HIDE DEF x, cj, c
      <4> QED BY <1>1, <1>2, <1>6
    <3>2. charIs(d, cj.next, Colon) /\ s[1] < Len(d)
      BY <1>1, <1>6, <1>8
    <3>3. cj.val <= Len(d) /\ cj.next + 1 + cj.val < Len(d)
      <4> DEFINE a == c.next
                 b == c.val
                 l == Len(d)
      <4>1. a \in Nat /\ b \in Nat /\ l \in Nat /\ a + 1 + b < l
        BY <1>3, <1>8
      <4> HIDE DEF a, b, l
      <4>2. b <= l
        BY <4>1
      <4> QED BY <1>6, <4>1, <4>2 DEF a, b, l
    <3> HIDE DEF x
    <3> QED BY <1>2, <3>1, <3>2, <3>3, Zenon DEF InsertingJS
  <2>2. insertedJS(d, x) = insertedTo(d, x)
    <3>1. insertedJS(d, x) = <<cj.next + 1 + cj.val, x[2] \o SubSeq(d, cj.next + 1 + 1, cj.next + 1 + cj.val)>>
      <4> HIDE DEF x
      <4> QED BY <1>2, Zenon DEF insertedJS
    <3>2. insertedTo(d, x) = <<c.next + 1 + c.val, x[2] \o SubSeq(d, c.next + 2, c.next + 1 + c.val)>>
      <4> HIDE DEF x
      <4> QED BY <1>2, Zenon DEF insertedTo
    <3>3. c.next + 1 + 1 = c.next + 2
      BY <1>3
    <3> HIDE DEF x, cj, c
    <3> QED BY <1>6, <3>1, <3>2, <3>3
  <2> HIDE DEF x
  <2>3. R[x] = R[insertedJS(d, x)]
    BY <1>2, <2>1, roundsJSIs
  <2> QED BY <1>8, <2>2, <2>3 DEF x
<1> HIDE DEF x, y
<1> QED BY <1>1, <1>7, <1>8

LEMMA RoundEndsJS ==
    ASSUME NEW src \in Seq(Byte), NEW d \in Seq(Byte), NEW tgt \in Seq(Byte), AsciiFormat,
           NEW limit, limit.val = Len(tgt), NEW s \in Points, Ends(d, tgt, s)
    PROVE  roundsJS(src, d, limit)[rebuilt(tgt, s)] = Accepted(tgt)
<1> DEFINE R == roundsJS(src, d, limit)
           c == decodeInt(d, s[1])
           cj == Reader_getInt(d, s[1])
           x == rebuilt(tgt, s)
<1>1. s[1] \in Nat
  BY DEF Points
<1>2. c.next < Len(d) /\ d[c.next + 1] = Semi /\ c.val = checksum(tgt) /\ s[2] = Len(tgt)
  BY DEF Ends
<1>3. s[1] < Len(d)
  BY RoundEnds
<1>4. SubSeq(tgt, 1, s[2]) = tgt
  BY <1>2, SubSeqFull
<1>5. x \in Progress /\ x[1] = s[1] /\ x[2] = tgt
  <2>1. s[2] <= Len(tgt)
    BY <1>2, LenProperties
  <2> QED BY <1>4, <2>1, rebuiltIs
<1>6. At \in CommandBytes /\ Colon \in CommandBytes /\ Semi \in CommandBytes
      /\ At # Semi /\ Colon # Semi
  BY CodecAssumption DEF CommandBytes
<1>7. Plain(d, s[1])
  BY <1>1, <1>2, <1>6, PlainOfAscii DEF AsciiFormat
<1>8. /\ cj.val = c.val
      /\ charIs(d, cj.next, Semi) /\ ~ charIs(d, cj.next, At) /\ ~ charIs(d, cj.next, Colon)
  BY <1>1, <1>2, <1>3, <1>6, <1>7, MeetsCommand
<1>9. ~ CopyingJS(src, d, limit, x) /\ ~ InsertingJS(src, d, limit, x)
  <2> HIDE DEF x
  <2> QED BY <1>5, <1>8, Zenon DEF CopyingJS, InsertingJS
<1>10. closedJS(d, limit, x) = Accepted(tgt)
  <2>1. cj.val = checksum(tgt)
    BY <1>2, <1>8
  <2> HIDE DEF x
  <2> QED BY <1>3, <1>5, <1>8, <2>1 DEF closedJS
<1>11. R[x] = closedJS(d, limit, x)
  <2> HIDE DEF x
  <2>1. limit.val \in Nat
    BY LenProperties
  <2> QED BY <1>5, <1>9, <2>1, roundsJSIs
<1> QED BY <1>10, <1>11

\* JavaScript decodes every delta from its source to a target, and makes that target of
\* it, where digits and operators are ASCII (fossil-delta.mjs: applyDelta).
THEOREM DescribedIsReadByJS ==
    ASSUME NEW src \in Seq(Byte), NEW d \in Seq(Byte), NEW tgt \in Seq(Byte), AsciiFormat,
           Describes(d, src, tgt)
    PROVE  applyDelta(src, d) = Accepted(tgt)
<1> DEFINE h == decodeInt(d, 0)
           limit == Reader_getInt(d, 0)
           R == roundsJS(src, d, limit)
<1>1. PICK S \in SUBSET Points : Trail(S, d, src, tgt)
  BY DEF Describes
<1>2. /\ h.next < Len(d) /\ d[h.next + 1] = NewLine /\ h.val = Len(tgt)
      /\ <<h.next + 1, 0>> \in S
      /\ \A s \in S : Ends(d, tgt, s) \/ \E r \in S : Rebuilds(d, src, tgt, s, r)
  BY <1>1 DEF Trail
<1>3. Len(d) \in Nat /\ Len(tgt) \in Nat /\ h.next \in Nat
  BY LenProperties, decodeIntType
<1>4. \A s \in S : s \in Points /\ s[1] \in Nat /\ s[2] \in Nat
  BY DEF Points
<1>5. ASSUME NEW s \in S, s[2] <= Len(tgt) PROVE s[1] < Len(d)
  BY <1>2, <1>4, <1>5, RoundEnds, RebuildsMoves
<1>6. limit.val = Len(tgt) /\ limit.next = h.next /\ charIs(d, limit.next, NewLine)
  <2>1. d[h.next + 1] \in CommandBytes /\ NewLine \in CommandBytes
    BY <1>2 DEF CommandBytes
  <2>2. Plain(d, 0)
    BY <1>2, <2>1, PlainOfAscii DEF AsciiFormat
  <2>3. 0 < Len(d)
    <3> DEFINE e == h.next
    <3>1. e \in Nat /\ e < Len(d)
      BY <1>2, <1>3
    <3> HIDE DEF e
    <3> QED BY <1>3, <3>1
  <2> QED BY <1>2, <2>1, <2>2, <2>3, MeetsCommand
<1> HIDE DEF limit
<1> DEFINE Good(s) == R[rebuilt(tgt, s)] = Accepted(tgt)
           T == {m \in Nat : \A s \in S : s[2] <= Len(tgt) /\ Len(d) - s[1] = m => Good(s)}
<1>7. ASSUME NEW m \in Nat, \A k \in 0 .. m - 1 : k \in T PROVE m \in T
  <2> SUFFICES ASSUME NEW s \in S, s[2] <= Len(tgt), Len(d) - s[1] = m PROVE Good(s)
    OBVIOUS
  <2>1. CASE Ends(d, tgt, s)
    BY <1>4, <1>6, <2>1, RoundEndsJS
  <2>2. CASE \E r \in S : Rebuilds(d, src, tgt, s, r)
    <3>1. PICK r \in S : Rebuilds(d, src, tgt, s, r)
      BY <2>2
    <3>2. r[2] <= Len(tgt)
      BY <3>1 DEF Rebuilds
    <3>3. r[1] < Len(d) /\ r[1] > s[1]
      BY <1>4, <1>5, <3>1, <3>2, RebuildsMoves
    <3>4. R[rebuilt(tgt, s)] = R[rebuilt(tgt, r)]
      BY <1>4, <1>6, <3>1, <3>3, RoundRebuildsJS
    <3> DEFINE k == Len(d) - r[1]
    <3>5. k \in 0 .. m - 1
      <4> DEFINE x == r[1]
                 y == s[1]
                 l == Len(d)
      <4>1. x \in Nat /\ y \in Nat /\ l \in Nat /\ x > y /\ x < l /\ l - y = m
        BY <1>3, <1>4, <3>3
      <4> HIDE DEF x, y, l
      <4>2. l - x \in 0 .. m - 1
        BY <4>1
      <4> QED BY <4>2 DEF x, l
    <3>6. k \in T
      BY <1>7, <3>5
    <3>7. Good(r)
      BY <3>2, <3>6
    <3> QED BY <3>4, <3>7
  <2> QED BY <1>2, <2>1, <2>2
<1>8. \A m \in Nat : m \in T
  <2> HIDE DEF T
  <2> QED BY <1>7, StrongInduction
<1> DEFINE s == <<h.next + 1, 0>>
<1>9. s \in S /\ s[1] = h.next + 1 /\ s[2] = 0 /\ 0 <= Len(tgt)
  BY <1>2, <1>3
<1>10. Good(s)
  <2>1. s[2] <= Len(tgt) /\ s[1] \in Nat
    BY <1>4, <1>9
  <2>2. s[1] < Len(d)
    BY <1>5, <1>9, <2>1
  <2>3. Len(d) - s[1] \in Nat
    BY <1>3, <2>1, <2>2
  <2>4. Len(d) - s[1] \in T
    BY <1>8, <2>3
  <2> HIDE DEF s
  <2> QED BY <1>9, <2>1, <2>4
<1>11. rebuilt(tgt, s) = <<h.next + 1, <<>>>>
  <2>1. SubSeq(tgt, 1, 0) = <<>>
    BY SubSeqEmpty
  <2> QED BY <1>9, <2>1 DEF rebuilt
<1>12. applyDelta(src, d) = IF charIs(d, limit.next, NewLine)
                            THEN R[<<limit.next + 1, <<>>>>] ELSE Rejected
  BY applyDeltaIs DEF limit
<1> HIDE DEF h
<1> QED BY <1>6, <1>10, <1>11, <1>12

(***************************************************************************)
(* And of deltas without high bytes, it takes only what describes a target. *)
(***************************************************************************)

Low(d) == \A k \in 1 .. Len(d) : d[k] < ByteCard \div 2

\* A copy is read as it is meant, or the delta ends with it.
LEMMA CopyingMeansCopying ==
    ASSUME NEW src \in Seq(Byte), NEW d \in Seq(Byte), NEW limit, NEW s \in Progress,
           Low(d), CopyingJS(src, d, limit, s)
    PROVE  LET c == decodeInt(d, s[1])
               o == decodeInt(d, c.next + 1)
           IN  \/ ~ (copiedJS(src, d, s)[1] < Len(d))
               \/ /\ c.next < Len(d) /\ d[c.next + 1] = At
                  /\ o.next < Len(d) /\ d[o.next + 1] = Comma
                  /\ o.val + c.val <= Len(src)
                  /\ copiedJS(src, d, s) = copiedTo(src, d, s)
<1> DEFINE p == s[1]
           L == Len(d)
           c == decodeInt(d, p)
           m == c.next + 1
           o == decodeInt(d, m)
           cj == Reader_getInt(d, p)
           oj == Reader_getInt(d, cj.next + 1)
<1>1. p \in Nat /\ L \in Nat /\ p < L
  BY LenProperties DEF Progress, CopyingJS
<1>2. /\ charIs(d, cj.next, At) /\ charIs(d, oj.next, Comma)
      /\ oj.val + cj.val <= Len(src)
  BY Zenon DEF CopyingJS
<1>3. At \in CommandBytes /\ Comma \in CommandBytes
  BY DEF CommandBytes
<1>4. c.next < L /\ d[c.next + 1] = At /\ cj.val = c.val /\ cj.next = c.next
  BY <1>1, <1>2, <1>3, MeetsCommand, PlainOfLow DEF Low
<1>5. m \in Nat /\ c.next \in Nat
  BY <1>1, decodeIntType
<1>6. oj = Reader_getInt(d, m)
  BY <1>4
<1>7. copiedJS(src, d, s) = <<oj.next + 1, s[2] \o SubSeq(src, oj.val + 1, oj.val + cj.val)>>
  BY Zenon DEF copiedJS
<1>8. CASE m < L
  <2>1. Plain(d, m)
    <3> HIDE DEF m
    <3> QED BY <1>5, PlainOfLow DEF Low
  <2>2. LET a == decodeInt(d, m)
            b == Reader_getInt(d, m)
        IN  /\ charIs(d, b.next, Comma) <=> a.next < Len(d) /\ d[a.next + 1] = Comma
            /\ b.val = a.val
            /\ a.next < Len(d) => b.next = a.next
    <3> HIDE DEF m
    <3> QED BY <1>3, <1>5, <1>8, <2>1, MeetsCommand
  <2>3. o.next < L /\ d[o.next + 1] = Comma /\ oj.val = o.val /\ oj.next = o.next
    <3>1. decodeInt(d, m) = o
      OBVIOUS
    <3> HIDE DEF m, o, oj
    <3> QED BY <1>2, <1>6, <2>2, <3>1
  <2>4. copiedTo(src, d, s) = <<o.next + 1, s[2] \o SubSeq(src, o.val + 1, o.val + c.val)>>
    BY Zenon DEF copiedTo
  <2>5. copiedJS(src, d, s) = copiedTo(src, d, s) /\ o.val + c.val <= Len(src)
    <3> HIDE DEF o, oj, c, cj
    <3> QED BY <1>2, <1>4, <1>7, <2>3, <2>4
  <2> QED BY <1>4, <2>3, <2>5
<1>9. CASE ~ (m < L)
  <2>1. m = L
    <3> DEFINE e == c.next
    <3>1. e \in Nat /\ e < L /\ ~ (e + 1 < L)
      BY <1>4, <1>5, <1>9
    <3> HIDE DEF e, L
    <3>2. e + 1 = L
      BY <1>1, <3>1
    <3> QED BY <3>2 DEF e
  <2>2. oj.next = m - 1
    <3>1. m >= Len(d)
      <4> HIDE DEF m
      <4> QED BY <1>1, <2>1
    <3>2. Reader_getInt(d, m).next = m - 1
      <4> HIDE DEF m
      <4> QED BY <1>5, <3>1, ReaderType
    <3> QED BY <1>6, <3>2
  <2>3. copiedJS(src, d, s)[1] = m
    <3>1. oj.next + 1 = m
      <4> HIDE DEF m, oj
      <4> QED BY <1>5, <2>2
    <3> HIDE DEF m, oj, cj
    <3> QED BY <1>7, <3>1
  <2> QED BY <1>9, <2>3
<1> QED BY <1>8, <1>9

LEMMA InsertingMeansInserting ==
    ASSUME NEW src \in Seq(Byte), NEW d \in Seq(Byte), NEW limit, NEW s \in Progress,
           Low(d), InsertingJS(src, d, limit, s)
    PROVE  LET c == decodeInt(d, s[1])
           IN  /\ c.next < Len(d) /\ d[c.next + 1] = Colon /\ c.next + 1 + c.val <= Len(d)
               /\ insertedJS(d, s) = insertedTo(d, s)
<1> DEFINE p == s[1]
           c == decodeInt(d, p)
           cj == Reader_getInt(d, p)
<1>1. p \in Nat /\ Len(d) \in Nat /\ p < Len(d)
  BY LenProperties DEF Progress, InsertingJS
<1>2. charIs(d, cj.next, Colon) /\ cj.next + 1 + cj.val < Len(d)
  BY Zenon DEF InsertingJS
<1>3. Colon \in CommandBytes
  BY DEF CommandBytes
<1>4. c.next < Len(d) /\ d[c.next + 1] = Colon /\ cj.val = c.val /\ cj.next = c.next
  BY <1>1, <1>2, <1>3, MeetsCommand, PlainOfLow DEF Low
<1>5. c.next \in Nat /\ c.val \in Nat
  BY <1>1, decodeIntType, CodecAssumption DEF Words
<1>6. c.next + 1 + c.val <= Len(d)
  <2> DEFINE a == c.next
             b == c.val
             l == Len(d)
  <2>1. a \in Nat /\ b \in Nat /\ l \in Nat /\ a + 1 + b < l
    BY <1>1, <1>2, <1>4, <1>5
  <2> HIDE DEF a, b, l
  <2>2. a + 1 + b <= l
    BY <2>1
  <2> QED BY <2>2 DEF a, b, l
<1>7. insertedJS(d, s) = insertedTo(d, s)
  <2>1. insertedJS(d, s) = <<cj.next + 1 + cj.val, s[2] \o SubSeq(d, cj.next + 1 + 1, cj.next + 1 + cj.val)>>
    BY Zenon DEF insertedJS
  <2>2. insertedTo(d, s) = <<c.next + 1 + c.val, s[2] \o SubSeq(d, c.next + 2, c.next + 1 + c.val)>>
    BY Zenon DEF insertedTo
  <2>3. c.next + 1 + 1 = c.next + 2
    BY <1>5
  <2> HIDE DEF c, cj
  <2> QED BY <1>4, <2>1, <2>2, <2>3
<1> QED BY <1>4, <1>6, <1>7

LEMMA NothingPastEndJS ==
    ASSUME NEW src \in Seq(Byte), NEW d \in Seq(Byte), NEW limit, limit.val \in Nat,
           NEW s \in Progress, ~ (s[1] < Len(d))
    PROVE  roundsJS(src, d, limit)[s] = Rejected
<1>1. ~ CopyingJS(src, d, limit, s) /\ ~ InsertingJS(src, d, limit, s)
      /\ closedJS(d, limit, s) = Rejected
  BY DEF CopyingJS, InsertingJS, closedJS
<1> QED BY <1>1, roundsJSIs

LEMMA RoundsMeantJS ==
    ASSUME NEW src \in Seq(Byte), NEW d \in Seq(Byte), Low(d), NEW limit, limit.val \in Nat,
           NEW s0 \in Progress
    PROVE  Comes(src, d, limit.val, s0, roundsJS(src, d, limit)[s0])
<1> DEFINE R == roundsJS(src, d, limit)
           L == Len(d)
           Good(s) == Comes(src, d, limit.val, s, R[s])
           T == {m \in Nat : \A s \in Progress : s[1] < L /\ L - s[1] = m => Good(s)}
<1>1. L \in Nat
  BY LenProperties
<1>2. ASSUME NEW s \in Progress, ~ (s[1] < L) PROVE Good(s)
  BY <1>2, NothingPastEndJS DEF Comes
<1>3. ASSUME NEW m \in Nat, \A k \in 0 .. m - 1 : k \in T PROVE m \in T
  <2> SUFFICES ASSUME NEW s \in Progress, s[1] < L, L - s[1] = m PROVE Good(s)
    OBVIOUS
  <2>1. ASSUME NEW t \in Progress, t[1] > s[1] PROVE Good(t)
    <3>1. CASE ~ (t[1] < L)
      BY <1>2, <3>1
    <3>2. CASE t[1] < L
      <4> DEFINE x == t[1]
                 y == s[1]
      <4>1. x \in Nat /\ y \in Nat /\ x > y /\ x < L /\ L - y = m
        BY <2>1, <3>2 DEF Progress
      <4> HIDE DEF x, y, L, T, Good
      <4>2. L - x \in 0 .. m - 1 /\ L - x \in Nat
        BY <1>1, <4>1
      <4>3. L - x \in T
        BY <1>3, <4>2
      <4> QED BY <3>2, <4>3 DEF T, x
    <3> QED BY <3>1, <3>2
  <2> DEFINE c == decodeInt(d, s[1])
             o == decodeInt(d, c.next + 1)
  <2>2. CASE CopyingJS(src, d, limit, s)
    <3> DEFINE t == copiedJS(src, d, s)
    <3>1. t \in Progress /\ t[1] > s[1] /\ R[s] = R[t]
      BY <2>2, CopiedJSType, roundsJSIs
    <3>2. CASE ~ (t[1] < L)
      <4>1. R[t] = Rejected
        BY <3>1, <3>2, NothingPastEndJS
      <4> QED BY <3>1, <4>1 DEF Comes
    <3>3. CASE t[1] < L
      <4>1. /\ c.next < L /\ d[c.next + 1] = At /\ o.next < L /\ d[o.next + 1] = Comma
            /\ o.val + c.val <= Len(src)
            /\ t = copiedTo(src, d, s)
        BY <2>2, <3>3, CopyingMeansCopying
      <4>2. \A tgt : Meant(src, d, copiedTo(src, d, s), tgt) => Meant(src, d, s, tgt)
        BY <4>1, CopiedMeant
      <4>3. Good(t)
        BY <2>1, <3>1
      <4>4. \A tgt : Meant(src, d, t, tgt) => Meant(src, d, s, tgt)
        <5> HIDE DEF t
        <5> QED BY <4>1, <4>2
      <4> HIDE DEF t, R
      <4> QED BY <3>1, <4>3, <4>4 DEF Comes
    <3> QED BY <3>2, <3>3
  <2>3. CASE InsertingJS(src, d, limit, s)
    <3> DEFINE t == insertedJS(d, s)
    <3>1. t \in Progress /\ t[1] > s[1] /\ R[s] = R[t]
      BY <2>3, InsertedJSType, roundsJSIs
    <3>2. Good(t)
      BY <2>1, <3>1
    <3>3. /\ c.next < L /\ d[c.next + 1] = Colon /\ c.next + 1 + c.val <= L
          /\ t = insertedTo(d, s)
      BY <2>3, InsertingMeansInserting
    <3>4. \A tgt : Meant(src, d, insertedTo(d, s), tgt) => Meant(src, d, s, tgt)
      BY <3>3, InsertedMeant
    <3>5. \A tgt : Meant(src, d, t, tgt) => Meant(src, d, s, tgt)
      <4> HIDE DEF t
      <4> QED BY <3>3, <3>4
    <3> HIDE DEF t, R
    <3> QED BY <3>1, <3>2, <3>5 DEF Comes
  <2>4. CASE ~ CopyingJS(src, d, limit, s) /\ ~ InsertingJS(src, d, limit, s)
    <3>1. R[s] = closedJS(d, limit, s)
      BY <2>4, roundsJSIs
    <3>2. CASE closedJS(d, limit, s) = Rejected
      BY <3>1, <3>2 DEF Comes
    <3>3. CASE closedJS(d, limit, s) # Rejected
      <4> DEFINE cj == Reader_getInt(d, s[1])
      <4>1. /\ charIs(d, cj.next, Semi) /\ cj.val = checksum(s[2]) /\ Len(s[2]) = limit.val
            /\ closedJS(d, limit, s) = Accepted(s[2])
        BY <3>3 DEF closedJS
      <4>2. Semi \in CommandBytes /\ s[1] \in Nat
        BY DEF CommandBytes, Progress
      <4>3. c.next < L /\ d[c.next + 1] = Semi /\ c.val = cj.val
        BY <4>1, <4>2, MeetsCommand, PlainOfLow DEF Low
      <4>4. Meant(src, d, s, s[2])
        <5>1. c.val = checksum(s[2])
          BY <4>1, <4>3
        <5> QED BY <4>3, <5>1, ClosedMeant
      <4> QED BY <3>1, <4>1, <4>4 DEF Comes
    <3> QED BY <3>2, <3>3
  <2> QED BY <2>2, <2>3, <2>4
<1>4. \A m \in Nat : m \in T
  <2> HIDE DEF T
  <2> QED BY <1>3, StrongInduction
<1>5. CASE s0[1] < L
  <2>1. s0[1] \in Nat
    BY DEF Progress
  <2>2. L - s0[1] \in Nat
    BY <1>1, <1>5, <2>1
  <2>3. L - s0[1] \in T
    BY <1>4, <2>2
  <2> QED BY <1>5, <2>3
<1> QED BY <1>2, <1>5

\* What JavaScript makes of a delta without high bytes is what the delta describes
\* (fossil-delta.mjs: applyDelta).
THEOREM ReadByJSIsDescribed ==
    ASSUME NEW src \in Seq(Byte), NEW d \in Seq(Byte), Low(d), applyDelta(src, d).ok
    PROVE  /\ applyDelta(src, d).out \in Seq(Byte)
           /\ applyDelta(src, d) = Accepted(applyDelta(src, d).out)
           /\ Describes(d, src, applyDelta(src, d).out)
<1> DEFINE h == decodeInt(d, 0)
           limit == Reader_getInt(d, 0)
           s == <<limit.next + 1, <<>>>>
           r == roundsJS(src, d, limit)[s]
<1>1. Len(d) \in Nat /\ limit.val \in Nat
  BY ReaderType, CodecAssumption, LenProperties DEF Words
<1>2. applyDelta(src, d) = IF charIs(d, limit.next, NewLine) THEN r ELSE Rejected
  BY applyDeltaIs
<1>3. /\ ~ Rejected.ok /\ ~ Undefined.ok
      /\ \A t : Accepted(t).ok /\ Accepted(t).out = t
  BY DEF Rejected, Undefined, Stopped, Accepted
<1>4. charIs(d, limit.next, NewLine) /\ applyDelta(src, d) = r
  <2> HIDE DEF r, limit
  <2> QED BY <1>2, <1>3
<1>5. 0 < Len(d)
  <2>1. CASE 0 >= Len(d)
    <3>1. limit.next = 0 - 1
      BY <2>1, ReaderType
    <3>2. ~ (limit.next >= 0)
      <4> HIDE DEF limit
      <4> QED BY <3>1
    <3> QED BY <1>4, <3>2 DEF charIs
  <2> QED BY <1>1, <2>1
<1>6. h.next < Len(d) /\ d[h.next + 1] = NewLine /\ limit.val = h.val /\ limit.next = h.next
  <2>1. NewLine \in CommandBytes
    BY DEF CommandBytes
  <2> QED BY <1>4, <1>5, <2>1, MeetsCommand, PlainOfLow DEF Low
<1>7. s \in Progress /\ s[1] = h.next + 1 /\ s[2] = <<>>
  <2> DEFINE m == h.next + 1
  <2>1. h.next \in Nat
    BY decodeIntType
  <2>2. m \in Nat /\ <<>> \in Seq(Byte)
    BY <2>1
  <2>3. s = <<m, <<>>>>
    <3> HIDE DEF limit, h
    <3> QED BY <1>6
  <2> HIDE DEF m, s
  <2> QED BY <2>2, <2>3 DEF Progress, m
<1>8. Comes(src, d, limit.val, s, r)
  <2> HIDE DEF s, limit
  <2> QED BY <1>1, <1>7, RoundsMeantJS
<1> HIDE DEF r, s
<1>9. PICK tgt : r = Accepted(tgt) /\ Len(tgt) = limit.val /\ Meant(src, d, s, tgt)
  BY <1>3, <1>4, <1>8 DEF Comes
<1>10. PICK S \in SUBSET Points :
          /\ <<s[1], Len(s[2])>> \in S
          /\ \A x \in S : Ends(d, tgt, x) \/ \E q \in S : Rebuilds(d, src, tgt, x, q)
  BY <1>9 DEF Meant
<1>11. Len(s[2]) = 0
  BY <1>7
<1>12. Trail(S, d, src, tgt)
  BY <1>6, <1>7, <1>9, <1>10, <1>11 DEF Trail
<1>13. Describes(d, src, tgt)
  BY <1>12 DEF Describes
<1>14. tgt \in Seq(Byte) /\ applyDelta(src, d).out = tgt
  BY <1>3, <1>4, <1>9 DEF Meant
<1> QED BY <1>4, <1>9, <1>13, <1>14
=============================================================================
