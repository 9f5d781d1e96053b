------------------------- MODULE CodecStreamProofs --------------------------
(***************************************************************************)
(* Theorems about CodecStream: whatever numbers are written, in whatever   *)
(* order with the reads, what is read is what was written.                 *)
(***************************************************************************)
EXTENDS CodecStream, ReaderProofs, FiniteSetTheorems

(***************************************************************************)
(* The inductive invariant.  f is where each number written ends.  The     *)
(* reader is where one of them ends; that is what the property needs and   *)
(* does not say.                                                           *)
(***************************************************************************)

LaidOut(f) ==
    /\ f[0] = 0 /\ f[Len(written)] = Len(buf)
    /\ Len(read) <= Len(written) /\ f[Len(read)] = pos
    /\ \A k \in 1 .. Len(written) :
          /\ f[k] = f[k - 1] + digitCount(written[k][1]) + 1
          /\ Written(buf, f[k - 1], written[k][1])
          /\ buf[f[k]] = written[k][2]
    /\ \A j, k \in 0 .. Len(written) : j < k => f[j] < f[k]
    /\ \A k \in 1 .. Len(read) : read[k] = written[k]

StreamInv == TypeOK /\ \E f \in [0 .. Len(written) -> Nat] : LaidOut(f)

LEMMA WordsAndCommands == Words \subseteq Nat /\ CommandBytes \subseteq Byte
  BY CodecAssumption DEF Words

LEMMA InitStream == ASSUME Init PROVE StreamInv
<1>1. buf = <<>> /\ written = <<>> /\ read = <<>> /\ pos = 0
  BY DEF Init
<1>2. TypeOK
  BY <1>1 DEF TypeOK
<1> DEFINE f == [k \in 0 .. 0 |-> 0]
<1>3. Len(written) = 0 /\ Len(read) = 0 /\ Len(buf) = 0
  BY <1>1
<1>4. f \in [0 .. Len(written) -> Nat] /\ f[0] = 0
  BY <1>3
<1> HIDE DEF f
<1>5. LaidOut(f)
  BY <1>1, <1>3, <1>4 DEF LaidOut
<1> QED BY <1>2, <1>4, <1>5 DEF StreamInv

LEMMA WriteKeeps ==
    ASSUME StreamInv, NEW v \in Values, NEW c \in CommandBytes, Write(v, c)
    PROVE  StreamInv'
<1> DEFINE n == Len(written)
           D == digitCount(v)
<1>1. /\ buf \in Seq(Byte) /\ written \in Seq(Words \X CommandBytes)
      /\ pos \in 0 .. Len(buf) /\ read \in Seq(Words \X Byte)
  BY DEF StreamInv, TypeOK
<1>2. /\ buf' = appendInt(buf, v, c) /\ written' = Append(written, <<v, c>>)
      /\ pos' = pos /\ read' = read
  BY DEF Write
<1>3. PICK f \in [0 .. n -> Nat] : LaidOut(f)
  BY DEF StreamInv
<1>4. v \in Words /\ v \in Nat /\ c \in Byte
  BY StreamAssumption, WordsAndCommands
<1>5. n \in Nat /\ D \in Nat /\ Len(buf) \in Nat /\ Len(read) \in Nat
  <2>1. D \in Nat
    BY <1>4, digitCountType
  <2> QED BY <1>1, <2>1
<1>6. /\ buf' \in Seq(Byte) /\ Len(buf') = Len(buf) + D + 1
      /\ Written(buf', Len(buf), v) /\ buf'[Len(buf) + D + 1] = c
  BY <1>1, <1>2, <1>4, appendIntType, appendIntLength, WrittenHere
<1>7. \A p \in Nat, u \in Nat : Written(buf, p, u) =>
         Written(buf', p, u) /\ buf'[p + digitCount(u) + 1] = buf[p + digitCount(u) + 1]
  <2> DEFINE e == Append(digitsOf(v), c)
  <2>1. buf' = buf \o e /\ e \in Seq(Byte)
    <3>1. digitsOf(v) \in Seq(Byte) /\ buf' = buf \o e
      BY <1>2, <1>4, appendIntIs
    <3> QED BY <1>4, <3>1
  <2> HIDE DEF e
  <2> QED BY <1>1, <2>1, WrittenStays
<1>8. /\ Len(written') = n + 1 /\ written'[n + 1] = <<v, c>>
      /\ \A k \in 1 .. n : written'[k] = written[k]
      /\ written' \in Seq(Words \X CommandBytes)
  BY <1>1, <1>2, <1>4
<1>9. TypeOK'
  BY <1>1, <1>2, <1>5, <1>6, <1>8 DEF TypeOK
<1> HIDE DEF n, D
<1>10. PICK g \in [0 .. Len(written') -> Nat] :
          (\A k \in 0 .. n : g[k] = f[k]) /\ g[n + 1] = Len(buf) + D + 1
  <2> DEFINE w == [k \in 0 .. n + 1 |-> IF k <= n THEN f[k] ELSE Len(buf) + D + 1]
  <2>1. /\ w \in [0 .. Len(written') -> Nat]
        /\ (\A k \in 0 .. n : w[k] = f[k]) /\ w[n + 1] = Len(buf) + D + 1
    BY <1>3, <1>5, <1>8
  <2> QED BY <2>1
<1>11. \A k \in 1 .. n : written[k] \in Words \X CommandBytes
  BY <1>1 DEF n
<1>12. f[n] = Len(buf) /\ f[0] = 0 /\ Len(read) <= n /\ f[Len(read)] = pos
  BY <1>3 DEF LaidOut, n
<1>13. ASSUME NEW k \in 1 .. n + 1
       PROVE  /\ g[k] = g[k - 1] + digitCount(written'[k][1]) + 1
              /\ Written(buf', g[k - 1], written'[k][1])
              /\ buf'[g[k]] = written'[k][2]
  <2>1. CASE k = n + 1
    <3>1. g[k - 1] = Len(buf) /\ g[k] = Len(buf) + D + 1
      BY <1>5, <1>10, <1>12, <2>1
    <3>2. written'[k][1] = v /\ written'[k][2] = c
      BY <1>8, <2>1
    <3> QED BY <1>6, <3>1, <3>2 DEF D
  <2>2. CASE k # n + 1
    <3> DEFINE u == written[k][1]
    <3>1. k \in 1 .. n /\ k - 1 \in 0 .. n /\ k \in 0 .. n
      BY <1>5, <2>2
    <3>2. /\ f[k] = f[k - 1] + digitCount(u) + 1
          /\ Written(buf, f[k - 1], u)
          /\ buf[f[k]] = written[k][2]
      BY <1>3, <3>1 DEF LaidOut, n
    <3>3. f[k - 1] \in Nat /\ u \in Nat
      BY <1>3, <1>11, <3>1, WordsAndCommands
    <3>4. Written(buf', f[k - 1], u) /\ buf'[f[k - 1] + digitCount(u) + 1] = buf[f[k - 1] + digitCount(u) + 1]
      BY <1>7, <3>2, <3>3
    <3>5. written'[k] = written[k] /\ g[k] = f[k] /\ g[k - 1] = f[k - 1]
      BY <1>8, <1>10, <3>1
    <3> QED BY <3>2, <3>4, <3>5
  <2> QED BY <2>1, <2>2
<1>14. ASSUME NEW j \in 0 .. n + 1, NEW k \in 0 .. n + 1, j < k PROVE g[j] < g[k]
  <2>1. j \in 0 .. n
    BY <1>5, <1>14
  <2>2. f[j] \in Nat /\ f[j] <= Len(buf)
    <3>1. n \in 0 .. n
      BY <1>5
    <3>2. j < n => f[j] < f[n]
      BY <1>3, <2>1, <3>1 DEF LaidOut, n
    <3>3. f[j] \in Nat
      BY <1>3, <2>1 DEF n
    <3> QED BY <1>5, <1>12, <2>1, <3>2, <3>3
  <2>3. CASE k = n + 1
    BY <1>5, <1>10, <2>1, <2>2, <2>3
  <2>4. CASE k # n + 1
    <3>1. k \in 0 .. n
      BY <1>5, <2>4
    <3>2. f[j] < f[k]
      BY <1>3, <1>14, <2>1, <3>1 DEF LaidOut, n
    <3> QED BY <1>10, <2>1, <3>1, <3>2
  <2> QED BY <2>3, <2>4
<1>15. \A k \in 1 .. Len(read') : read'[k] = written'[k]
  <2> TAKE k \in 1 .. Len(read')
  <2>1. k \in 1 .. Len(read) /\ k \in 1 .. n
    BY <1>2, <1>5, <1>12
  <2>2. read[k] = written[k]
    BY <1>3, <2>1 DEF LaidOut
  <2> QED BY <1>2, <1>8, <2>1, <2>2
<1>16. g[0] = 0 /\ g[Len(written')] = Len(buf') /\ Len(read') <= Len(written') /\ g[Len(read')] = pos'
  <2>1. 0 \in 0 .. n /\ Len(read) \in 0 .. n
    BY <1>5, <1>12
  <2> QED BY <1>2, <1>5, <1>6, <1>8, <1>10, <1>12, <2>1
<1>17. LaidOut(g)'
  BY <1>8, <1>13, <1>14, <1>15, <1>16 DEF LaidOut
<1> QED BY <1>9, <1>10, <1>17 DEF StreamInv

LEMMA ReadKeeps == ASSUME StreamInv, Read PROVE StreamInv'
<1> DEFINE n == Len(written)
           k == Len(read) + 1
<1>1. /\ buf \in Seq(Byte) /\ written \in Seq(Words \X CommandBytes)
      /\ pos \in 0 .. Len(buf) /\ read \in Seq(Words \X Byte)
  BY DEF StreamInv, TypeOK
<1>2. PICK f \in [0 .. n -> Nat] : LaidOut(f)
  BY DEF StreamInv
<1>3. n \in Nat /\ Len(read) \in Nat /\ k \in Nat /\ Len(buf) \in Nat
  BY <1>1
<1>4. f[n] = Len(buf) /\ Len(read) <= n /\ f[Len(read)] = pos /\ pos < Len(buf)
  BY <1>2 DEF LaidOut, Read
<1>5. k \in 1 .. n /\ k - 1 = Len(read)
  BY <1>3, <1>4
<1>6. written[k] \in Words \X CommandBytes
  BY <1>1, <1>5
<1> DEFINE v == written[k][1]
           c == written[k][2]
<1>7. v \in Words /\ v \in Nat /\ c \in CommandBytes /\ c \in Byte /\ written[k] = <<v, c>>
  <2>1. v \in Words /\ c \in CommandBytes /\ written[k] = <<v, c>>
    BY <1>6
  <2> HIDE DEF v, c
  <2> QED BY <2>1, WordsAndCommands
<1>8. f[k] = pos + digitCount(v) + 1 /\ Written(buf, pos, v) /\ buf[f[k]] = c
  BY <1>2, <1>4, <1>5 DEF LaidOut
<1> HIDE DEF n, k, v, c
<1>9. decodeInt(buf, pos) = [val |-> v, next |-> pos + digitCount(v)]
  BY <1>1, <1>7, <1>8, ReadsNumber
<1>10. /\ read' = Append(read, <<v, c>>) /\ pos' = f[k]
       /\ buf' = buf /\ written' = written
  BY <1>8, <1>9 DEF Read
<1>11. /\ read' \in Seq(Words \X Byte) /\ Len(read') = k /\ read'[k] = written[k]
       /\ \A j \in 1 .. k - 1 : read'[j] = read[j]
  <2>1. <<v, c>> \in Words \X Byte
    BY <1>7
  <2> QED BY <1>1, <1>7, <1>10, <2>1 DEF k
<1>12. pos' \in 0 .. Len(buf)
  <2>1. k \in 0 .. n /\ n \in 0 .. n
    BY <1>3, <1>5
  <2>2. f[k] \in Nat /\ (k < n => f[k] < f[n])
    BY <1>2, <2>1 DEF LaidOut, n
  <2> QED BY <1>3, <1>4, <1>5, <1>10, <2>2
<1>13. TypeOK'
  BY <1>1, <1>10, <1>11, <1>12 DEF TypeOK
<1>14. LaidOut(f)'
  <2>1. \A j \in 1 .. Len(read') : read'[j] = written'[j]
    <3> TAKE j \in 1 .. Len(read')
    <3>1. j # k => j \in 1 .. k - 1 /\ j \in 1 .. Len(read)
      BY <1>3, <1>5, <1>11
    <3>2. j # k => read[j] = written[j]
      BY <1>2, <3>1 DEF LaidOut
    <3> QED BY <1>10, <1>11, <3>1, <3>2
  <2>2. Len(read') <= Len(written') /\ f[Len(read')] = pos'
    BY <1>3, <1>5, <1>10, <1>11 DEF n
  <2> QED BY <1>2, <1>10, <2>1, <2>2 DEF LaidOut
<1> QED BY <1>2, <1>10, <1>13, <1>14 DEF StreamInv, n

LEMMA StreamAlways == Spec => []StreamInv
<1>1. Init => StreamInv
  BY InitStream
<1>2. StreamInv /\ [Next]_vars => StreamInv'
  <2> SUFFICES ASSUME StreamInv, [Next]_vars PROVE StreamInv'
    OBVIOUS
  <2>1. CASE Next
    BY <2>1, ReadKeeps, WriteKeeps DEF Next
  <2>2. CASE UNCHANGED vars
    BY <2>2 DEF StreamInv, TypeOK, LaidOut, vars
  <2> QED BY <2>1, <2>2
<1> QED BY <1>1, <1>2, PTL DEF Spec

\* Both buffers keep their types: in particular the reader never leaves the bytes and
\* never reads a number wider than a word (codec.go: decodeInt).
THEOREM StreamTypes == Spec => []TypeOK
<1>1. StreamInv => TypeOK
  BY DEF StreamInv
<1> QED BY <1>1, StreamAlways, PTL

\* Numbers of any size, in any number, are read back as they were written and in the
\* order in which they were, with nothing between them but their command bytes
\* (codec.go: appendInt, decodeInt).
THEOREM ReadsBack == Spec => []ReadsBackWhatWasWritten
<1>1. StreamInv => ReadsBackWhatWasWritten
  <2> SUFFICES ASSUME StreamInv PROVE ReadsBackWhatWasWritten
    OBVIOUS
  <2> DEFINE n == Len(written)
             m == Len(read)
  <2>1. /\ buf \in Seq(Byte) /\ written \in Seq(Words \X CommandBytes)
        /\ read \in Seq(Words \X Byte)
    BY DEF StreamInv, TypeOK
  <2>2. PICK f \in [0 .. n -> Nat] : LaidOut(f)
    BY DEF StreamInv
  <2>3. n \in Nat /\ m \in Nat /\ m <= n /\ f[n] = Len(buf) /\ f[m] = pos
        /\ \A k \in 1 .. m : read[k] = written[k]
    BY <2>1, <2>2 DEF LaidOut
  <2>4. SubSeq(read, 1, m) = SubSeq(written, 1, m)
    BY <2>1, <2>3
  <2>5. IsPrefix(read, written)
    BY <2>3, <2>4 DEF IsPrefix
  <2>6. ASSUME pos = Len(buf) PROVE read = written
    <3>1. ~ (m < n)
      <4>1. m \in 0 .. n /\ n \in 0 .. n
        BY <2>3
      <4>2. m < n => f[m] < f[n]
        BY <2>2, <4>1 DEF LaidOut
      <4>3. f[m] \in Nat /\ f[n] \in Nat
        BY <2>2, <4>1
      <4> QED BY <2>3, <2>6, <4>2, <4>3
    <3>2. m = n
      BY <2>3, <3>1
    <3> QED BY <2>1, <2>3, <3>2
  <2> QED BY <2>5, <2>6 DEF ReadsBackWhatWasWritten
<1> QED BY <1>1, StreamAlways, PTL

\* The checksum the package reads word by word is the one delta.c adds up lane by lane,
\* of whatever bytes (checksum.go: checksum).
THEOREM ChecksumsAgree == Spec => []ChecksumIsLaneSum
<1>1. TypeOK => ChecksumIsLaneSum
  BY LanesAgree DEF TypeOK, ChecksumIsLaneSum
<1> QED BY <1>1, StreamTypes, PTL

(***************************************************************************)
(* Both sides count digits alike.  digitCount rounds the number's bits up  *)
(* to whole digits; delta.c multiplies a threshold until it is larger.     *)
(* Both find the least power of Radix above the number, delta.c as long as *)
(* the power fits an int.                                                  *)
(***************************************************************************)

\* P holds the powers of Radix.
Powers(P) == P \in [Nat -> Nat] /\ P[0] = 1 /\ \A k \in Nat : P[k + 1] = P[k] * Radix

LEMMA PowersExist == \E P : Powers(P)
<1> DEFINE st == [m \in Nat |-> m * Radix]
<1>1. st \in [Nat -> Nat] /\ \A m \in Nat : st[m] = m * Radix
  BY RadixIs
<1> HIDE DEF st
<1>2. 1 \in Nat
  OBVIOUS
<1>3. PICK P : Endless(Nat, 1, st, P)
  BY <1>1, <1>2, EndlessExists
<1> QED BY <1>1, <1>3 DEF Endless, Powers

LEMMA PowersGrow ==
    ASSUME NEW P, Powers(P), NEW k \in Nat
    PROVE  P[k] \in Nat /\ P[k] > k /\ \A j \in 0 .. k : P[j] <= P[k]
<1> DEFINE Rising(m) == P[m] \in Nat /\ P[m] > m /\ \A j \in 0 .. m : P[j] <= P[m]
           T == {m \in Nat : Rising(m)}
<1>1. 0 \in T
  BY DEF Powers
<1>2. ASSUME NEW m \in T PROVE m + 1 \in T
  <2>1. m \in Nat /\ P[m] \in Nat /\ P[m] > m /\ \A j \in 0 .. m : P[j] <= P[m]
    BY <1>2
  <2> DEFINE a == P[m]
             b == P[m + 1]
  <2>2. b = a * Radix
    BY <2>1 DEF Powers
  <2>3. a \in Nat /\ a > m
    BY <2>1
  <2>4. b \in Nat /\ a < b
    <3> HIDE DEF a, b
    <3> QED BY <2>1, <2>2, <2>3, RadixTimes
  <2>5. ASSUME NEW j \in 0 .. m + 1 PROVE P[j] <= P[m + 1]
    <3>1. CASE j = m + 1
      BY <2>4, <3>1
    <3>2. CASE j # m + 1
      <4>1. j \in 0 .. m /\ j \in Nat
        BY <2>1, <3>2
      <4> DEFINE c == P[j]
      <4>2. c <= a /\ c \in Nat
        BY <2>1, <4>1 DEF Powers
      <4> HIDE DEF a, b, c
      <4>3. c <= b
        BY <2>3, <2>4, <4>2
      <4> QED BY <4>3 DEF b, c
    <3> QED BY <3>1, <3>2
  <2>6. P[m + 1] \in Nat /\ P[m + 1] > m + 1
    <3> HIDE DEF a, b
    <3>1. b > m + 1
      BY <2>1, <2>3, <2>4
    <3> QED BY <2>4, <3>1 DEF b
  <2> QED BY <2>1, <2>5, <2>6
<1>3. T = Nat
  <2> HIDE DEF T
  <2>1. T \in SUBSET Nat
    BY DEF T
  <2> QED BY <1>1, <1>2, <2>1, SetInduction
<1>4. k \in T
  BY <1>3
<1> QED BY <1>4

\* A number has as many digits as the least power of Radix above it says (codec.go:
\* digitCount).
LEMMA digitCountIsPower ==
    ASSUME NEW P, Powers(P), NEW v \in Nat
    PROVE  /\ v < P[digitCount(v)]
           /\ \A j \in 1 .. digitCount(v) - 1 : P[j] <= v
<1> DEFINE c == countsUpTo(v)
           Least(u) == u < P[c[u]] /\ \A j \in 1 .. c[u] - 1 : P[j] <= u
           T == {u \in Nat : u <= v => Least(u)}
<1>1. ASSUME NEW u \in Nat, \A w \in 0 .. u - 1 : w \in T PROVE u \in T
  <2> SUFFICES ASSUME u <= v PROVE Least(u)
    OBVIOUS
  <2>1. u \in 0 .. v
    OBVIOUS
  <2>2. c[u] = IF u < Radix THEN 1 ELSE 1 + c[u \div Radix]
    BY <2>1, countsUpToIs
  <2>3. c[u] \in Nat \ {0}
    BY <2>1, DigitsAndCounts
  <2>4. P[1] = Radix
    <3>1. P[0 + 1] = P[0] * Radix /\ P[0] = 1
      BY DEF Powers
    <3> QED BY <3>1, RadixIs
  <2>5. CASE u < Radix
    <3>1. c[u] = 1
      BY <2>2, <2>5
    <3> HIDE DEF c
    <3> QED BY <2>4, <2>5, <3>1
  <2>6. CASE ~ (u < Radix)
    <3> DEFINE q == u \div Radix
               d == c[q]
    <3>1. q \in Nat /\ q < u /\ u = q * Radix + (u % Radix) /\ u % Radix \in 0 .. Radix - 1
      <4>1. u # 0 /\ Radix \in Nat /\ Radix > 0
        BY <2>6, RadixIs
      <4> QED BY <4>1, DigitSplit, DivMod
    <3>2. q \in 0 .. u - 1 /\ q <= v /\ q \in 0 .. v
      <4> HIDE DEF q
      <4> QED BY <3>1
    <3>3. Least(q)
      <4> HIDE DEF Least, c, q
      <4> QED BY <1>1, <3>2
    <3>4. d \in Nat \ {0} /\ c[u] = 1 + d
      BY <2>2, <2>6, <3>2, DigitsAndCounts
    <3> HIDE DEF c, q, d
    <3>5. q < P[d] /\ P[d] \in Nat /\ P[d + 1] = P[d] * Radix
      BY <3>3, <3>4 DEF d, Powers
    <3>6. u < P[1 + d]
      <4> DEFINE p == P[d]
                 r == u % Radix
      <4>1. q * Radix + Radix <= p * Radix /\ q * Radix \in Nat /\ p * Radix \in Nat
        BY <3>1, <3>5, RadixTimes
      <4>2. r \in 0 .. Radix - 1 /\ u = q * Radix + r /\ Radix \in Nat
        BY <3>1, RadixIs
      <4>3. P[1 + d] = p * Radix
        <5>1. 1 + d = d + 1
          BY <3>4
        <5> QED BY <3>5, <5>1
      <4> DEFINE x == q * Radix
                 y == p * Radix
      <4>4. x + Radix <= y /\ x \in Nat /\ y \in Nat /\ u = x + r
        BY <4>1, <4>2
      <4> HIDE DEF p, r, x, y
      <4>5. u < y
        BY <4>2, <4>4
      <4> QED BY <4>3, <4>5 DEF y
    <3>7. ASSUME NEW j \in 1 .. d PROVE P[j] <= u
      <4>1. CASE j = 1
        BY <2>4, <2>6, <4>1, RadixIs
      <4>2. CASE j # 1
        <5> DEFINE i == j - 1
                   p == P[i]
        <5>1. i \in 1 .. d - 1 /\ i \in Nat /\ j = i + 1
          BY <3>4, <4>2
        <5>2. p <= q /\ p \in Nat
          BY <3>3, <5>1 DEF d, Powers
        <5>3. P[j] = p * Radix
          BY <5>1 DEF Powers
        <5> HIDE DEF p, i
        <5>4. p * Radix <= q * Radix /\ p * Radix \in Nat /\ q * Radix \in Nat
          BY <3>1, <5>2, RadixTimes
        <5> DEFINE x == q * Radix
                   y == p * Radix
                   r == u % Radix
        <5>5. y <= x /\ x \in Nat /\ y \in Nat /\ u = x + r /\ r \in Nat
          BY <3>1, <5>4
        <5> HIDE DEF x, y, r
        <5>6. y <= u
          BY <5>5
        <5> QED BY <5>3, <5>6 DEF y
      <4> QED BY <4>1, <4>2
    <3> QED BY <3>4, <3>6, <3>7
  <2> QED BY <2>5, <2>6
<1>2. v \in T
  <2> HIDE DEF T
  <2> QED BY <1>1, StrongInduction
<1>3. Least(v)
  BY <1>2
<1> HIDE DEF c
<1> QED BY <1>3, digitCountIs DEF c

\* delta.c's thresholds, one digit more at a time.
thresholds ==
    CHOOSE x : x = [k \in Nat \ {0} |->
                      IF k = 1 THEN Radix ELSE signed((x[k - 1] * Radix) % Word)]

\* Half a word is where an int turns negative.
LEMMA HalfWord ==
    /\ Word \div 2 \in Nat /\ Word \div 2 > 0 /\ Word = 2 * (Word \div 2)
    /\ \A v \in 0 .. (Word \div 2) - 1 : v % Word = v /\ signed(v) = v
    /\ 0 % Word = 0 /\ signed(0) = 0
<1> DEFINE h == Word \div 2
<1>1. Word \in Nat /\ Word > 2 /\ Word % 2 = 0
  BY CodecAssumption, RadixIs, ShiftAssumption
<1>2. h \in Nat /\ h > 0 /\ Word = 2 * h
  BY <1>1
<1> HIDE DEF h
<1>3. ASSUME NEW v \in 0 .. h - 1 PROVE v % Word = v /\ signed(v) = v
  BY <1>1, <1>2 DEF signed, h
<1>4. 0 \in 0 .. h - 1
  BY <1>2
<1> QED BY <1>2, <1>3, <1>4 DEF h

LEMMA signedType == \A v \in Int : signed(v) \in Int
  BY HalfWord DEF signed

LEMMA thresholdsIs ==
    thresholds = [k \in Nat \ {0} |->
                    IF k = 1 THEN Radix ELSE signed((thresholds[k - 1] * Radix) % Word)]
<1> DEFINE st == [i \in Int |-> signed((i * Radix) % Word)]
           Step(x, k) == IF k = 1 THEN Radix ELSE signed((x[k - 1] * Radix) % Word)
<1>1. st \in [Int -> Int]
  <2>1. ASSUME NEW i \in Int PROVE (i * Radix) % Word \in Int
    <3> DEFINE y == i * Radix
    <3>1. y \in Int /\ Word \in Nat /\ Word > 0
      BY RadixIs, CodecAssumption
    <3> HIDE DEF y
    <3>2. y % Word \in Int
      BY <3>1
    <3> QED BY <3>2 DEF y
  <2> QED BY <2>1, signedType
<1>2. \A i \in Int : st[i] = signed((i * Radix) % Word)
  OBVIOUS
<1> HIDE DEF st
<1>3. Radix \in Int
  BY RadixIs
<1>4. PICK f : Endless(Int, Radix, st, f)
  BY <1>1, <1>3, EndlessExists
<1> DEFINE g == [k \in Nat \ {0} |-> f[k - 1]]
<1>5. ASSUME NEW k \in Nat \ {0} PROVE g[k] = Step(g, k)
  <2>1. CASE k = 1
    BY <1>4, <2>1 DEF Endless
  <2>2. CASE k # 1
    <3>1. k - 2 \in Nat /\ (k - 2) + 1 = k - 1 /\ k - 1 \in Nat \ {0} /\ (k - 1) - 1 = k - 2
      BY <2>2
    <3>2. f[k - 1] = st[f[k - 2]] /\ f[k - 2] \in Int
      <4>1. f[(k - 2) + 1] = st[f[k - 2]] /\ f[k - 2] \in Int
        BY <1>4, <3>1 DEF Endless
      <4> QED BY <3>1, <4>1
    <3>3. g[k] = f[k - 1] /\ g[k - 1] = f[k - 2]
      BY <3>1
    <3> HIDE DEF g
    <3> QED BY <1>2, <2>2, <3>2, <3>3
  <2> QED BY <2>1, <2>2
<1>6. g = [k \in Nat \ {0} |-> Step(g, k)]
  <2>1. g = [k \in Nat \ {0} |-> g[k]]
    OBVIOUS
  <2> HIDE DEF g, Step
  <2> QED BY <1>5, <2>1
<1>7. \E x : x = [k \in Nat \ {0} |-> Step(x, k)]
  <2> HIDE DEF g, Step
  <2> QED BY <1>6
<1> QED BY <1>7, Zenon DEF thresholds

\* cref.go's bound is a power of Radix, the last one that is at most half a word.
LEMMA MaxDigitCountIs ==
    ASSUME NEW P, Powers(P)
    PROVE  \E K \in Nat \ {0} :
              /\ MaxDigitCount = P[K] /\ (P[K] * Radix) % Word = 0
              /\ \A j \in 0 .. K : P[j] < Word \div 2
<1> DEFINE h == Word \div 2
           S == Nat \ {0}
           Go == {m \in S : m * Radix <= h}
           step == [m \in Go |-> m * Radix]
           res == [m \in S |-> m]
           left == [m \in S |-> IF m <= h THEN h - m ELSE 0]
           past == CHOOSE f : f = [m \in S |-> IF m * Radix > h THEN m ELSE f[m * Radix]]
<1>1. h \in Nat /\ h > 0 /\ Word = 2 * h
  BY HalfWord
<1> HIDE DEF h
<1>2. past = [m \in S |-> IF m * Radix > h THEN m ELSE past[m * Radix]]
  <2>1. left \in [S -> 0 .. h]
    BY <1>1
  <2>2. ASSUME NEW m \in Go PROVE m * Radix \in S /\ left[m * Radix] < left[m]
    <3> DEFINE y == m * Radix
    <3>1. m \in Nat /\ m > 0 /\ y <= h /\ y \in Nat /\ m < y
      BY RadixTimes
    <3>2. y \in S /\ m \in S
      BY <3>1
    <3>3. left[y] = h - y /\ left[m] = h - m
      <4> HIDE DEF y
      <4> QED BY <1>1, <3>1, <3>2
    <3> HIDE DEF y, left
    <3>4. left[y] < left[m]
      BY <1>1, <3>1, <3>3
    <3> QED BY <3>2, <3>4 DEF y
  <2>3. step \in [Go -> S] /\ \A m \in Go : step[m] = m * Radix
    BY <2>2
  <2>4. Shrinks(Go, step, left)
    <3> HIDE DEF step, left, Go
    <3> QED BY <2>2, <2>3 DEF Shrinks
  <2>5. Go \in SUBSET S
    OBVIOUS
  <2>6. \E f : HandsOn(S, Go, step, res, f)
    <3> HIDE DEF S, Go, step, res, left
    <3> QED BY <1>1, <2>1, <2>3, <2>4, <2>5, TailRecursionExists
  <2>7. PICK f : f = [m \in S |-> IF m \in Go THEN f[step[m]] ELSE res[m]]
    BY <2>6 DEF HandsOn
  <2>8. ASSUME NEW m \in S
        PROVE  (IF m \in Go THEN f[step[m]] ELSE res[m]) = (IF m * Radix > h THEN m ELSE f[m * Radix])
    <3> DEFINE y == m * Radix
    <3>1. m \in Go <=> ~ (y > h)
      <4>1. y \in Nat
        BY RadixIs
      <4>2. y <= h <=> ~ (y > h)
        <5> HIDE DEF y
        <5> QED BY <1>1, <4>1
      <4> QED BY <4>2
    <3>2. m \in Go => step[m] = y
      BY <2>3
    <3>3. res[m] = m
      OBVIOUS
    <3> HIDE DEF y, Go, step, res
    <3> QED BY <3>1, <3>2, <3>3 DEF y
  <2>9. f = [m \in S |-> IF m * Radix > h THEN m ELSE f[m * Radix]]
    <3> HIDE DEF Go, step, res, S
    <3> QED BY <2>7, <2>8
  <2> HIDE DEF S
  <2> QED BY <2>9, Zenon
<1>3. \A m \in S : past[m] = IF m * Radix > h THEN m ELSE past[m * Radix]
  <2> HIDE DEF past, S
  <2> QED BY <1>2
<1>4. MaxDigitCount = past[1]
  BY Zenon DEF MaxDigitCount, h
<1> HIDE DEF past
<1> DEFINE Over == {k \in Nat : P[k + 1] > h}
<1>5. h \in Over
  <2>1. h + 1 \in Nat
    BY <1>1
  <2> DEFINE y == P[h + 1]
  <2>2. y \in Nat /\ y > h + 1
    BY <2>1, PowersGrow
  <2> HIDE DEF y
  <2>3. y > h
    BY <1>1, <2>2
  <2> QED BY <1>1, <2>3 DEF y
<1>6. PICK K \in Over : \A k \in Over : K <= k
  <2> HIDE DEF Over
  <2>1. Over \in SUBSET Nat /\ Over # {}
    BY <1>5 DEF Over
  <2> QED BY <2>1, LeastNat
<1>7. K \in Nat /\ P[K + 1] > h /\ \A k \in Nat : k < K => ~ (P[k + 1] > h)
  BY <1>6
<1> HIDE DEF Over
<1>8. \A k \in Nat : P[k] \in Nat /\ P[k] > 0 /\ P[k + 1] = P[k] * Radix
  <2> TAKE k \in Nat
  <2>1. P[k] \in Nat /\ P[k] > k
    BY PowersGrow
  <2> QED BY <2>1 DEF Powers
<1>9. past[P[K]] = P[K]
  BY <1>3, <1>7, <1>8
<1>10. \A k \in 0 .. K : past[P[K - k]] = P[K]
  <2> DEFINE T == {k \in 0 .. K : past[P[K - k]] = P[K]}
  <2>1. 0 \in T
    BY <1>7, <1>9
  <2>2. ASSUME NEW u \in 1 .. K, u - 1 \in T PROVE u \in T
    <3> DEFINE k == K - u
    <3>1. k \in Nat /\ k < K /\ k + 1 = K - (u - 1) /\ u \in 0 .. K
      BY <1>7
    <3> HIDE DEF k
    <3>2. past[P[k + 1]] = P[K]
      BY <2>2, <3>1
    <3>3. ~ (P[k] * Radix > h) /\ P[k] \in S /\ P[k + 1] = P[k] * Radix
      BY <1>7, <1>8, <3>1
    <3>4. past[P[k]] = P[K]
      BY <1>3, <3>2, <3>3
    <3> QED BY <3>1, <3>4 DEF k
  <2> HIDE DEF T
  <2>3. \A k \in 0 .. K : k \in T
    BY <1>7, <2>1, <2>2, UpTo
  <2> QED BY <2>3 DEF T
<1>11. MaxDigitCount = P[K]
  <2>1. K \in 0 .. K /\ K - K = 0
    BY <1>7
  <2>2. past[P[0]] = P[K] /\ P[0] = 1
    BY <1>10, <2>1 DEF Powers
  <2> QED BY <1>4, <2>2
<1>12. K # 0
  <2> SUFFICES ASSUME K = 0 PROVE FALSE
    OBVIOUS
  <2>1. MaxDigitCount = 1
    BY <1>11 DEF Powers
  <2>2. Radix % Word = Radix /\ Radix # 0 /\ 1 * Radix = Radix
    BY RadixIs, CodecAssumption
  <2> QED BY <2>1, <2>2, ShiftAssumption
<1>13. P[K] < h
  <2> DEFINE a == P[K]
             b == P[(K - 1) + 1]
  <2>1. K - 1 \in Nat /\ K - 1 < K /\ (K - 1) + 1 = K
    BY <1>7, <1>12
  <2>2. ~ (b > h) /\ a = b
    BY <1>7, <2>1
  <2>3. a # h /\ a \in Nat
    BY <1>7, <1>8, <1>11, ShiftAssumption DEF h
  <2> HIDE DEF a, b
  <2>4. a < h
    BY <1>1, <2>2, <2>3
  <2> QED BY <2>4 DEF a
<1>14. ASSUME NEW j \in 0 .. K PROVE P[j] < h
  <2>1. P[j] <= P[K] /\ P[j] \in Nat /\ P[K] \in Nat
    BY <1>7, <1>8, PowersGrow
  <2> QED BY <1>1, <1>13, <2>1
<1>15. (P[K] * Radix) % Word = 0
  BY <1>11, ShiftAssumption
<1> QED BY <1>7, <1>11, <1>12, <1>14, <1>15 DEF h

\* delta.c's loop, from each count of digits on.
counting(v) ==
    CHOOSE c : c = [k \in Nat \ {0} |->
                      IF v < thresholds[k] THEN k
                      ELSE IF thresholds[k] <= 0 THEN Forever
                      ELSE c[k + 1]]

\* Below cref.go's bound delta.c counts the digits appendInt writes; from there on, as
\* far as an int goes, it does not stop (delta.c: digit_count).
LEMMA digit_countIs ==
    ASSUME NEW v \in 0 .. (Word \div 2) - 1
    PROVE  digit_count(v) = IF v < MaxDigitCount THEN digitCount(v) ELSE Forever
<1> DEFINE h == Word \div 2
           S == Nat \ {0}
           x == thresholds
           c == counting(v)
           Step(f, k) == IF v < x[k] THEN k ELSE IF x[k] <= 0 THEN Forever ELSE f[k + 1]
<1>1. h \in Nat /\ h > 0 /\ v \in Nat /\ v < h
  BY HalfWord
<1>2. PICK P : Powers(P)
  BY PowersExist
<1>3. PICK K \in Nat \ {0} :
          /\ MaxDigitCount = P[K] /\ (P[K] * Radix) % Word = 0
          /\ \A j \in 0 .. K : P[j] < h
  BY <1>2, MaxDigitCountIs
<1>4. /\ \A k \in Nat : P[k] \in Nat /\ P[k] > 0 /\ P[k + 1] = P[k] * Radix
      /\ P[1] = Radix
      /\ \A k \in Nat : \A j \in 0 .. k : P[j] <= P[k]
  <2>1. ASSUME NEW k \in Nat PROVE P[k] \in Nat /\ P[k] > 0 /\ P[k + 1] = P[k] * Radix
    <3>1. P[k] \in Nat /\ P[k] > k
      BY <1>2, PowersGrow
    <3> QED BY <1>2, <3>1 DEF Powers
  <2>2. P[0 + 1] = P[0] * Radix /\ P[0] = 1
    BY <1>2 DEF Powers
  <2>3. P[1] = Radix
    BY <2>2, RadixIs
  <2> QED BY <1>2, <2>1, <2>3, PowersGrow
<1>5. \A k \in S : x[k] = IF k = 1 THEN Radix ELSE signed((x[k - 1] * Radix) % Word)
  BY thresholdsIs
<1> HIDE DEF x, h
<1>6. \A k \in 1 .. K : x[k] = P[k]
  <2> DEFINE T == {k \in 0 .. K : k = 0 \/ x[k] = P[k]}
  <2>1. 0 \in T
    BY <1>3
  <2>2. ASSUME NEW u \in 1 .. K, u - 1 \in T PROVE u \in T
    <3>1. CASE u = 1
      BY <1>4, <1>5, <3>1
    <3>2. CASE u # 1
      <4>1. u \in S /\ u \in 0 .. K /\ u - 1 \in Nat /\ (u - 1) + 1 = u /\ u - 1 # 0
        BY <1>3, <3>2
      <4>2. x[u - 1] = P[u - 1] /\ P[u] = P[u - 1] * Radix
        BY <1>4, <2>2, <4>1
      <4>3. x[u] = signed(P[u] % Word)
        BY <1>5, <3>2, <4>1, <4>2
      <4>4. P[u] \in 0 .. h - 1
        BY <1>1, <1>3, <1>4, <4>1
      <4>5. x[u] = P[u]
        BY <4>3, <4>4, HalfWord DEF h
      <4> QED BY <4>1, <4>5
    <3> QED BY <3>1, <3>2
  <2> HIDE DEF T
  <2>3. \A k \in 0 .. K : k \in T
    BY <1>3, <2>1, <2>2, UpTo
  <2> QED BY <2>3 DEF T
<1>7. \A m \in Nat : x[K + 1 + m] = 0
  <2> DEFINE T == {m \in Nat : x[K + 1 + m] = 0}
  <2>1. 0 \in T
    <3>1. K + 1 + 0 \in S /\ K + 1 + 0 # 1 /\ (K + 1 + 0) - 1 = K /\ K \in 1 .. K
      BY <1>3
    <3>2. x[K + 1 + 0] = signed((P[K] * Radix) % Word)
      BY <1>5, <1>6, <3>1
    <3> QED BY <1>3, <3>2, HalfWord
  <2>2. ASSUME NEW m \in T PROVE m + 1 \in T
    <3>1. m \in Nat /\ x[K + 1 + m] = 0
      BY <2>2
    <3>2. /\ K + 1 + (m + 1) \in S /\ K + 1 + (m + 1) # 1
          /\ (K + 1 + (m + 1)) - 1 = K + 1 + m
      BY <1>3, <3>1
    <3>3. x[K + 1 + (m + 1)] = signed((x[K + 1 + m] * Radix) % Word)
      BY <1>5, <3>2
    <3>4. 0 * Radix = 0
      BY RadixIs
    <3>5. x[K + 1 + (m + 1)] = 0
      BY <3>1, <3>3, <3>4, HalfWord
    <3> QED BY <3>1, <3>5
  <2>3. T = Nat
    <3> HIDE DEF T
    <3>1. T \in SUBSET Nat
      BY DEF T
    <3> QED BY <2>1, <2>2, <3>1, SetInduction
  <2> QED BY <2>3
<1>8. \A k \in S : k > K => x[k] = 0
  <2> TAKE k \in S
  <2> HAVE k > K
  <2>1. k - K - 1 \in Nat /\ K + 1 + (k - K - 1) = k
    BY <1>3
  <2> QED BY <1>7, <2>1
<1>9. c = [k \in S |-> Step(c, k)]
  <2> DEFINE Go == {k \in S : k <= K /\ ~ (v < x[k])}
             step == [k \in Go |-> k + 1]
             res == [k \in S |-> IF v < x[k] THEN k ELSE Forever]
             left == [k \in S |-> IF k <= K THEN K + 1 - k ELSE 0]
  <2>1. left \in [S -> 0 .. K + 1] /\ K + 1 \in Nat
    BY <1>3
  <2>2. step \in [Go -> S] /\ Go \in SUBSET S /\ \A k \in Go : step[k] = k + 1
    OBVIOUS
  <2>3. \A k \in Go : left[k + 1] < left[k]
    <3> TAKE k \in Go
    <3>1. k \in Nat /\ k > 0 /\ k <= K /\ k + 1 \in S
      OBVIOUS
    <3>2. left[k] = K + 1 - k /\ left[k + 1] = IF k + 1 <= K THEN K + 1 - (k + 1) ELSE 0
      BY <3>1
    <3> HIDE DEF left
    <3> QED BY <1>3, <3>1, <3>2
  <2>4. Shrinks(Go, step, left)
    <3> HIDE DEF Go, step, left
    <3> QED BY <2>2, <2>3 DEF Shrinks
  <2>5. \E f : HandsOn(S, Go, step, res, f)
    <3> HIDE DEF S, Go, step, res, left
    <3> QED BY <2>1, <2>2, <2>4, TailRecursionExists
  <2>6. PICK f : f = [k \in S |-> IF k \in Go THEN f[step[k]] ELSE res[k]]
    BY <2>5 DEF HandsOn
  <2>7. ASSUME NEW k \in S PROVE (IF k \in Go THEN f[step[k]] ELSE res[k]) = Step(f, k)
    <3>1. k <= K => x[k] > 0
      <4> SUFFICES ASSUME k <= K PROVE x[k] > 0
        OBVIOUS
      <4>1. k \in 1 .. K /\ k \in Nat
        BY <1>3
      <4> QED BY <1>4, <1>6, <4>1
    <3>2. ~ (k <= K) => x[k] <= 0
      BY <1>3, <1>8
    <3>3. k <= K => ~ (x[k] <= 0)
      <4>1. k <= K => x[k] \in Nat
        <5> SUFFICES ASSUME k <= K PROVE x[k] \in Nat
          OBVIOUS
        <5>1. k \in 1 .. K /\ k \in Nat
          BY <1>3
        <5> QED BY <1>4, <1>6, <5>1
      <4> QED BY <3>1, <4>1
    <3>4. res[k] = IF v < x[k] THEN k ELSE Forever
      OBVIOUS
    <3>5. k \in Go <=> k <= K /\ ~ (v < x[k])
      OBVIOUS
    <3> HIDE DEF Go, step, res
    <3> QED BY <2>2, <3>2, <3>3, <3>4, <3>5
  <2>8. f = [k \in S |-> Step(f, k)]
    <3> HIDE DEF Go, step, res, S, Step
    <3> QED BY <2>6, <2>7
  <2>9. \E g : g = [k \in S |-> Step(g, k)]
    <3> HIDE DEF Step, S
    <3> QED BY <2>8
  <2> QED BY <2>9, Zenon DEF counting, x
<1>10. \A k \in S : c[k] = Step(c, k)
  <2> HIDE DEF c, Step, S
  <2> QED BY <1>9
<1>11. digit_count(v) = c[1]
  BY Zenon DEF digit_count, thresholds, counting
<1> HIDE DEF c
<1>12. ASSUME NEW e \in S, \A j \in 1 .. e - 1 : ~ (v < x[j]) /\ ~ (x[j] <= 0)
       PROVE  c[1] = c[e]
  <2> DEFINE T == {d \in 0 .. e - 1 : c[e - d] = c[e]}
  <2>1. 0 \in T
    <3>1. e - 0 = e /\ 0 \in 0 .. e - 1
      OBVIOUS
    <3> QED BY <3>1
  <2>2. ASSUME NEW u \in 1 .. e - 1, u - 1 \in T PROVE u \in T
    <3>1. /\ e - u \in S /\ e - u \in 1 .. e - 1 /\ (e - u) + 1 = e - (u - 1)
          /\ u \in 0 .. e - 1
      OBVIOUS
    <3>2. c[e - u] = c[(e - u) + 1]
      BY <1>10, <1>12, <3>1
    <3> QED BY <2>2, <3>1, <3>2
  <2> HIDE DEF T
  <2>3. \A d \in 0 .. e - 1 : d \in T
    <3>1. e - 1 \in Nat
      OBVIOUS
    <3> QED BY <2>1, <2>2, <3>1, UpTo
  <2>4. e - 1 \in 0 .. e - 1 /\ e - (e - 1) = 1
    OBVIOUS
  <2> QED BY <2>3, <2>4 DEF T
<1>13. CASE v < P[K]
  <2> DEFINE D == digitCount(v)
  <2>1. D \in S /\ v < P[D] /\ \A j \in 1 .. D - 1 : P[j] <= v
    BY <1>1, <1>2, digitCountType, digitCountIsPower
  <2> HIDE DEF D
  <2>2. D <= K
    <3> SUFFICES ASSUME D > K PROVE FALSE
      BY <1>3, <2>1
    <3>1. K \in 1 .. D - 1
      BY <1>3, <2>1
    <3>2. P[K] <= v /\ P[K] \in Nat
      BY <1>3, <1>4, <2>1, <3>1
    <3> QED BY <1>1, <1>13, <3>2
  <2>3. \A j \in 1 .. D - 1 : ~ (v < x[j]) /\ ~ (x[j] <= 0)
    <3> TAKE j \in 1 .. D - 1
    <3>1. j \in 1 .. K /\ j \in Nat
      BY <1>3, <2>1, <2>2
    <3>2. x[j] = P[j] /\ P[j] \in Nat /\ P[j] > 0 /\ P[j] <= v
      BY <1>4, <1>6, <2>1, <3>1
    <3> QED BY <1>1, <3>2
  <2>4. c[1] = c[D]
    BY <1>12, <2>1, <2>3
  <2>5. v < x[D]
    <3>1. D \in 1 .. K
      BY <1>3, <2>1, <2>2
    <3> QED BY <1>6, <2>1, <3>1
  <2>6. c[D] = D
    BY <1>10, <2>1, <2>5
  <2> QED BY <1>3, <1>11, <1>13, <2>4, <2>6 DEF D
<1>14. CASE ~ (v < P[K])
  <2> DEFINE e == K + 1
  <2>1. e \in S /\ e - 1 = K /\ e > K
    BY <1>3
  <2>2. \A j \in 1 .. e - 1 : ~ (v < x[j]) /\ ~ (x[j] <= 0)
    <3> TAKE j \in 1 .. e - 1
    <3>1. j \in 1 .. K /\ j \in Nat /\ j \in 0 .. K /\ K \in Nat
      BY <1>3, <2>1
    <3>2. x[j] = P[j] /\ P[j] \in Nat /\ P[j] > 0 /\ P[j] <= P[K] /\ P[K] \in Nat
      BY <1>4, <1>6, <3>1
    <3> QED BY <1>1, <1>14, <3>2
  <2>3. x[e] = 0
    BY <1>8, <2>1
  <2> HIDE DEF e
  <2>4. c[1] = c[e]
    BY <1>12, <2>1, <2>2
  <2>5. c[e] = Forever
    BY <1>1, <1>10, <2>1, <2>3
  <2> QED BY <1>3, <1>11, <1>14, <2>4, <2>5
<1> QED BY <1>13, <1>14

(***************************************************************************)
(* The library's fold takes the elements of a sequence in any order.  For  *)
(* a sum the order makes no difference: there are sums of all sets of      *)
(* indices, each with any of its elements the sum without it and that      *)
(* element's weight, and a recursion that picks any element yields them.   *)
(***************************************************************************)

\* F is the sum of the weights of each set of indices up to n.
Sums(n, w, F) ==
    /\ F \in [SUBSET (1 .. n) -> Nat] /\ F[{}] = 0
    /\ \A s \in SUBSET (1 .. n) : \A x \in s : F[s] = F[s \ {x}] + w[x]

LEMMA SumsExist ==
    ASSUME NEW w \in [Nat -> Nat]
    PROVE  \A n \in Nat : \E F : Sums(n, w, F)
<1> DEFINE T == {n \in Nat : \E F : Sums(n, w, F)}
<1>1. 0 \in T
  <2> DEFINE F == [s \in SUBSET (1 .. 0) |-> 0]
  <2>1. \A s \in SUBSET (1 .. 0) : \A x \in s : FALSE
    OBVIOUS
  <2>2. Sums(0, w, F)
    BY <2>1 DEF Sums
  <2> QED BY <2>2
<1>2. ASSUME NEW n \in T PROVE n + 1 \in T
  <2>1. n \in Nat
    OBVIOUS
  <2>2. PICK F : Sums(n, w, F)
    OBVIOUS
  <2> DEFINE m == n + 1
             Add(s) == IF m \in s THEN w[m] ELSE 0
             G == [s \in SUBSET (1 .. m) |-> F[s \ {m}] + Add(s)]
  <2>3. \A s \in SUBSET (1 .. m) : s \ {m} \in SUBSET (1 .. n)
    BY <2>1
  <2>4. \A s \in SUBSET (1 .. m) : F[s \ {m}] \in Nat /\ Add(s) \in Nat
    BY <2>1, <2>2, <2>3 DEF Sums
  <2>5. G \in [SUBSET (1 .. m) -> Nat]
    <3> DEFINE Sum(s) == F[s \ {m}] + Add(s)
    <3>1. \A s \in SUBSET (1 .. m) : Sum(s) \in Nat
      BY <2>4, SMTT(30)
    <3> HIDE DEF Sum
    <3>2. [s \in SUBSET (1 .. m) |-> Sum(s)] \in [SUBSET (1 .. m) -> Nat]
      BY <3>1
    <3> QED BY <3>2 DEF Sum
  <2>6. \A s \in SUBSET (1 .. m) : G[s] = F[s \ {m}] + Add(s)
    OBVIOUS
  <2> HIDE DEF G
  <2>7. G[{}] = 0
    <3>1. {} \in SUBSET (1 .. m) /\ {} \ {m} = {} /\ Add({}) = 0
      OBVIOUS
    <3>2. F[{}] = 0
      BY <2>2 DEF Sums
    <3>3. G[{}] = F[{} \ {m}] + Add({})
      BY <2>6, <3>1
    <3> QED BY <3>1, <3>2, <3>3
  <2>8. ASSUME NEW s \in SUBSET (1 .. m), NEW x \in s PROVE G[s] = G[s \ {x}] + w[x]
    <3>1. s \ {x} \in SUBSET (1 .. m) /\ x \in 1 .. m /\ x \in Nat
      BY <2>1
    <3>2. G[s] = F[s \ {m}] + Add(s) /\ G[s \ {x}] = F[(s \ {x}) \ {m}] + Add(s \ {x})
      BY <2>6, <3>1
    <3>3. CASE x = m
      <4>1. (s \ {x}) \ {m} = s \ {m} /\ Add(s) = w[x] /\ Add(s \ {x}) = 0
        BY <3>3
      <4>2. F[s \ {m}] \in Nat /\ w[x] \in Nat
        BY <2>4, <3>1
      <4> HIDE DEF Add
      <4> QED BY <3>2, <4>1, <4>2, SMTT(30)
    <3>4. CASE x # m
      <4>1. (s \ {x}) \ {m} = (s \ {m}) \ {x} /\ Add(s) = Add(s \ {x}) /\ x \in s \ {m}
        BY <3>4
      <4>2. F[s \ {m}] = F[(s \ {m}) \ {x}] + w[x]
        BY <2>2, <2>3, <4>1 DEF Sums
      <4>3. F[(s \ {x}) \ {m}] \in Nat /\ w[x] \in Nat /\ Add(s) \in Nat
        BY <2>4, <3>1
      <4> HIDE DEF Add
      <4> QED BY <3>2, <4>1, <4>2, <4>3
    <3> QED BY <3>3, <3>4
  <2>9. Sums(m, w, G)
    BY <2>5, <2>7, <2>8 DEF Sums
  <2> QED BY <2>1, <2>9
<1>3. T = Nat
  <2> HIDE DEF T
  <2>1. T \in SUBSET Nat
    BY DEF T
  <2> QED BY <1>1, <1>2, <2>1, SetInduction
<1> QED BY <1>3

\* What a number and its command byte take.
cost(e) == digitCount(e[1]) + 1

\* The library's recursion over the sets of a sequence's indices.
folding(q) ==
    CHOOSE it : it = [s \in SUBSET (DOMAIN q) |->
                        IF s = {} THEN 0
                        ELSE it[s \ {CHOOSE x \in s : TRUE}]
                               + digitCount(q[CHOOSE x \in s : TRUE][1]) + 1]

LEMMA FoldIsFolding ==
    ASSUME NEW q
    PROVE  FoldSeq(LAMBDA e, n : n + digitCount(e[1]) + 1, 0, q) = folding(q)[DOMAIN q]
  BY Zenon DEF FoldSeq, FoldFunction, FoldFunctionOnSet, MapThenFoldSet, folding

LEMMA FoldIsSum ==
    ASSUME NEW n \in Nat, NEW q, DOMAIN q = 1 .. n, \A k \in 1 .. n : q[k][1] \in Nat,
           NEW w, \A k \in 1 .. n : w[k] = cost(q[k]), NEW F, Sums(n, w, F)
    PROVE  FoldSeq(LAMBDA e, m : m + digitCount(e[1]) + 1, 0, q) = F[1 .. n]
<1> DEFINE some(s) == CHOOSE x \in s : TRUE
           Step(f, s) == IF s = {} THEN 0 ELSE f[s \ {some(s)}] + digitCount(q[some(s)][1]) + 1
           S == SUBSET (1 .. n)
<1>1. ASSUME NEW s \in S, s # {}
      PROVE  /\ some(s) \in s /\ s \ {some(s)} \in S
             /\ F[s] = F[s \ {some(s)}] + digitCount(q[some(s)][1]) + 1
  <2>1. some(s) \in s
    BY <1>1
  <2> DEFINE k == some(s)
             t == s \ {k}
  <2> HIDE DEF k
  <2>2. k \in s /\ k \in 1 .. n /\ t \in S
    BY <2>1 DEF k
  <2>3. F[s] = F[t] + w[k] /\ F[t] \in Nat
    BY <2>2 DEF Sums
  <2>4. w[k] = digitCount(q[k][1]) + 1 /\ digitCount(q[k][1]) \in Nat
    BY <2>2, digitCountType DEF cost
  <2> DEFINE a == digitCount(q[k][1])
             b == F[t]
  <2>5. b + (a + 1) = b + a + 1
    <3>1. a \in Nat /\ b \in Nat
      BY <2>3, <2>4
    <3> HIDE DEF a, b
    <3> QED BY <3>1
  <2>6. F[s] = F[t] + digitCount(q[k][1]) + 1
    BY <2>3, <2>4, <2>5
  <2> QED BY <2>1, <2>2, <2>6 DEF k
<1>2. F = [s \in S |-> Step(F, s)]
  <2>1. F = [s \in S |-> F[s]] /\ F[{}] = 0
    BY DEF Sums
  <2>2. \A s \in S : F[s] = Step(F, s)
    <3> HIDE DEF some, S
    <3> QED BY <1>1, <2>1
  <2> HIDE DEF Step, S
  <2> QED BY <2>1, <2>2
<1> DEFINE it == folding(q)
<1>3. it = [s \in S |-> Step(it, s)]
  <2>1. \E f : f = [s \in S |-> Step(f, s)]
    <3> HIDE DEF Step, S
    <3> QED BY <1>2
  <2>2. it = CHOOSE f : f = [s \in S |-> Step(f, s)]
    BY DEF folding
  <2> HIDE DEF it, Step, S
  <2> QED BY <2>1, <2>2, Zenon
<1>4. \A s \in S : it[s] = Step(it, s)
  <2> HIDE DEF it, Step, S
  <2> QED BY <1>3
<1> HIDE DEF it
<1>5. \A s \in S : IsFiniteSet(s) /\ Cardinality(s) \in Nat
  <2>1. IsFiniteSet(1 .. n)
    BY FS_Interval
  <2> QED BY <2>1, FS_Subset, FS_CardinalityType
<1> DEFINE T == {m \in Nat : \A s \in S : Cardinality(s) = m => it[s] = F[s]}
<1>6. 0 \in T
  <2> SUFFICES ASSUME NEW s \in S, Cardinality(s) = 0 PROVE it[s] = F[s]
    OBVIOUS
  <2>1. s = {}
    BY <1>5, FS_EmptySet
  <2> QED BY <1>4, <2>1 DEF Sums
<1>7. ASSUME NEW m \in T PROVE m + 1 \in T
  <2>1. m \in Nat
    OBVIOUS
  <2> SUFFICES ASSUME NEW s \in S, Cardinality(s) = m + 1 PROVE it[s] = F[s]
    BY <2>1
  <2>2. s # {}
    <3>1. Cardinality({}) = 0 /\ m + 1 # 0
      BY <2>1, FS_EmptySet
    <3> QED BY <3>1
  <2> DEFINE t == s \ {some(s)}
  <2>3. /\ some(s) \in s /\ t \in S
        /\ F[s] = F[t] + digitCount(q[some(s)][1]) + 1
    BY <1>1, <2>2
  <2>4. Cardinality(t) = m
    <3> HIDE DEF some
    <3>1. Cardinality(t) = Cardinality(s) - 1
      BY <1>5, <2>3, FS_RemoveElement
    <3> QED BY <2>1, <3>1
  <2>5. it[t] = F[t]
    BY <2>3, <2>4
  <2>6. it[s] = it[t] + digitCount(q[some(s)][1]) + 1
    BY <1>4, <2>2
  <2> QED BY <2>3, <2>5, <2>6
<1>8. T = Nat
  <2> HIDE DEF T
  <2>1. T \in SUBSET Nat
    BY DEF T
  <2> QED BY <1>6, <1>7, <2>1, SetInduction
<1>9. 1 .. n \in S
  OBVIOUS
<1>10. it[1 .. n] = F[1 .. n]
  <2>1. Cardinality(1 .. n) \in T
    BY <1>5, <1>8, <1>9
  <2> QED BY <1>9, <2>1
<1> QED BY <1>10, FoldIsFolding DEF it

\* What is added up in the order of the writes is the sum.
Accrues(n, w, f) == f[0] = 0 /\ \A k \in 1 .. n : f[k] = f[k - 1] + w[k]

LEMMA SumInOrder ==
    ASSUME NEW n \in Nat, NEW w, NEW F, Sums(n, w, F), NEW f, Accrues(n, w, f)
    PROVE  F[1 .. n] = f[n]
<1> USE DEF Accrues
<1> DEFINE T == {k \in 0 .. n : F[1 .. k] = f[k]}
<1>1. 0 \in T
  <2>1. 1 .. 0 = {}
    OBVIOUS
  <2> QED BY <2>1 DEF Sums
<1>2. ASSUME NEW k \in 1 .. n, k - 1 \in T PROVE k \in T
  <2>1. k \in 1 .. k /\ 1 .. k \in SUBSET (1 .. n) /\ (1 .. k) \ {k} = 1 .. k - 1 /\ k \in 0 .. n
    <3>1. k \in Nat /\ k <= n /\ 1 <= k
      OBVIOUS
    <3>2. \A i \in 1 .. k : i \in 1 .. n
      BY <3>1
    <3>3. \A i \in 1 .. k : i # k => i \in 1 .. k - 1
      BY <3>1
    <3>4. \A i \in 1 .. k - 1 : i \in 1 .. k /\ i # k
      BY <3>1
    <3>5. (1 .. k) \ {k} = 1 .. k - 1
      BY <3>3, <3>4
    <3> QED BY <3>1, <3>2, <3>5
  <2>2. F[1 .. k] = F[(1 .. k) \ {k}] + w[k]
    BY <2>1 DEF Sums
  <2>3. F[1 .. k - 1] = f[k - 1]
    BY <1>2
  <2>4. F[1 .. k] = f[k]
    BY <2>1, <2>2, <2>3
  <2> QED BY <2>1, <2>4
<1> HIDE DEF T
<1>3. \A k \in 0 .. n : k \in T
  BY <1>1, <1>2, UpTo
<1>4. n \in 0 .. n
  OBVIOUS
<1> QED BY <1>3, <1>4 DEF T

\* The price of a command is the length of its text, and delta.c's price is the same as
\* far as it has one (codec.go: digitCount, appendInt; delta.c: digit_count).
THEOREM PricesAreLengths == Spec => []PriceIsLengthWritten
<1>1. StreamInv => PriceIsLengthWritten
  <2> SUFFICES ASSUME StreamInv PROVE PriceIsLengthWritten
    OBVIOUS
  <2> DEFINE n == Len(written)
             w == [k \in Nat |-> IF k \in 1 .. n THEN cost(written[k]) ELSE 0]
  <2>1. buf \in Seq(Byte) /\ written \in Seq(Words \X CommandBytes)
    BY DEF StreamInv, TypeOK
  <2>2. PICK f \in [0 .. n -> Nat] : LaidOut(f)
    BY DEF StreamInv
  <2>3. n \in Nat /\ DOMAIN written = 1 .. n
    BY <2>1
  <2>4. \A k \in 1 .. n : written[k][1] \in Words /\ written[k][1] \in Nat
    <3> TAKE k \in 1 .. n
    <3>1. written[k] \in Words \X CommandBytes
      BY <2>1
    <3> QED BY <3>1, WordsAndCommands
  <2>5. \A k \in 1 .. n : cost(written[k]) \in Nat
    <3> TAKE k \in 1 .. n
    <3> DEFINE b == digitCount(written[k][1])
    <3>1. b \in Nat
      BY <2>4, digitCountType
    <3> HIDE DEF b
    <3>2. b + 1 \in Nat
      BY <3>1
    <3> QED BY <3>2 DEF cost, b
  <2>6. w \in [Nat -> Nat] /\ \A k \in 1 .. n : w[k] = cost(written[k])
    BY <2>3, <2>5
  <2>7. f[0] = 0 /\ f[n] = Len(buf)
        /\ \A k \in 1 .. n : f[k] = f[k - 1] + digitCount(written[k][1]) + 1
    BY <2>2 DEF LaidOut
  <2> HIDE DEF w, n
  <2>8. PICK F : Sums(n, w, F)
    BY <2>3, <2>6, SumsExist
  <2>9. FoldSeq(LAMBDA e, m : m + digitCount(e[1]) + 1, 0, written) = F[1 .. n]
    BY <2>3, <2>4, <2>6, <2>8, FoldIsSum, ZenonT(30)
  <2>10. \A k \in 1 .. n : f[k] = f[k - 1] + w[k]
    <3> TAKE k \in 1 .. n
    <3> DEFINE a == f[k - 1]
               b == digitCount(written[k][1])
    <3>1. f[k] = a + b + 1 /\ w[k] = b + 1
      BY <2>6, <2>7 DEF cost
    <3>2. a \in Nat /\ b \in Nat
      <4>1. k - 1 \in 0 .. n
        BY <2>3
      <4> QED BY <2>2, <2>4, <4>1, digitCountType
    <3> HIDE DEF a, b
    <3>3. a + b + 1 = a + (b + 1)
      BY <3>2
    <3> QED BY <3>1, <3>3 DEF a
  <2>11. F[1 .. n] = Len(buf)
    <3>1. F[1 .. n] = f[n]
      <4>1. Accrues(n, w, f)
        BY <2>7, <2>10 DEF Accrues
      <4> QED BY ONLY <4>1, <2>3, <2>8, SumInOrder
    <3> QED BY <2>7, <3>1
  <2>12. ASSUME NEW e \in Range(written), e[1] < Word \div 2
         PROVE  digit_count(e[1]) = IF e[1] < MaxDigitCount THEN digitCount(e[1]) ELSE Forever
    <3>1. e[1] \in Nat
      BY <2>3, <2>4 DEF Range
    <3>2. e[1] \in 0 .. (Word \div 2) - 1
      BY <2>12, <3>1, HalfWord
    <3> QED BY <3>2, digit_countIs
  <2> QED BY <2>9, <2>11, <2>12 DEF PriceIsLengthWritten
<1> QED BY <1>1, StreamAlways, PTL
=============================================================================
