---------------------------- MODULE CodecProofs -----------------------------
(***************************************************************************)
(* What the format's readers return, whatever the bytes, and what is a delta *)
(* from one text to another.                                               *)
(*                                                                         *)
(* digitsEnd chooses a position and decodeInt's value is a recursive       *)
(* function, so that they return anything in particular has to be shown:   *)
(* there is a position to choose, and there is such a function.            *)
(***************************************************************************)
EXTENDS DeltaMeaning, MatchLength, WellFoundedInduction, TLAPS

(***************************************************************************)
(* Induction over the naturals with a set in the place of the predicate,   *)
(* and what the proofs need of it again and again: a least element of a    *)
(* set, and the first point at which something stops being so.             *)
(***************************************************************************)

\* Every set of naturals that is not empty has a least element.
LEMMA LeastNat ==
    ASSUME NEW T \in SUBSET Nat, T # {}
    PROVE  \E m \in T : \A k \in T : m <= k
<1>1. IsWellFoundedOn(OpToRel(<, Nat), Nat)
  BY NatLessThanWellFounded
<1>2. \E m \in T : \A k \in T : ~ (<<k, m>> \in OpToRel(<, Nat))
  BY <1>1, WFMin
<1>3. \E m \in T : \A k \in T : ~ (k < m)
  BY <1>2 DEF OpToRel
<1> QED BY <1>3

\* A set of naturals with 0 in it and with the successor of everything in it is Nat.
LEMMA SetInduction ==
    ASSUME NEW T \in SUBSET Nat, 0 \in T, \A m \in T : m + 1 \in T
    PROVE  T = Nat
<1>1. SUFFICES ASSUME Nat \ T # {} PROVE FALSE
  OBVIOUS
<1>2. PICK m \in Nat \ T : \A k \in Nat \ T : m <= k
  BY <1>1, LeastNat
<1>3. m # 0 /\ m - 1 \in Nat /\ m - 1 \notin T
  BY <1>2
<1>4. m - 1 < m
  BY <1>3
<1> QED BY <1>2, <1>3, <1>4

\* Of a stretch of naturals in a set, one is the first that is outside, or all are inside.
LEMMA FirstOutside ==
    ASSUME NEW n \in Nat, NEW T
    PROVE  \E k \in 0 .. n : (\A j \in 0 .. k - 1 : j \in T) /\ (k < n => k \notin T)
<1> DEFINE Out == {k \in Nat : k < n /\ k \notin T}
<1>1. CASE Out = {}
  <2>1. \A j \in 0 .. n - 1 : j \in T
    BY <1>1
  <2> QED BY <2>1
<1>2. CASE Out # {}
  <2>1. PICK m \in Out : \A k \in Out : m <= k
    BY <1>2, LeastNat
  <2>2. \A j \in 0 .. m - 1 : j \in T
    BY <2>1
  <2> QED BY <2>1, <2>2
<1> QED BY <1>1, <1>2

\* Strong induction: a set that has a natural whenever it has all smaller ones.
LEMMA StrongInduction ==
    ASSUME NEW T, \A m \in Nat : (\A k \in 0 .. m - 1 : k \in T) => m \in T
    PROVE  \A m \in Nat : m \in T
<1>1. SUFFICES ASSUME NEW x \in Nat, x \notin T PROVE FALSE
  OBVIOUS
<1> DEFINE Out == {k \in Nat : k \notin T}
<1>2. PICK m \in Out : \A k \in Out : m <= k
  <2>1. x \in Out
    BY <1>1
  <2> QED BY <2>1, LeastNat
<1>3. \A k \in 0 .. m - 1 : k \in T
  BY <1>2
<1> QED BY <1>2, <1>3

\* A value at 0 and a step that finds each next value from one before it, at p: there is
\* a function with these values.  It is what a recursive definition asks for, with the
\* step in the shape of a function.
Solvable(n, S, s0, p, st) ==
    \E f \in [0 .. n -> S] :
        \A u \in 0 .. n : f[u] = IF u = 0 THEN s0 ELSE st[<<u, f[p[u]]>>]

LEMMA RecursionExists ==
    ASSUME NEW n \in Nat, NEW S, NEW s0 \in S,
           NEW p \in [1 .. n -> Nat], \A u \in 1 .. n : p[u] < u,
           NEW st \in [(1 .. n) \X S -> S]
    PROVE  Solvable(n, S, s0, p, st)
<1> DEFINE Good(f, m) == \A u \in 0 .. m : f[u] = IF u = 0 THEN s0 ELSE st[<<u, f[p[u]]>>]
           T == {m \in Nat : m <= n => \E f \in [0 .. m -> S] : Good(f, m)}
<1>1. 0 \in T
  <2> DEFINE f0 == [u \in 0 .. 0 |-> s0]
  <2>1. f0 \in [0 .. 0 -> S] /\ Good(f0, 0)
    OBVIOUS
  <2> QED BY <2>1
<1>2. ASSUME NEW m \in T PROVE m + 1 \in T
  <2> SUFFICES ASSUME m + 1 <= n PROVE \E f \in [0 .. m + 1 -> S] : Good(f, m + 1)
    OBVIOUS
  <2>1. m \in Nat /\ m <= n
    OBVIOUS
  <2>2. PICK f \in [0 .. m -> S] : Good(f, m)
    BY <2>1
  <2>3. m + 1 \in 1 .. n /\ p[m + 1] \in 0 .. m
    BY <2>1
  <2> DEFINE g == [u \in 0 .. m + 1 |-> IF u = m + 1 THEN st[<<m + 1, f[p[m + 1]]>>]
                                         ELSE f[u]]
  <2>4. st[<<m + 1, f[p[m + 1]]>>] \in S
    BY <2>3
  <2>5. g \in [0 .. m + 1 -> S]
    BY <2>1, <2>4
  <2>6. ASSUME NEW u \in 0 .. m + 1
        PROVE  g[u] = IF u = 0 THEN s0 ELSE st[<<u, g[p[u]]>>]
    <3>1. CASE u = m + 1
      <4>1. g[p[u]] = f[p[m + 1]]
        BY <2>1, <2>3, <3>1
      <4>2. g[u] = st[<<m + 1, f[p[m + 1]]>>] /\ u # 0
        BY <2>1, <3>1
      <4> HIDE DEF g
      <4> QED BY <3>1, <4>1, <4>2
    <3>2. CASE u # m + 1
      <4>1. u \in 0 .. m
        BY <2>1, <3>2
      <4>2. u # 0 => p[u] \in 0 .. m /\ p[u] # m + 1
        BY <2>1, <4>1
      <4>3. u # 0 => g[p[u]] = f[p[u]]
        BY <2>1, <4>2
      <4>4. g[u] = f[u]
        BY <3>2
      <4>5. f[u] = IF u = 0 THEN s0 ELSE st[<<u, f[p[u]]>>]
        BY <2>2, <4>1
      <4> HIDE DEF g
      <4> QED BY <4>3, <4>4, <4>5
    <3> QED BY <3>1, <3>2
  <2>7. Good(g, m + 1)
    BY <2>6
  <2> HIDE DEF g, Good
  <2> QED BY <2>5, <2>7
<1>3. T = Nat
  <2> HIDE DEF T
  <2>1. T \in SUBSET Nat
    BY DEF T
  <2> QED BY <1>1, <1>2, <2>1, SetInduction
<1>4. n \in T /\ n <= n
  <2> HIDE DEF T
  <2> QED BY <1>3
<1> QED BY <1>4 DEF Solvable

\* The same where the value before the next is the one at u - 1.
Iterable(n, S, s0, st) ==
    \E f \in [0 .. n -> S] : f[0] = s0 /\ \A u \in 1 .. n : f[u] = st[<<u, f[u - 1]>>]

LEMMA IterationExists ==
    ASSUME NEW n \in Nat, NEW S, NEW s0 \in S, NEW st \in [(1 .. n) \X S -> S]
    PROVE  Iterable(n, S, s0, st)
<1> DEFINE p == [u \in 1 .. n |-> u - 1]
<1>1. p \in [1 .. n -> Nat] /\ (\A u \in 1 .. n : p[u] < u)
  OBVIOUS
<1>2. \A u \in 1 .. n : p[u] = u - 1
  OBVIOUS
<1> HIDE DEF p
<1>3. Solvable(n, S, s0, p, st)
  BY <1>1, RecursionExists
<1>4. PICK f \in [0 .. n -> S] :
          \A u \in 0 .. n : f[u] = IF u = 0 THEN s0 ELSE st[<<u, f[p[u]]>>]
  BY <1>3 DEF Solvable
<1>5. f[0] = s0
  <2>1. 0 \in 0 .. n
    OBVIOUS
  <2> QED BY <1>4, <2>1
<1>6. ASSUME NEW u \in 1 .. n PROVE f[u] = st[<<u, f[u - 1]>>]
  <2>1. u \in 0 .. n /\ u # 0
    OBVIOUS
  <2>2. f[u] = st[<<u, f[p[u]]>>]
    BY <1>4, <2>1
  <2> QED BY <1>2, <2>2
<1> QED BY <1>5, <1>6 DEF Iterable

\* What holds at 0 and from each number to the next holds up to n.
LEMMA UpTo ==
    ASSUME NEW n \in Nat, NEW T, 0 \in T, \A u \in 1 .. n : u - 1 \in T => u \in T
    PROVE  \A u \in 0 .. n : u \in T
<1> DEFINE R == {m \in Nat : m <= n => m \in T}
<1>1. 0 \in R
  OBVIOUS
<1>2. ASSUME NEW m \in R PROVE m + 1 \in R
  <2> SUFFICES ASSUME m + 1 <= n PROVE m + 1 \in T
    OBVIOUS
  <2>1. m \in T /\ m + 1 \in 1 .. n /\ (m + 1) - 1 = m
    OBVIOUS
  <2> QED BY <2>1
<1>3. R = Nat
  <2> HIDE DEF R
  <2>1. R \in SUBSET Nat
    BY DEF R
  <2> QED BY <1>1, <1>2, <2>1, SetInduction
<1>4. ASSUME NEW u \in 0 .. n PROVE u \in T
  <2>1. u \in Nat /\ u <= n
    OBVIOUS
  <2> QED BY <1>3, <2>1
<1> QED BY <1>4

\* A step that can always be repeated has a sequence of values without end.
Endless(S, s0, st, f) ==
    f \in [Nat -> S] /\ f[0] = s0 /\ \A u \in Nat : f[u + 1] = st[f[u]]

LEMMA EndlessExists ==
    ASSUME NEW S, NEW s0 \in S, NEW st \in [S -> S]
    PROVE  \E f : Endless(S, s0, st, f)
<1> DEFINE Good(f, n) == f \in [0 .. n -> S] /\ f[0] = s0 /\ \A u \in 1 .. n : f[u] = st[f[u - 1]]
           some(n) == CHOOSE f : Good(f, n)
           F == [n \in Nat |-> some(n)[n]]
<1>1. ASSUME NEW n \in Nat PROVE \E f : Good(f, n)
  <2> DEFINE sp == [e \in (1 .. n) \X S |-> st[e[2]]]
  <2>1. sp \in [(1 .. n) \X S -> S]
    OBVIOUS
  <2>2. \A u \in 1 .. n, s \in S : sp[<<u, s>>] = st[s]
    OBVIOUS
  <2> HIDE DEF sp
  <2>3. Iterable(n, S, s0, sp)
    BY <2>1, IterationExists
  <2>4. PICK f \in [0 .. n -> S] : f[0] = s0 /\ \A u \in 1 .. n : f[u] = sp[<<u, f[u - 1]>>]
    BY <2>3 DEF Iterable
  <2>5. ASSUME NEW u \in 1 .. n PROVE f[u] = st[f[u - 1]]
    <3>1. u - 1 \in 0 .. n
      OBVIOUS
    <3>2. f[u - 1] \in S
      BY <2>4, <3>1
    <3> QED BY <2>2, <2>4, <3>2
  <2> QED BY <2>4, <2>5
<1>2. ASSUME NEW n \in Nat PROVE Good(some(n), n)
  <2> HIDE DEF Good
  <2> QED BY <1>1
<1>3. ASSUME NEW n \in Nat, NEW m \in Nat, n <= m, NEW f, NEW g, Good(f, n), Good(g, m)
      PROVE  f[n] = g[n]
  <2> DEFINE T == {k \in 0 .. n : f[k] = g[k]}
  <2>1. 0 \in T
    BY <1>3
  <2>2. ASSUME NEW u \in 1 .. n, u - 1 \in T PROVE u \in T
    <3>1. u \in 1 .. m /\ u \in 0 .. n /\ f[u - 1] = g[u - 1]
      BY <1>3, <2>2
    <3> QED BY <1>3, <3>1
  <2>3. n \in 0 .. n
    OBVIOUS
  <2> HIDE DEF T, Good
  <2>4. n \in T
    BY <2>1, <2>2, <2>3, UpTo
  <2> QED BY <2>4 DEF T
<1>4. \A n \in Nat : F[n] = some(n)[n]
  OBVIOUS
<1> HIDE DEF some
<1>5. F \in [Nat -> S]
  <2>1. \A n \in Nat : some(n)[n] \in S
    BY <1>2
  <2> QED BY <2>1
<1> HIDE DEF F
<1>6. F[0] = s0
  BY <1>2, <1>4
<1>7. ASSUME NEW u \in Nat PROVE F[u + 1] = st[F[u]]
  <2>1. some(u)[u] = some(u + 1)[u]
    <3> HIDE DEF Good
    <3>1. u <= u + 1 /\ u + 1 \in Nat
      OBVIOUS
    <3> QED BY <1>2, <1>3, <3>1
  <2>2. some(u + 1)[u + 1] = st[some(u + 1)[u]]
    <3>1. u + 1 \in 1 .. u + 1 /\ (u + 1) - 1 = u
      OBVIOUS
    <3> QED BY <1>2, <3>1
  <2> QED BY <1>4, <2>1, <2>2
<1> QED BY <1>5, <1>6, <1>7 DEF Endless

(***************************************************************************)
(* The digit table.                                                        *)
(***************************************************************************)

\* A byte decodes to a digit's value or to -1 (codec.go: decodeDigit).
LEMMA decodeDigitType == \A c \in Byte : decodeDigit[c] \in -1 .. Radix - 1
<1> TAKE c \in Byte
<1>1. CASE c \in DigitBytes
  <2>1. PICK k \in 1 .. Radix : Alphabet[k] = c
    BY <1>1 DEF DigitBytes
  <2>2. k - 1 \in 0 .. Radix - 1 /\ encodeDigit[k - 1] = c
    BY <2>1, CodecAssumption DEF encodeDigit, Radix
  <2>3. (CHOOSE d \in 0 .. Radix - 1 : encodeDigit[d] = c) \in 0 .. Radix - 1
    BY <2>2
  <2> QED BY <1>1, <2>3, CodecAssumption DEF decodeDigit, Radix
<1>2. CASE c \notin DigitBytes
  BY <1>2, CodecAssumption DEF decodeDigit, Radix
<1> QED BY <1>1, <1>2

(***************************************************************************)
(* decodeInt.                                                              *)
(***************************************************************************)

\* A number ends at a position from where it starts to the end of the bytes, and
\* before it are only digits, and at it there is none (codec.go: decodeInt).
LEMMA digitsEndWithin ==
    ASSUME NEW b \in Seq(Byte), NEW i \in Nat, i < Len(b)
    PROVE  /\ digitsEnd(b, i) \in i .. Len(b)
           /\ \A k \in i .. digitsEnd(b, i) - 1 : decodeDigit[b[k + 1]] >= 0
           /\ digitsEnd(b, i) < Len(b) => decodeDigit[b[digitsEnd(b, i) + 1]] < 0
<1> DEFINE Stop(j) == /\ \A k \in i .. j - 1 : decodeDigit[b[k + 1]] >= 0
                      /\ j < Len(b) => decodeDigit[b[j + 1]] < 0
           NonDigits == {k \in Nat : k \in i .. Len(b) - 1 /\ decodeDigit[b[k + 1]] < 0}
<1>1. \A k \in i .. Len(b) - 1 : decodeDigit[b[k + 1]] \in Int
  BY decodeDigitType, CodecAssumption DEF Radix
<1>2. \E j \in i .. Len(b) : Stop(j)
  <2>1. CASE NonDigits = {}
    <3>1. \A k \in i .. Len(b) - 1 : decodeDigit[b[k + 1]] >= 0
      BY <1>1, <2>1
    <3>2. Stop(Len(b)) /\ Len(b) \in i .. Len(b)
      BY <3>1
    <3> QED BY <3>2
  <2>2. CASE NonDigits # {}
    <3>1. PICK m \in NonDigits : \A k \in NonDigits : m <= k
      BY <2>2, LeastNat
    <3>2. \A k \in i .. m - 1 : decodeDigit[b[k + 1]] >= 0
      BY <1>1, <3>1
    <3>3. Stop(m) /\ m \in i .. Len(b)
      BY <3>1, <3>2
    <3> QED BY <3>3
  <2> QED BY <2>1, <2>2
<1>3. digitsEnd(b, i) = CHOOSE j \in i .. Len(b) : Stop(j)
  BY SMTT(30) DEF digitsEnd
<1>4. digitsEnd(b, i) \in i .. Len(b) /\ Stop(digitsEnd(b, i))
  <2> HIDE DEF Stop
  <2> QED BY <1>2, <1>3
<1> QED BY <1>4

\* decodeInt never moves backwards, and not at all from the end of the bytes on.
LEMMA digitsEndType ==
    ASSUME NEW b \in Seq(Byte), NEW i \in Nat
    PROVE  /\ digitsEnd(b, i) \in Nat
           /\ digitsEnd(b, i) >= i
           /\ \A k \in i .. digitsEnd(b, i) - 1 :
                 k + 1 \in 1 .. Len(b) /\ decodeDigit[b[k + 1]] \in Nat
<1>1. CASE i < Len(b)
  <2>1. \A k \in i .. digitsEnd(b, i) - 1 : k + 1 \in 1 .. Len(b)
    BY <1>1, digitsEndWithin
  <2>2. \A k \in i .. digitsEnd(b, i) - 1 : decodeDigit[b[k + 1]] \in Nat
    <3> TAKE k \in i .. digitsEnd(b, i) - 1
    <3>1. b[k + 1] \in Byte
      BY <2>1
    <3>2. decodeDigit[b[k + 1]] \in -1 .. Radix - 1 /\ Radix \in Nat
      BY <3>1, decodeDigitType, CodecAssumption
    <3>3. decodeDigit[b[k + 1]] >= 0
      BY <1>1, digitsEndWithin
    <3> QED BY <3>2, <3>3
  <2> QED BY <1>1, <2>1, <2>2, digitsEndWithin
<1>2. CASE i >= Len(b)
  BY <1>2 DEF digitsEnd
<1> QED BY <1>1, <1>2

\* The wrapped step of decodeInt's loop stays within a word.
LEMMA WrappedInWords ==
    ASSUME NEW v \in Nat, NEW d \in Nat
    PROVE  (v * Radix + d) % Word \in Words
<1>1. v * Radix \in Nat
  BY CodecAssumption DEF Radix
<1>2. v * Radix + d \in Nat
  BY <1>1
<1> DEFINE x == v * Radix + d
<1>3. x \in Nat /\ Word \in Nat /\ Word > 0
  BY <1>2, CodecAssumption DEF Radix
<1> HIDE DEF x
<1>4. x % Word \in 0 .. Word - 1
  BY <1>3
<1> QED BY <1>4 DEF x, Words

\* What decodeInt has read when it has come to each position.
valuesFrom(b, i) ==
    CHOOSE g : g = [k \in i .. digitsEnd(b, i) |->
                      IF k = i THEN 0 ELSE (g[k - 1] * Radix + decodeDigit[b[k]]) % Word]

LEMMA valuesFromIs ==
    ASSUME NEW b \in Seq(Byte), NEW i \in Nat
    PROVE  valuesFrom(b, i) =
             [k \in i .. digitsEnd(b, i) |->
                IF k = i THEN 0
                ELSE (valuesFrom(b, i)[k - 1] * Radix + decodeDigit[b[k]]) % Word]
<1> DEFINE end == digitsEnd(b, i)
           Step(g, k) == IF k = i THEN 0
                         ELSE (g[k - 1] * Radix + decodeDigit[b[k]]) % Word
           v == valuesFrom(b, i)
<1>1. v = CHOOSE g : g = [k \in i .. end |-> Step(g, k)]
  BY DEF valuesFrom
<1>2. end \in Nat /\ end >= i
  BY digitsEndType
<1> HIDE DEF end
<1>4. \A m \in Nat : \E g : g = [k \in i .. i + m |-> Step(g, k)]
  <2> DEFINE T == {m \in Nat : \E g : g = [k \in i .. i + m |-> Step(g, k)]}
  <2>1. 0 \in T
    <3> DEFINE g0 == [k \in i .. i + 0 |-> 0]
    <3>1. g0 = [k \in i .. i + 0 |-> Step(g0, k)]
      OBVIOUS
    <3> QED BY <3>1
  <2>2. ASSUME NEW m \in T PROVE m + 1 \in T
    <3>1. PICK g : g = [k \in i .. i + m |-> Step(g, k)]
      OBVIOUS
    <3> DEFINE h == [k \in i .. i + (m + 1) |-> IF k = i + (m + 1) THEN Step(g, k) ELSE g[k]]
    <3>2. ASSUME NEW k \in i .. i + (m + 1) PROVE h[k] = Step(h, k)
      <4>1. k # i => k - 1 \in i .. i + m /\ h[k - 1] = g[k - 1]
        OBVIOUS
      <4>2. k # i + (m + 1) => k \in i .. i + m
        OBVIOUS
      <4>3. k # i + (m + 1) => g[k] = Step(g, k)
        BY <3>1, <4>2
      <4>4. h[k] = Step(g, k)
        BY <4>3
      <4>5. Step(g, k) = Step(h, k)
        BY <4>1
      <4> QED BY <4>4, <4>5
    <3>3. h = [k \in i .. i + (m + 1) |-> Step(h, k)]
      <4> HIDE DEF Step
      <4> QED BY <3>2
    <3> HIDE DEF h, Step
    <3>4. \E f : f = [k \in i .. i + (m + 1) |-> Step(f, k)]
      BY <3>3
    <3>5. m + 1 \in Nat
      OBVIOUS
    <3> QED BY <3>4, <3>5
  <2>3. T = Nat
    BY <2>1, <2>2, SetInduction
  <2> QED BY <2>3
<1>5. v = [k \in i .. end |-> Step(v, k)]
  <2>1. end - i \in Nat /\ i + (end - i) = end
    BY <1>2
  <2>2. \E g : g = [k \in i .. end |-> Step(g, k)]
    BY <1>4, <2>1
  <2> HIDE DEF Step, v
  <2> QED BY <1>1, <2>2
<1> QED BY <1>5 DEF end

\* What has been read on the way to the end of a number fits a word.
LEMMA valuesFromType ==
    ASSUME NEW b \in Seq(Byte), NEW i \in Nat
    PROVE  \A k \in i .. digitsEnd(b, i) : valuesFrom(b, i)[k] \in Words
<1> DEFINE end == digitsEnd(b, i)
           v == valuesFrom(b, i)
<1>2. end \in Nat /\ end >= i
  BY digitsEndType
<1>3. \A k \in i + 1 .. end : decodeDigit[b[k]] \in Nat
  <2> TAKE k \in i + 1 .. end
  <2>1. k - 1 \in i .. end - 1 /\ (k - 1) + 1 = k
    BY <1>2
  <2> QED BY <2>1, digitsEndType
<1>5. v = [k \in i .. end |-> IF k = i THEN 0
                              ELSE (v[k - 1] * Radix + decodeDigit[b[k]]) % Word]
  BY valuesFromIs
<1> HIDE DEF end, v
<1>6. \A m \in Nat : i + m <= end => v[i + m] \in Words
  <2> DEFINE T == {m \in Nat : i + m <= end => v[i + m] \in Words}
  <2>1. 0 \in T
    BY <1>2, <1>5, CodecAssumption DEF Words, Radix
  <2>2. ASSUME NEW m \in T PROVE m + 1 \in T
    <3> SUFFICES ASSUME i + (m + 1) <= end PROVE v[i + (m + 1)] \in Words
      OBVIOUS
    <3>1. v[i + m] \in Words
      BY <1>2
    <3>2. v[i + m] \in Nat
      BY <3>1, CodecAssumption DEF Words
    <3>3. v[i + (m + 1)] = (v[i + m] * Radix + decodeDigit[b[i + (m + 1)]]) % Word
      <4>1. i + (m + 1) \in i .. end /\ i + (m + 1) # i /\ (i + (m + 1)) - 1 = i + m
        BY <1>2
      <4> QED BY <1>5, <4>1
    <3>4. decodeDigit[b[i + (m + 1)]] \in Nat
      BY <1>2, <1>3
    <3> QED BY <3>2, <3>3, <3>4, WrappedInWords
  <2>3. T = Nat
    BY <2>1, <2>2, SetInduction
  <2> QED BY <2>3
<1>7. ASSUME NEW k \in i .. end PROVE v[k] \in Words
  <2>1. k - i \in Nat /\ i + (k - i) = k /\ k <= end
    BY <1>2
  <2> QED BY <1>6, <2>1
<1> QED BY <1>7 DEF end, v

\* decodeInt returns a number that fits a word, and a position from i on that is not past
\* the end, or is i itself, whatever the bytes are (codec.go: decodeInt).
THEOREM decodeIntType ==
    ASSUME NEW b \in Seq(Byte), NEW i \in Nat
    PROVE  /\ decodeInt(b, i).val \in Words
           /\ decodeInt(b, i).next \in Nat
           /\ decodeInt(b, i).next >= i
           /\ decodeInt(b, i).next <= Len(b) \/ decodeInt(b, i).next = i
<1> DEFINE end == digitsEnd(b, i)
           v == valuesFrom(b, i)
<1>1. /\ decodeInt(b, i).val = v[end]
      /\ decodeInt(b, i).next = end
  BY DEF decodeInt, valuesFrom
<1>2. end \in Nat /\ end >= i
  BY digitsEndType
<1>3. end \in i .. end
  BY <1>2
<1>4. v[end] \in Words
  BY <1>3, valuesFromType
<1>5. end <= Len(b) \/ end = i
  <2>1. CASE i < Len(b)
    BY <2>1, digitsEndWithin
  <2>2. CASE ~ (i < Len(b))
    BY <2>2 DEF digitsEnd
  <2> QED BY <2>1, <2>2
<1> HIDE DEF end, v
<1> QED BY <1>1, <1>2, <1>4, <1>5

(***************************************************************************)
(* appendInt and digitCount.                                               *)
(***************************************************************************)

LEMMA RadixIs == Radix \in Nat /\ Radix >= 2
  BY CodecAssumption

\* Splitting the last digit off leaves a smaller number.
LEMMA DigitSplit ==
    ASSUME NEW u \in Nat
    PROVE  /\ u \div Radix \in 0 .. u
           /\ u % Radix \in 0 .. Radix - 1
           /\ u # 0 => u \div Radix < u
<1> DEFINE r == Radix
<1>1. r \in Nat /\ r >= 2
  BY RadixIs
<1> HIDE DEF r
<1>2. u \div r \in Nat /\ u % r \in 0 .. r - 1
  BY <1>1
<1>3. CASE u = 0
  <2>1. u \div r = 0
    BY <1>1, <1>3
  <2> QED BY <1>2, <1>3, <2>1 DEF r
<1>4. CASE u # 0
  <2>1. u \div r < u
    BY <1>1, <1>4
  <2> QED BY <1>2, <2>1 DEF r
<1> QED BY <1>3, <1>4

LEMMA encodeDigitType == \A d \in 0 .. Radix - 1 : encodeDigit[d] \in Byte
  BY RadixIs, CodecAssumption DEF encodeDigit, Radix

\* The digits appendInt writes for each number up to v, and their counts.
digitsUpTo(v) ==
    CHOOSE g : g = [u \in 0 .. v |-> IF u < Radix THEN <<encodeDigit[u]>>
                                     ELSE Append(g[u \div Radix], encodeDigit[u % Radix])]

countsUpTo(v) ==
    CHOOSE g : g = [u \in 0 .. v |-> IF u < Radix THEN 1 ELSE 1 + g[u \div Radix]]

LEMMA digitsUpToIs ==
    ASSUME NEW v \in Nat
    PROVE  digitsUpTo(v) =
             [u \in 0 .. v |-> IF u < Radix THEN <<encodeDigit[u]>>
                               ELSE Append(digitsUpTo(v)[u \div Radix], encodeDigit[u % Radix])]
<1> DEFINE Step(g, u) == IF u < Radix THEN <<encodeDigit[u]>>
                         ELSE Append(g[u \div Radix], encodeDigit[u % Radix])
           S == Seq(Byte)
           p == [u \in 1 .. v |-> u \div Radix]
           st == [x \in (1 .. v) \X S |->
                    IF x[1] < Radix THEN <<encodeDigit[x[1]]>>
                    ELSE Append(x[2], encodeDigit[x[1] % Radix])]
           s0 == <<encodeDigit[0]>>
<1>0. ASSUME NEW u \in 0 .. v
      PROVE  /\ u \div Radix \in 0 .. v
             /\ u % Radix \in 0 .. Radix - 1
             /\ u # 0 => u \div Radix < u
  <2>1. u \in Nat
    OBVIOUS
  <2> QED BY <2>1, DigitSplit
<1>1. p \in [1 .. v -> Nat] /\ (\A u \in 1 .. v : p[u] < u)
  BY <1>0
<1>a. \A u \in 1 .. v : p[u] = u \div Radix
  OBVIOUS
<1>2. s0 \in S
  BY RadixIs, encodeDigitType
<1>3. st \in [(1 .. v) \X S -> S]
  <2>1. ASSUME NEW u \in 1 .. v, NEW s \in S
        PROVE  (IF u < Radix THEN <<encodeDigit[u]>> ELSE Append(s, encodeDigit[u % Radix])) \in S
    <3>1. CASE u < Radix
      BY <3>1, encodeDigitType, RadixIs
    <3>2. CASE ~ (u < Radix)
      <4>0. u \in 0 .. v
        OBVIOUS
      <4>1. u % Radix \in 0 .. Radix - 1
        BY <1>0, <4>0
      <4>2. encodeDigit[u % Radix] \in Byte
        BY <4>1, encodeDigitType
      <4> QED BY <3>2, <4>2
    <3> QED BY <3>1, <3>2
  <2> HIDE DEF S
  <2> QED BY <2>1
<1>4. \A u \in 1 .. v, s \in S :
          st[<<u, s>>] = IF u < Radix THEN <<encodeDigit[u]>> ELSE Append(s, encodeDigit[u % Radix])
  OBVIOUS
<1> HIDE DEF p, st, s0, S
<1>b. Solvable(v, S, s0, p, st)
  BY <1>1, <1>2, <1>3, RecursionExists
<1>5. PICK f \in [0 .. v -> S] :
          \A u \in 0 .. v : f[u] = IF u = 0 THEN s0 ELSE st[<<u, f[p[u]]>>]
  BY <1>b DEF Solvable
<1>6. ASSUME NEW u \in 0 .. v PROVE f[u] = Step(f, u)
  <2>1. CASE u = 0
    <3>1. f[u] = <<encodeDigit[u]>>
      BY <1>5, <2>1 DEF s0
    <3> QED BY <2>1, <3>1, RadixIs
  <2>2. CASE u # 0
    <3>0. u \in 1 .. v
      BY <2>2
    <3>a. p[u] = u \div Radix
      BY <1>a, <3>0
    <3>b. u \div Radix \in 0 .. v
      BY <1>0
    <3>1. u \in 1 .. v /\ p[u] = u \div Radix /\ p[u] \in 0 .. v
      BY <3>0, <3>a, <3>b
    <3>2. f[u] = st[<<u, f[p[u]]>>]
      BY <1>5, <2>2
    <3> QED BY <1>4, <1>5, <3>1, <3>2
  <2> QED BY <2>1, <2>2
<1>7. f = [u \in 0 .. v |-> Step(f, u)]
  <2> HIDE DEF Step
  <2> QED BY <1>5, <1>6
<1>8. digitsUpTo(v) = CHOOSE g : g = [u \in 0 .. v |-> Step(g, u)]
  BY DEF digitsUpTo
<1>9. digitsUpTo(v) = [u \in 0 .. v |-> Step(digitsUpTo(v), u)]
  <2> HIDE DEF Step
  <2> QED BY <1>7, <1>8
<1> QED BY <1>9

LEMMA countsUpToIs ==
    ASSUME NEW v \in Nat
    PROVE  countsUpTo(v) =
             [u \in 0 .. v |-> IF u < Radix THEN 1 ELSE 1 + countsUpTo(v)[u \div Radix]]
<1> DEFINE Step(g, u) == IF u < Radix THEN 1 ELSE 1 + g[u \div Radix]
           p == [u \in 1 .. v |-> u \div Radix]
           st == [x \in (1 .. v) \X Nat |-> IF x[1] < Radix THEN 1 ELSE 1 + x[2]]
<1>0. ASSUME NEW u \in 0 .. v
      PROVE  /\ u \div Radix \in 0 .. v
             /\ u % Radix \in 0 .. Radix - 1
             /\ u # 0 => u \div Radix < u
  <2>1. u \in Nat
    OBVIOUS
  <2> QED BY <2>1, DigitSplit
<1>1. p \in [1 .. v -> Nat] /\ (\A u \in 1 .. v : p[u] < u)
  BY <1>0
<1>a. \A u \in 1 .. v : p[u] = u \div Radix
  OBVIOUS
<1>2. st \in [(1 .. v) \X Nat -> Nat]
  OBVIOUS
<1>3. \A u \in 1 .. v, s \in Nat : st[<<u, s>>] = IF u < Radix THEN 1 ELSE 1 + s
  OBVIOUS
<1> HIDE DEF p, st
<1>b. Solvable(v, Nat, 1, p, st)
  <2>1. 1 \in Nat
    OBVIOUS
  <2> QED BY <1>1, <1>2, <2>1, RecursionExists
<1>4. PICK f \in [0 .. v -> Nat] :
          \A u \in 0 .. v : f[u] = IF u = 0 THEN 1 ELSE st[<<u, f[p[u]]>>]
  BY <1>b DEF Solvable
<1>5. ASSUME NEW u \in 0 .. v PROVE f[u] = Step(f, u)
  <2>1. CASE u = 0
    <3>1. f[u] = 1
      BY <1>4, <2>1
    <3> QED BY <2>1, <3>1, RadixIs
  <2>2. CASE u # 0
    <3>0. u \in 1 .. v
      BY <2>2
    <3>a. p[u] = u \div Radix
      BY <1>a, <3>0
    <3>b. u \div Radix \in 0 .. v
      BY <1>0
    <3>1. u \in 1 .. v /\ p[u] = u \div Radix /\ p[u] \in 0 .. v
      BY <3>0, <3>a, <3>b
    <3>2. f[u] = st[<<u, f[p[u]]>>]
      BY <1>4, <2>2
    <3> QED BY <1>3, <1>4, <3>1, <3>2
  <2> QED BY <2>1, <2>2
<1>6. f = [u \in 0 .. v |-> Step(f, u)]
  <2> HIDE DEF Step
  <2> QED BY <1>4, <1>5
<1>7. countsUpTo(v) = CHOOSE g : g = [u \in 0 .. v |-> Step(g, u)]
  BY DEF countsUpTo
<1>8. countsUpTo(v) = [u \in 0 .. v |-> Step(countsUpTo(v), u)]
  <2> HIDE DEF Step
  <2> QED BY <1>6, <1>7
<1> QED BY <1>8

\* What the two recursions hold: as many digits as are counted, at least one.
LEMMA DigitsAndCounts ==
    ASSUME NEW v \in Nat, NEW u \in 0 .. v
    PROVE  /\ digitsUpTo(v)[u] \in Seq(Byte)
           /\ countsUpTo(v)[u] \in Nat \ {0}
           /\ Len(digitsUpTo(v)[u]) = countsUpTo(v)[u]
<1> DEFINE d == digitsUpTo(v)
           c == countsUpTo(v)
           Right(k) == d[k] \in Seq(Byte) /\ c[k] \in Nat \ {0} /\ Len(d[k]) = c[k]
           T == {k \in Nat : k <= v => Right(k)}
<1>1. ASSUME NEW m \in Nat, \A k \in 0 .. m - 1 : k \in T PROVE m \in T
  <2> SUFFICES ASSUME m <= v PROVE Right(m)
    OBVIOUS
  <2>1. m \in 0 .. v
    OBVIOUS
  <2>2. CASE m < Radix
    <3>1. d[m] = <<encodeDigit[m]>>
      BY <2>1, <2>2, digitsUpToIs
    <3>2. c[m] = 1
      BY <2>1, <2>2, countsUpToIs
    <3>3. encodeDigit[m] \in Byte
      BY <2>2, RadixIs, encodeDigitType
    <3> HIDE DEF d, c
    <3> QED BY <3>1, <3>2, <3>3
  <2>3. CASE ~ (m < Radix)
    <3> DEFINE q == m \div Radix
    <3>1. d[m] = Append(d[q], encodeDigit[m % Radix])
      BY <2>1, <2>3, digitsUpToIs
    <3>2. c[m] = 1 + c[q]
      BY <2>1, <2>3, countsUpToIs
    <3>3. q \in 0 .. m - 1
      BY <2>3, RadixIs, DigitSplit
    <3>4. encodeDigit[m % Radix] \in Byte
      BY DigitSplit, encodeDigitType
    <3> HIDE DEF q, d, c
    <3>5. Right(q)
      <4>1. q \in T /\ q <= v
        BY <1>1, <2>1, <3>3
      <4> QED BY <4>1
    <3> QED BY <3>1, <3>2, <3>4, <3>5
  <2> QED BY <2>2, <2>3
<1> HIDE DEF Right
<1>2. u \in Nat /\ u <= v
  OBVIOUS
<1>3. \A m \in Nat : m \in T
  <2> HIDE DEF T
  <2> QED BY <1>1, StrongInduction
<1>4. Right(u)
  BY <1>2, <1>3
<1> QED BY <1>4 DEF Right

(***************************************************************************)
(* The powers of two, the number of bits, and the digits they come to.     *)
(* bits.Len says between which two powers of two a number is; a digit is   *)
(* digitBits bits, so dropping one takes that many off.                    *)
(***************************************************************************)

LEMMA twoToIs ==
    /\ twoTo[0] = 1
    /\ \A k \in Nat : twoTo[k] \in Nat /\ twoTo[k + 1] = 2 * twoTo[k]
<1> DEFINE st == [m \in Nat |-> 2 * m]
           Step(x, k) == IF k = 0 THEN 1 ELSE 2 * x[k - 1]
<1>1. st \in [Nat -> Nat] /\ \A m \in Nat : st[m] = 2 * m
  OBVIOUS
<1> HIDE DEF st
<1>2. 1 \in Nat
  OBVIOUS
<1>3. PICK f : Endless(Nat, 1, st, f)
  BY <1>1, <1>2, EndlessExists
<1>4. f \in [Nat -> Nat] /\ f[0] = 1
  BY <1>3 DEF Endless
<1>5. ASSUME NEW k \in Nat PROVE f[k + 1] = 2 * f[k]
  <2>1. f[k + 1] = st[f[k]] /\ f[k] \in Nat
    BY <1>3, <1>4 DEF Endless
  <2> QED BY <1>1, <2>1
<1>6. ASSUME NEW k \in Nat PROVE f[k] = Step(f, k)
  <2>1. CASE k = 0
    BY <1>4, <2>1
  <2>2. CASE k # 0
    <3>1. k - 1 \in Nat /\ (k - 1) + 1 = k
      BY <2>2
    <3>2. f[(k - 1) + 1] = 2 * f[k - 1]
      BY <1>5, <3>1
    <3> QED BY <2>2, <3>1, <3>2
  <2> QED BY <2>1, <2>2
<1>7. f = [k \in Nat |-> Step(f, k)]
  <2> HIDE DEF Step
  <2> QED BY <1>4, <1>6
<1>8. twoTo = [k \in Nat |-> Step(twoTo, k)]
  <2>1. \E x : x = [k \in Nat |-> Step(x, k)]
    <3> HIDE DEF Step
    <3> QED BY <1>7
  <2> QED BY <2>1, Zenon DEF twoTo
<1> DEFINE T == {k \in Nat : twoTo[k] = f[k]}
<1>9. 0 \in T
  BY <1>4, <1>8
<1>10. ASSUME NEW k \in T PROVE k + 1 \in T
  <2>1. k \in Nat /\ k + 1 \in Nat /\ k + 1 # 0 /\ (k + 1) - 1 = k /\ twoTo[k] = f[k]
    BY <1>10
  <2>2. twoTo[k + 1] = 2 * twoTo[k]
    BY <1>8, <2>1
  <2>3. f[k + 1] = 2 * f[k]
    BY <1>5, <2>1
  <2> QED BY <2>1, <2>2, <2>3
<1>11. T = Nat
  <2> HIDE DEF T
  <2>1. T \in SUBSET Nat
    BY DEF T
  <2> QED BY <1>9, <1>10, <2>1, SetInduction
<1>12. \A k \in Nat : twoTo[k] = f[k]
  BY <1>11
<1> HIDE DEF T
<1>13. ASSUME NEW k \in Nat PROVE twoTo[k] \in Nat /\ twoTo[k + 1] = 2 * twoTo[k]
  <2>1. twoTo[k] = f[k] /\ twoTo[k + 1] = f[k + 1] /\ f[k] \in Nat
    BY <1>4, <1>12
  <2> QED BY <1>5, <2>1
<1>14. twoTo[0] = 1
  BY <1>4, <1>12
<1> QED BY <1>13, <1>14

LEMMA twoToGrows ==
    ASSUME NEW k \in Nat
    PROVE  twoTo[k] > k /\ \A j \in 0 .. k : twoTo[j] <= twoTo[k]
<1> DEFINE Rising(m) == twoTo[m] > m /\ \A j \in 0 .. m : twoTo[j] <= twoTo[m]
           T == {m \in Nat : Rising(m)}
<1>1. 0 \in T
  BY twoToIs
<1>2. ASSUME NEW m \in T PROVE m + 1 \in T
  <2>1. m \in Nat /\ twoTo[m] \in Nat /\ twoTo[m] > m /\ \A j \in 0 .. m : twoTo[j] <= twoTo[m]
    BY <1>2, twoToIs
  <2> DEFINE a == twoTo[m]
             b == twoTo[m + 1]
  <2>2. b = 2 * a /\ a \in Nat /\ a > m
    BY <2>1, twoToIs
  <2> HIDE DEF a, b
  <2>3. b \in Nat /\ a <= b /\ b > m + 1
    BY <2>1, <2>2
  <2>4. ASSUME NEW j \in 0 .. m + 1 PROVE twoTo[j] <= twoTo[m + 1]
    <3>1. CASE j = m + 1
      BY <2>3, <3>1 DEF b
    <3>2. CASE j # m + 1
      <4>1. j \in 0 .. m /\ j \in Nat
        BY <2>1, <3>2
      <4> DEFINE c == twoTo[j]
      <4>2. c <= a /\ c \in Nat
        BY <2>1, <4>1, twoToIs DEF a
      <4> HIDE DEF c
      <4>3. c <= b
        BY <2>2, <2>3, <4>2
      <4> QED BY <4>3 DEF b, c
    <3> QED BY <3>1, <3>2
  <2>5. Rising(m + 1) /\ m + 1 \in Nat
    BY <2>1, <2>3, <2>4 DEF b
  <2> QED BY <2>5
<1>3. T = Nat
  <2> HIDE DEF T
  <2>1. T \in SUBSET Nat
    BY DEF T
  <2> QED BY <1>1, <1>2, <2>1, SetInduction
<1>4. k \in T
  BY <1>3
<1> QED BY <1>4

LEMMA twoToAdds ==
    ASSUME NEW b \in Nat, NEW a \in Nat
    PROVE  twoTo[a + b] = twoTo[a] * twoTo[b]
<1> DEFINE y == twoTo[b]
           T == {m \in Nat : twoTo[m + b] = twoTo[m] * y}
<1>0. y \in Nat
  BY twoToIs
<1>1. 0 \in T
  <2>1. 0 + b = b /\ twoTo[0] = 1
    BY twoToIs
  <2>2. 1 * y = y
    <3> HIDE DEF y
    <3> QED BY <1>0
  <2> QED BY <2>1, <2>2
<1>2. ASSUME NEW m \in T PROVE m + 1 \in T
  <2>1. m \in Nat /\ twoTo[m + b] = twoTo[m] * y /\ (m + 1) + b = (m + b) + 1 /\ m + b \in Nat
    BY <1>2
  <2> DEFINE x == twoTo[m]
  <2>2. twoTo[m + 1] = 2 * x /\ x \in Nat
    BY <2>1, twoToIs
  <2>3. twoTo[(m + b) + 1] = 2 * twoTo[m + b]
    BY <2>1, twoToIs
  <2>4. (2 * x) * y = 2 * (x * y)
    <3> HIDE DEF x, y
    <3> QED BY <1>0, <2>2
  <2>5. twoTo[(m + 1) + b] = twoTo[m + 1] * y
    <3> HIDE DEF y
    <3> QED BY <2>1, <2>2, <2>3, <2>4
  <2> QED BY <2>1, <2>5
<1>3. T = Nat
  <2> HIDE DEF T
  <2>1. T \in SUBSET Nat
    BY DEF T
  <2> QED BY <1>1, <1>2, <2>1, SetInduction
<1>4. a \in T
  BY <1>3
<1> QED BY <1>4

LEMMA digitBitsIs == digitBits \in Nat \ {0} /\ twoTo[digitBits] = Radix
<1>1. digitBits \in 1 .. Radix /\ twoTo[digitBits] = Radix
  BY RadixAssumption DEF digitBits
<1> QED BY <1>1, RadixIs

\* n is the least number of bits that hold v.
Holds(v, n) == v < twoTo[n] /\ (n > 0 => twoTo[n - 1] <= v)

LEMMA bitsLenIs == ASSUME NEW v \in Nat PROVE bitsLen(v) \in 0 .. v /\ Holds(v, bitsLen(v))
<1> DEFINE Enough == {n \in Nat : v < twoTo[n]}
<1>1. v \in Enough
  <2>1. twoTo[v] > v /\ twoTo[v] \in Nat
    BY twoToGrows, twoToIs
  <2> QED BY <2>1
<1>2. PICK m \in Enough : \A n \in Enough : m <= n
  <2>1. Enough \in SUBSET Nat /\ Enough # {}
    BY <1>1
  <2> HIDE DEF Enough
  <2> QED BY <2>1, LeastNat
<1>3. m \in 0 .. v
  BY <1>1, <1>2
<1>4. ASSUME m > 0 PROVE twoTo[m - 1] <= v
  <2>1. m - 1 \in Nat /\ ~ (m <= m - 1)
    BY <1>3, <1>4
  <2>2. m - 1 \notin Enough
    BY <1>2, <2>1
  <2>3. ~ (v < twoTo[m - 1]) /\ twoTo[m - 1] \in Nat
    BY <2>1, <2>2, twoToIs
  <2> QED BY <2>3
<1>5. \E n \in 0 .. v : v < twoTo[n] /\ (n > 0 => twoTo[n - 1] <= v)
  BY <1>2, <1>3, <1>4
<1> QED BY <1>5 DEF bitsLen, Holds

LEMMA HoldsOnce ==
    ASSUME NEW v \in Nat, NEW n \in Nat, NEW m \in Nat, Holds(v, n), Holds(v, m)
    PROVE  n = m
<1>1. ASSUME NEW i \in Nat, NEW j \in Nat, Holds(v, i), Holds(v, j) PROVE ~ (i < j)
  <2> SUFFICES ASSUME i < j PROVE FALSE
    OBVIOUS
  <2>1. j - 1 \in Nat /\ i \in 0 .. j - 1 /\ j > 0
    OBVIOUS
  <2>2. twoTo[i] <= twoTo[j - 1]
    BY <2>1, twoToGrows
  <2>3. v < twoTo[i] /\ twoTo[j - 1] <= v /\ twoTo[i] \in Nat /\ twoTo[j - 1] \in Nat
    BY <1>1, <2>1, twoToIs DEF Holds
  <2> QED BY <2>2, <2>3
<1>2. ~ (n < m) /\ ~ (m < n)
  BY <1>1
<1> QED BY <1>2

LEMMA DivMod ==
    ASSUME NEW x \in Nat, NEW w \in Nat, w > 0
    PROVE  x = (x \div w) * w + (x % w)
  OBVIOUS

\* Multiplying by Radix keeps the order and makes more of what is not zero.
LEMMA RadixTimes ==
    ASSUME NEW a \in Nat, NEW b \in Nat
    PROVE  /\ a * Radix \in Nat
           /\ a <= b => a * Radix <= b * Radix
           /\ a < b => a * Radix + Radix <= b * Radix
           /\ a > 0 => a < a * Radix
<1> DEFINE R == Radix
<1>1. R \in Nat /\ R >= 2
  BY RadixIs
<1> HIDE DEF R
<1>2. a * R \in Nat /\ b * R \in Nat
  BY <1>1
<1>3. ASSUME NEW x \in Nat, NEW y \in Nat, x <= y PROVE x * R <= y * R
  <2>1. y - x \in Nat /\ (y - x) * R \in Nat
    BY <1>1, <1>3
  <2>2. y * R = x * R + (y - x) * R
    BY <1>1
  <2>3. x * R \in Nat /\ y * R \in Nat
    BY <1>1
  <2> QED BY <2>1, <2>2, <2>3
<1>4. ASSUME a < b PROVE a * R + R <= b * R
  <2>1. (a + 1) * R <= b * R
    BY <1>3, <1>4
  <2>2. (a + 1) * R = a * R + R
    BY <1>1
  <2> QED BY <2>1, <2>2
<1>5. ASSUME a > 0 PROVE a < a * R
  <2>1. a * R = a + a * (R - 1)
    BY <1>1
  <2>2. R - 1 \in Nat /\ R - 1 >= 1
    BY <1>1
  <2> DEFINE y == a * (R - 1)
  <2>3. y \in Nat /\ y >= 1
    BY <1>5, <2>2
  <2> HIDE DEF y
  <2>4. a < a + y
    BY <2>3
  <2> QED BY <2>1, <2>4 DEF y
<1> QED BY <1>2, <1>3, <1>4, <1>5 DEF R

\* A number that is not zero has bits, no more than a digit when it is one, and a digit's
\* more than what is left of it without its last digit.
LEMMA DigitsAreBits ==
    ASSUME NEW u \in Nat, u > 0
    PROVE  /\ bitsLen(u) \in Nat \ {0}
           /\ u < Radix => bitsLen(u) <= digitBits
           /\ u >= Radix => bitsLen(u) = digitBits + bitsLen(u \div Radix)
<1> DEFINE n == bitsLen(u)
           B == digitBits
<1>1. n \in Nat /\ Holds(u, n)
  BY bitsLenIs
<1>2. B \in Nat \ {0} /\ twoTo[B] = Radix
  BY digitBitsIs
<1>3. n # 0
  BY <1>1, twoToIs DEF Holds
<1> HIDE DEF n, B
<1>4. ASSUME u < Radix PROVE n <= B
  <2> SUFFICES ASSUME ~ (n <= B) PROVE FALSE
    OBVIOUS
  <2>1. n - 1 \in Nat /\ B \in 0 .. n - 1 /\ n > 0
    BY <1>1, <1>2
  <2>2. twoTo[B] <= twoTo[n - 1]
    BY <2>1, twoToGrows
  <2>3. twoTo[n - 1] <= u /\ twoTo[n - 1] \in Nat
    BY <1>1, <2>1, twoToIs DEF Holds
  <2> QED BY <1>2, <1>4, <2>2, <2>3, RadixIs
<1>5. ASSUME u >= Radix PROVE n = B + bitsLen(u \div Radix)
  <2> DEFINE q == u \div Radix
             r == u % Radix
             m == bitsLen(q)
             R == Radix
  <2>1. q \in Nat /\ r \in 0 .. R - 1 /\ R \in Nat /\ R > 0
    BY DigitSplit, RadixIs
  <2>2. u = q * R + r
    BY <2>1, DivMod
  <2>3. q > 0
    <3>1. CASE q = 0
      <4>1. 0 * R = 0
        BY <2>1
      <4> HIDE DEF q, r, R
      <4>2. u = r
        BY <2>1, <2>2, <3>1, <4>1
      <4> QED BY <1>5, <2>1, <4>2 DEF R
    <3> HIDE DEF q
    <3> QED BY <2>1, <3>1
  <2>4. m \in Nat /\ q < twoTo[m] /\ (m > 0 => twoTo[m - 1] <= q)
    BY <2>1, bitsLenIs DEF Holds
  <2> HIDE DEF q, r, m, R
  <2>5. m > 0
    BY <2>1, <2>3, <2>4, twoToIs
  <2>6. m - 1 \in Nat /\ m + B \in Nat /\ m + B > 0 /\ (m + B) - 1 = (m - 1) + B
    BY <1>2, <2>4, <2>5
  <2> DEFINE x == twoTo[m - 1]
             y == twoTo[m]
             a == q * R
             b == x * R
             c == y * R
  <2>7. x \in Nat /\ y \in Nat /\ x <= q /\ q < y
    BY <2>4, <2>5, <2>6, twoToIs
  <2>8. twoTo[m + B] = c /\ twoTo[(m + B) - 1] = b
    <3>1. twoTo[m + B] = y * twoTo[B] /\ twoTo[(m - 1) + B] = x * twoTo[B]
      BY <1>2, <2>4, <2>6, twoToAdds
    <3> QED BY <1>2, <2>6, <3>1 DEF R
  <2> HIDE DEF x, y
  <2>9. b <= a /\ a + R <= c /\ a \in Nat /\ b \in Nat /\ c \in Nat
    BY <2>1, <2>7, RadixTimes DEF R
  <2> HIDE DEF a, b, c
  <2>10. b <= u /\ u < c
    BY <2>1, <2>2, <2>9 DEF a
  <2>11. Holds(u, m + B)
    BY <2>8, <2>10 DEF Holds
  <2>12. n = m + B
    BY <1>1, <2>6, <2>11, HoldsOnce
  <2> QED BY <1>2, <2>4, <2>12 DEF m, q
<1> QED BY <1>1, <1>3, <1>4, <1>5 DEF n, B

\* Rounding up: one whole for a part of it, and one more for each whole.
LEMMA DivUp ==
    ASSUME NEW w \in Nat, w > 0, NEW n \in Nat
    PROVE  /\ n >= 1 /\ n <= w => (n + w - 1) \div w = 1
           /\ n >= 1 => (w + n + w - 1) \div w = 1 + (n + w - 1) \div w
<1>1. ASSUME NEW x \in Nat PROVE (w + x) \div w = 1 + x \div w
  <2> DEFINE q == x \div w
             r == x % w
  <2>1. q \in Nat /\ r \in 0 .. w - 1 /\ x = q * w + r
    BY DivMod
  <2> HIDE DEF q, r
  <2>2. (q + 1) * w = q * w + w
    BY <2>1
  <2>3. w + x = (q + 1) * w + r
    BY <2>1, <2>2
  <2>4. (w + x) \div w = q + 1
    BY <2>1, <2>3
  <2> QED BY <2>1, <2>4 DEF q
<1>2. ASSUME n >= 1, n <= w PROVE (n + w - 1) \div w = 1
  <2>1. n - 1 \in 0 .. w - 1 /\ n - 1 \in Nat /\ n + w - 1 = w + (n - 1)
    BY <1>2
  <2>2. (n - 1) \div w = 0
    BY <2>1
  <2> QED BY <1>1, <2>1, <2>2
<1>3. ASSUME n >= 1 PROVE (w + n + w - 1) \div w = 1 + (n + w - 1) \div w
  <2>1. n + w - 1 \in Nat /\ w + n + w - 1 = w + (n + w - 1)
    BY <1>3
  <2> QED BY <1>1, <2>1
<1> QED BY <1>2, <1>3

\* A number's bits, rounded up to whole digits, are as many digits as appendInt divides
\* it into (codec.go: digitCount, appendInt).
LEMMA digitCountIs == ASSUME NEW v \in Nat PROVE digitCount(v) = countsUpTo(v)[v]
<1> DEFINE c == countsUpTo(v)
           T == {u \in Nat : u <= v => digitCount(u) = c[u]}
           B == digitBits
<1>0. B \in Nat /\ B > 0
  BY digitBitsIs
<1>1. ASSUME NEW u \in Nat, \A k \in 0 .. u - 1 : k \in T PROVE u \in T
  <2> SUFFICES ASSUME u <= v PROVE digitCount(u) = c[u]
    OBVIOUS
  <2>1. c[u] = IF u < Radix THEN 1 ELSE 1 + c[u \div Radix]
    <3>1. u \in 0 .. v
      OBVIOUS
    <3> QED BY <3>1, countsUpToIs
  <2>2. CASE u = 0
    <3>1. digitCount(u) = 1
      BY <2>2 DEF digitCount
    <3>2. u < Radix
      BY <2>2, RadixIs
    <3> HIDE DEF c
    <3> QED BY <2>1, <3>1, <3>2
  <2>3. CASE u > 0
    <3> DEFINE n == bitsLen(u)
    <3>1. n \in Nat /\ n >= 1
      BY <2>3, DigitsAreBits
    <3>2. digitCount(u) = (n + B - 1) \div B
      BY <2>3 DEF digitCount
    <3>3. CASE u < Radix
      <4>1. n <= B
        BY <2>3, <3>3, DigitsAreBits
      <4>2. (n + B - 1) \div B = 1
        <5> HIDE DEF n, B
        <5> QED BY <1>0, <3>1, <4>1, DivUp
      <4> HIDE DEF n, B, c
      <4> QED BY <2>1, <3>2, <3>3, <4>2
    <3>4. CASE ~ (u < Radix)
      <4> DEFINE q == u \div Radix
                 m == bitsLen(q)
      <4>1. q \in 0 .. u - 1 /\ q \in Nat /\ q <= v
        BY <2>3, DigitSplit
      <4>2. q > 0
        <5>1. Radix \in Nat /\ Radix > 0 /\ u >= Radix
          BY <3>4, RadixIs
        <5> QED BY <5>1
      <4>3. n = B + m
        BY <2>3, <3>4, DigitsAreBits, RadixIs
      <4>4. digitCount(q) = c[q]
        <5> HIDE DEF q
        <5> QED BY <1>1, <4>1
      <4>5. m \in Nat /\ m >= 1
        <5> HIDE DEF q
        <5> QED BY <4>1, <4>2, DigitsAreBits
      <4>6. digitCount(q) = (m + B - 1) \div B
        <5> HIDE DEF q
        <5> QED BY <4>1, <4>2 DEF digitCount
      <4> HIDE DEF n, m, B, q
      <4>7. (n + B - 1) \div B = 1 + (m + B - 1) \div B
        BY <1>0, <4>3, <4>5, DivUp
      <4> HIDE DEF c
      <4>8. digitCount(u) = 1 + c[q]
        BY <3>2, <4>4, <4>6, <4>7
      <4> QED BY <2>1, <3>4, <4>8 DEF q
    <3> QED BY <3>3, <3>4
  <2> QED BY <2>2, <2>3
<1>2. v \in T
  <2> HIDE DEF T
  <2> QED BY <1>1, StrongInduction
<1> QED BY <1>2

\* appendInt adds bytes to the bytes it is given.
THEOREM appendIntType ==
    ASSUME NEW d \in Seq(Byte), NEW v \in Nat, NEW c \in Byte
    PROVE  appendInt(d, v, c) \in Seq(Byte)
<1>1. appendInt(d, v, c) = d \o Append(digitsUpTo(v)[v], c)
  BY DEF appendInt, digitsUpTo
<1>2. digitsUpTo(v)[v] \in Seq(Byte)
  <2>1. v \in 0 .. v
    OBVIOUS
  <2> QED BY <2>1, DigitsAndCounts
<1> QED BY <1>1, <1>2

\* The price the encoder puts on a number is the number of digits it goes on to write,
\* whatever the number (codec.go: digitCount, appendInt).
THEOREM appendIntLength ==
    ASSUME NEW d \in Seq(Byte), NEW v \in Nat, NEW c \in Byte
    PROVE  Len(appendInt(d, v, c)) = Len(d) + digitCount(v) + 1
<1>1. appendInt(d, v, c) = d \o Append(digitsUpTo(v)[v], c)
  BY DEF appendInt, digitsUpTo
<1>2. digitsUpTo(v)[v] \in Seq(Byte) /\ Len(digitsUpTo(v)[v]) = digitCount(v)
  <2>1. v \in 0 .. v
    OBVIOUS
  <2> QED BY <2>1, DigitsAndCounts, digitCountIs
<1> DEFINE s == digitsUpTo(v)[v]
<1> HIDE DEF s
<1>3. Len(d \o Append(s, c)) = Len(d) + Len(s) + 1
  <2>1. s \in Seq(Byte)
    BY <1>2 DEF s
  <2> QED BY <2>1
<1> QED BY <1>1, <1>2, <1>3 DEF s

LEMMA digitCountType == ASSUME NEW v \in Nat PROVE digitCount(v) \in Nat \ {0}
<1>1. v \in 0 .. v
  OBVIOUS
<1> QED BY <1>1, DigitsAndCounts, digitCountIs

\* A smaller number has no more digits.
LEMMA digitCountMonotone ==
    ASSUME NEW v \in Nat, NEW w \in Nat, v <= w
    PROVE  digitCount(v) <= digitCount(w)
<1> DEFINE c == countsUpTo(v)
           e == countsUpTo(w)
           T == {k \in Nat : k <= v => \A m \in k .. w : c[k] <= e[m]}
<1>1. ASSUME NEW k \in Nat, \A j \in 0 .. k - 1 : j \in T PROVE k \in T
  <2> SUFFICES ASSUME k <= v, NEW m \in k .. w PROVE c[k] <= e[m]
    OBVIOUS
  <2>1. k \in 0 .. v /\ m \in 0 .. w
    OBVIOUS
  <2>2. CASE k < Radix
    <3>1. c[k] = 1
      BY <2>1, <2>2, countsUpToIs
    <3>2. e[m] \in Nat \ {0}
      BY <2>1, DigitsAndCounts
    <3> HIDE DEF c, e
    <3> QED BY <3>1, <3>2
  <2>3. CASE ~ (k < Radix)
    <3> DEFINE q == k \div Radix
               r == m \div Radix
    <3>1. ~ (m < Radix)
      BY <2>1, <2>3, RadixIs
    <3>2. c[k] = 1 + c[q]
      BY <2>1, <2>3, countsUpToIs
    <3>3. e[m] = 1 + e[r]
      BY <2>1, <3>1, countsUpToIs
    <3>4. q <= r
      BY <2>1, RadixIs
    <3>5. q \in 0 .. k - 1
      BY <2>3, RadixIs, DigitSplit
    <3>6. r \in 0 .. w
      <4>1. m \in Nat
        BY <2>1
      <4>2. r \in 0 .. m
        BY <4>1, DigitSplit
      <4> QED BY <2>1, <4>2
    <3>7. c[q] \in Nat /\ e[r] \in Nat
      <4>1. q \in 0 .. v
        BY <2>1, <3>5
      <4> QED BY <3>6, <4>1, DigitsAndCounts
    <3> HIDE DEF q, r, c, e
    <3>8. c[q] <= e[r]
      <4>1. q \in T /\ q <= v /\ r \in q .. w
        BY <1>1, <2>1, <3>4, <3>5, <3>6
      <4> QED BY <4>1
    <3> QED BY <3>2, <3>3, <3>7, <3>8
  <2> QED BY <2>2, <2>3
<1>2. \A k \in Nat : k \in T
  <2> HIDE DEF T
  <2> QED BY <1>1, StrongInduction
<1>3. c[v] <= e[w]
  <2>1. v \in T /\ w \in v .. w
    BY <1>2
  <2> HIDE DEF c, e
  <2> QED BY <2>1
<1> QED BY <1>3, digitCountIs

(***************************************************************************)
(* checksum.                                                               *)
(***************************************************************************)

LEMMA ByteIs == ByteCard \in Nat /\ Byte \subseteq Nat
  BY CodecAssumption DEF Byte

\* n bytes of b, read as a word, are a number.
LEMMA bigEndianType ==
    ASSUME NEW b \in Seq(Byte), NEW i \in Nat, NEW n \in Nat, i + n <= Len(b)
    PROVE  bigEndian(b, i, n) \in Nat
<1> DEFINE N == WordBytes
           byte(k) == IF k <= n THEN b[i + k] ELSE 0
           Step(g, k) == IF k = 0 THEN 0 ELSE g[k - 1] * ByteCard + byte(k)
           w == CHOOSE g : g = [k \in 0 .. N |-> Step(g, k)]
           st == [x \in (1 .. N) \X Nat |-> x[2] * ByteCard + byte(x[1])]
<1>1. bigEndian(b, i, n) = w[N]
  BY DEF bigEndian
<1>2. N \in Nat
  BY CodecAssumption
<1>3. \A k \in 1 .. N : byte(k) \in Nat
  <2> TAKE k \in 1 .. N
  <2>1. CASE k <= n
    <3>1. i + k \in 1 .. Len(b)
      BY <1>2, <2>1
    <3>2. b[i + k] \in Byte
      BY <3>1
    <3> QED BY <2>1, <3>2, ByteIs
  <2> QED BY <2>1
<1> HIDE DEF byte, N
<1>4. \A k \in 1 .. N, s \in Nat : s * ByteCard + byte(k) \in Nat
  BY <1>3, ByteIs
<1>5. st \in [(1 .. N) \X Nat -> Nat]
  BY <1>4
<1>6. \A k \in 1 .. N, s \in Nat : st[<<k, s>>] = s * ByteCard + byte(k)
  OBVIOUS
<1> HIDE DEF st
<1>7. Iterable(N, Nat, 0, st)
  BY <1>2, <1>5, IterationExists
<1>8. PICK f \in [0 .. N -> Nat] : f[0] = 0 /\ \A k \in 1 .. N : f[k] = st[<<k, f[k - 1]>>]
  BY <1>7 DEF Iterable
<1>9. ASSUME NEW k \in 0 .. N PROVE f[k] = Step(f, k)
  <2>1. CASE k = 0
    BY <1>8, <2>1
  <2>2. CASE k # 0
    <3>1. k \in 1 .. N /\ k - 1 \in 0 .. N
      BY <1>2, <2>2
    <3>2. f[k - 1] \in Nat
      BY <3>1
    <3>3. f[k] = f[k - 1] * ByteCard + byte(k)
      BY <1>6, <1>8, <3>1, <3>2
    <3> QED BY <2>2, <3>3
  <2> QED BY <2>1, <2>2
<1>10. f = [k \in 0 .. N |-> Step(f, k)]
  <2> HIDE DEF Step
  <2> QED BY <1>9
<1>11. w = [k \in 0 .. N |-> Step(w, k)]
  <2> HIDE DEF Step
  <2> QED BY <1>10
<1> HIDE DEF w
<1> DEFINE T == {k \in Nat : w[k] \in Nat}
<1>12. 0 \in T
  <2>1. 0 \in 0 .. N
    BY <1>2
  <2>2. w[0] = 0
    BY <1>11, <2>1
  <2> QED BY <2>2
<1>13. ASSUME NEW k \in 1 .. N, k - 1 \in T PROVE k \in T
  <2>1. k \in 0 .. N /\ k # 0 /\ k \in Nat
    BY <1>2
  <2>2. w[k] = w[k - 1] * ByteCard + byte(k)
    BY <1>11, <2>1
  <2>3. w[k - 1] \in Nat
    BY <1>13
  <2> QED BY <1>4, <2>1, <2>2, <2>3
<1>14. N \in T
  <2> HIDE DEF T
  <2>1. \A k \in 0 .. N : k \in T
    BY <1>2, <1>12, <1>13, UpTo
  <2> QED BY <1>2, <2>1
<1> QED BY <1>1, <1>14

\* Adding to a sum modulo Word stays within a word.
LEMMA SumInWords == ASSUME NEW x \in Nat, NEW y \in Nat PROVE (x + y) % Word \in Words
<1>1. Word \in Nat /\ Word > 0
  BY CodecAssumption, RadixIs
<1>2. x + y \in Nat
  OBVIOUS
<1>3. (x + y) % Word \in 0 .. Word - 1
  BY <1>1, <1>2
<1> QED BY <1>3 DEF Words

\* A checksum fits a word, whatever the bytes and however many (checksum.go: checksum).
THEOREM checksumType == ASSUME NEW b \in Seq(Byte) PROVE checksum(b) \in Words
<1> DEFINE N == Len(b) \div WordBytes
           word(k) == bigEndian(b, (k - 1) * WordBytes, WordBytes)
           rest == bigEndian(b, N * WordBytes, Len(b) % WordBytes)
           Step(g, k) == IF k = 0 THEN 0 ELSE (g[k - 1] + word(k)) % Word
           sum == CHOOSE g : g = [k \in 0 .. N |-> Step(g, k)]
           st == [x \in (1 .. N) \X Words |-> (x[2] + word(x[1])) % Word]
<1>1. checksum(b) = (sum[N] + rest) % Word
  BY DEF checksum
<1>2. /\ WordBytes \in Nat /\ WordBytes > 0 /\ Len(b) \in Nat
      /\ N \in Nat /\ Len(b) % WordBytes \in Nat
      /\ N * WordBytes \in Nat
      /\ N * WordBytes + (Len(b) % WordBytes) = Len(b)
  <2>1. WordBytes \in Nat /\ WordBytes > 0 /\ Len(b) \in Nat
    BY CodecAssumption
  <2>2. ASSUME NEW x \in Nat, NEW y \in Nat, y > 0
        PROVE  /\ x \div y \in Nat /\ x % y \in Nat /\ (x \div y) * y \in Nat
               /\ (x \div y) * y + (x % y) = x
    BY <2>2
  <2> QED BY <2>1, <2>2
<1>3. rest \in Nat
  <2>1. N * WordBytes + (Len(b) % WordBytes) <= Len(b)
    BY <1>2
  <2> QED BY <1>2, <2>1, bigEndianType
<1>4. ASSUME NEW k \in 1 .. N PROVE word(k) \in Nat
  <2>1. k - 1 \in Nat /\ (k - 1) * WordBytes \in Nat
    BY <1>2
  <2>2. (k - 1) * WordBytes + WordBytes = k * WordBytes
    BY <1>2
  <2>3. k * WordBytes <= N * WordBytes
    BY <1>2
  <2>4. (k - 1) * WordBytes + WordBytes <= Len(b)
    BY <1>2, <2>2, <2>3
  <2> QED BY <1>2, <2>1, <2>4, bigEndianType
<1> HIDE DEF N, word, rest
<1>5. 0 \in Words /\ Words \subseteq Nat
  BY CodecAssumption, RadixIs DEF Words
<1>6. \A k \in 1 .. N, s \in Words : (s + word(k)) % Word \in Words
  BY <1>4, <1>5, SumInWords
<1>7. st \in [(1 .. N) \X Words -> Words]
  BY <1>6
<1>8. \A k \in 1 .. N, s \in Words : st[<<k, s>>] = (s + word(k)) % Word
  OBVIOUS
<1> HIDE DEF st
<1>9. Iterable(N, Words, 0, st)
  BY <1>2, <1>5, <1>7, IterationExists
<1>10. PICK f \in [0 .. N -> Words] : f[0] = 0 /\ \A k \in 1 .. N : f[k] = st[<<k, f[k - 1]>>]
  BY <1>9 DEF Iterable
<1>11. ASSUME NEW k \in 0 .. N PROVE f[k] = Step(f, k)
  <2>1. CASE k = 0
    BY <1>10, <2>1
  <2>2. CASE k # 0
    <3>1. k \in 1 .. N /\ k - 1 \in 0 .. N
      BY <1>2, <2>2
    <3>2. f[k - 1] \in Words
      BY <3>1
    <3>3. f[k] = (f[k - 1] + word(k)) % Word
      BY <1>8, <1>10, <3>1, <3>2
    <3> QED BY <2>2, <3>3
  <2> QED BY <2>1, <2>2
<1>12. f = [k \in 0 .. N |-> Step(f, k)]
  <2> HIDE DEF Step
  <2> QED BY <1>11
<1>13. sum = [k \in 0 .. N |-> Step(sum, k)]
  <2> HIDE DEF Step
  <2> QED BY <1>12
<1> HIDE DEF sum
<1> DEFINE T == {k \in Nat : sum[k] \in Words}
<1>14. 0 \in T
  <2>1. 0 \in 0 .. N
    BY <1>2
  <2>2. sum[0] = 0
    BY <1>13, <2>1
  <2> QED BY <1>5, <2>2
<1>15. ASSUME NEW k \in 1 .. N, k - 1 \in T PROVE k \in T
  <2>1. k \in 0 .. N /\ k # 0 /\ k \in Nat
    BY <1>2
  <2>2. sum[k] = (sum[k - 1] + word(k)) % Word
    BY <1>13, <2>1
  <2>3. sum[k - 1] \in Words
    BY <1>15
  <2> QED BY <1>6, <2>1, <2>2, <2>3
<1>16. sum[N] \in Words
  <2> HIDE DEF T
  <2>1. \A k \in 0 .. N : k \in T
    BY <1>2, <1>14, <1>15, UpTo
  <2>2. N \in T
    BY <1>2, <2>1
  <2> QED BY <2>2 DEF T
<1> QED BY <1>1, <1>3, <1>5, <1>16, SumInWords

(***************************************************************************)
(* A number that was written is read back.                                 *)
(***************************************************************************)

LEMMA decodeEncoded ==
    /\ \A c \in DigitBytes : c \in Byte /\ decodeDigit[c] >= 0
    /\ \A c \in Byte \ DigitBytes : decodeDigit[c] < 0
    /\ \A r \in 0 .. Radix - 1 : encodeDigit[r] \in DigitBytes /\ decodeDigit[encodeDigit[r]] = r
<1>1. \A r \in 0 .. Radix - 1 : encodeDigit[r] = Alphabet[r + 1] /\ r + 1 \in 1 .. Radix
  BY RadixIs DEF encodeDigit
<1>2. \A r \in 0 .. Radix - 1 : encodeDigit[r] \in DigitBytes
  BY <1>1 DEF DigitBytes
<1>3. \A c \in DigitBytes : c \in Byte
  BY CodecAssumption DEF DigitBytes, Radix
<1>4. ASSUME NEW r \in 0 .. Radix - 1, NEW q \in 0 .. Radix - 1, encodeDigit[r] = encodeDigit[q]
      PROVE  r = q
  <2>1. Alphabet[r + 1] = Alphabet[q + 1] /\ Alphabet[r + 1] \in Nat
    <3>1. encodeDigit[r] \in Byte
      BY encodeDigitType
    <3> QED BY <1>1, <1>4, <3>1 DEF Byte
  <2>2. r + 1 \in 1 .. Radix /\ q + 1 \in 1 .. Radix
    BY <1>1
  <2>3. ~ (r + 1 < q + 1) /\ ~ (q + 1 < r + 1)
    <3>1. \A j, k \in 1 .. Radix : j < k => Alphabet[j] < Alphabet[k]
      BY CodecAssumption
    <3>2. ~ (Alphabet[r + 1] < Alphabet[q + 1]) /\ ~ (Alphabet[q + 1] < Alphabet[r + 1])
      BY <2>1
    <3> QED BY <2>2, <3>1, <3>2
  <2> QED BY <2>3, RadixIs
<1>5. ASSUME NEW r \in 0 .. Radix - 1 PROVE decodeDigit[encodeDigit[r]] = r
  <2>1. encodeDigit[r] \in DigitBytes /\ encodeDigit[r] \in Byte
    BY <1>2, <1>3
  <2>2. decodeDigit[encodeDigit[r]] = CHOOSE d \in 0 .. Radix - 1 : encodeDigit[d] = encodeDigit[r]
    BY <2>1 DEF decodeDigit
  <2> QED BY <1>4, <2>2
<1>6. ASSUME NEW c \in DigitBytes PROVE decodeDigit[c] >= 0
  <2>1. PICK r \in 0 .. Radix - 1 : c = encodeDigit[r]
    <3>1. PICK k \in 1 .. Radix : c = Alphabet[k]
      BY DEF DigitBytes
    <3>2. k - 1 \in 0 .. Radix - 1 /\ (k - 1) + 1 = k
      BY RadixIs
    <3> QED BY <1>1, <3>1, <3>2
  <2> QED BY <1>5, <2>1
<1>7. ASSUME NEW c \in Byte \ DigitBytes PROVE decodeDigit[c] < 0
  BY DEF decodeDigit
<1> QED BY <1>2, <1>3, <1>5, <1>6, <1>7

\* The digits of a number.
digitsOf(v) == digitsUpTo(v)[v]

LEMMA appendIntIs ==
    ASSUME NEW v \in Nat
    PROVE  /\ digitsOf(v) \in Seq(Byte) /\ Len(digitsOf(v)) = digitCount(v)
           /\ \A d, c : appendInt(d, v, c) = d \o Append(digitsOf(v), c)
<1>1. v \in 0 .. v
  OBVIOUS
<1>2. \A d, c : appendInt(d, v, c) = d \o Append(digitsOf(v), c)
  BY DEF appendInt, digitsUpTo, digitsOf
<1> QED BY <1>1, <1>2, DigitsAndCounts, digitCountIs DEF digitsOf

\* Every digit is one of the digits' bytes, of which no command byte is one.
LEMMA DigitsAreDigits ==
    ASSUME NEW v \in Nat, NEW u \in 0 .. v
    PROVE  \A k \in 1 .. Len(digitsUpTo(v)[u]) : digitsUpTo(v)[u][k] \in DigitBytes
<1> DEFINE d == digitsUpTo(v)
           Right(k) == \A j \in 1 .. Len(d[k]) : d[k][j] \in DigitBytes
           T == {k \in Nat : k <= v => Right(k)}
<1>1. ASSUME NEW m \in Nat, \A k \in 0 .. m - 1 : k \in T PROVE m \in T
  <2> SUFFICES ASSUME m <= v PROVE Right(m)
    OBVIOUS
  <2>1. m \in 0 .. v
    OBVIOUS
  <2>2. CASE m < Radix
    <3>1. d[m] = <<encodeDigit[m]>>
      BY <2>1, <2>2, digitsUpToIs
    <3>2. encodeDigit[m] \in DigitBytes
      BY <2>2, RadixIs, decodeEncoded
    <3> HIDE DEF d
    <3> QED BY <3>1, <3>2
  <2>3. CASE ~ (m < Radix)
    <3> DEFINE q == m \div Radix
    <3>1. d[m] = Append(d[q], encodeDigit[m % Radix])
      BY <2>1, <2>3, digitsUpToIs
    <3>2. q \in 0 .. m - 1
      BY <2>3, RadixIs, DigitSplit
    <3>3. encodeDigit[m % Radix] \in DigitBytes
      BY DigitSplit, decodeEncoded
    <3>4. q \in 0 .. v /\ q \in T
      BY <1>1, <2>1, <3>2
    <3>5. d[q] \in Seq(Byte)
      BY <3>4, DigitsAndCounts
    <3> HIDE DEF q, d
    <3>6. Right(q)
      BY <3>4
    <3> QED BY <3>1, <3>3, <3>5, <3>6
  <2> QED BY <2>2, <2>3
<1> HIDE DEF Right
<1>2. u \in Nat /\ u <= v
  OBVIOUS
<1>3. \A m \in Nat : m \in T
  <2> HIDE DEF T
  <2> QED BY <1>1, StrongInduction
<1>4. Right(u)
  BY <1>2, <1>3
<1> QED BY <1>4 DEF Right

\* b holds the digits of v from position p on, and after them a byte that is none.
Written(b, p, v) ==
    LET n == digitCount(v)
    IN  /\ p + n < Len(b)
        /\ \A k \in 1 .. n : b[p + k] = digitsOf(v)[k]
        /\ b[p + n + 1] \notin DigitBytes

\* Where the digits end is where the reader stops.
LEMMA StopsAfterDigits ==
    ASSUME NEW b \in Seq(Byte), NEW p \in Nat, NEW v \in Nat, Written(b, p, v)
    PROVE  digitsEnd(b, p) = p + digitCount(v)
<1> DEFINE n == digitCount(v)
           end == digitsEnd(b, p)
           Stop(j) == /\ \A k \in p .. j - 1 : decodeDigit[b[k + 1]] >= 0
                      /\ j < Len(b) => decodeDigit[b[j + 1]] < 0
<1>1. n \in Nat /\ p + n < Len(b) /\ p < Len(b) /\ Len(b) \in Nat
  <2>1. n \in Nat
    BY digitCountType
  <2>2. p + n < Len(b)
    BY DEF Written
  <2> HIDE DEF n
  <2> QED BY <2>1, <2>2
<1>2. \A k \in p .. p + n - 1 : b[k + 1] \in DigitBytes
  <2> TAKE k \in p .. p + n - 1
  <2>1. k + 1 - p \in 1 .. n /\ p + (k + 1 - p) = k + 1
    BY <1>1
  <2>2. b[k + 1] = digitsOf(v)[k + 1 - p]
    <3> DEFINE j == k + 1 - p
    <3>1. j \in 1 .. n /\ p + j = k + 1
      BY <2>1
    <3>2. b[p + j] = digitsOf(v)[j]
      <4> HIDE DEF j
      <4> QED BY <3>1 DEF Written
    <3> QED BY <3>1, <3>2
  <2>3. v \in 0 .. v
    OBVIOUS
  <2> QED BY <2>1, <2>2, <2>3, DigitsAreDigits, appendIntIs DEF digitsOf
<1>3. b[p + n + 1] \in Byte \ DigitBytes
  <2>1. p + n + 1 \in 1 .. Len(b)
    BY <1>1
  <2> QED BY <2>1 DEF Written
<1>4. \A k \in p .. p + n - 1 : decodeDigit[b[k + 1]] >= 0
  BY <1>2, decodeEncoded
<1>5. decodeDigit[b[p + n + 1]] < 0
  BY <1>3, decodeEncoded
<1>6. end = CHOOSE j \in p .. Len(b) : Stop(j)
  BY <1>1, SMTT(30) DEF digitsEnd
<1> HIDE DEF n, end
<1>7. Stop(p + n) /\ p + n \in p .. Len(b)
  BY <1>1, <1>4, <1>5
<1>8. end \in p .. Len(b) /\ Stop(end)
  <2> HIDE DEF Stop
  <2> QED BY <1>6, <1>7
<1>9. ~ (end < p + n)
  <2> SUFFICES ASSUME end < p + n PROVE FALSE
    OBVIOUS
  <2>1. end \in p .. p + n - 1 /\ end < Len(b)
    BY <1>1, <1>8
  <2>2. decodeDigit[b[end + 1]] \in Int
    <3>1. b[end + 1] \in Byte
      BY <1>8, <2>1
    <3> QED BY <3>1, decodeDigitType, RadixIs
  <2> QED BY <1>4, <1>8, <2>1, <2>2
<1>10. ~ (end > p + n)
  <2> SUFFICES ASSUME end > p + n PROVE FALSE
    OBVIOUS
  <2>1. p + n \in p .. end - 1
    BY <1>1, <1>8
  <2>2. decodeDigit[b[p + n + 1]] \in Int
    BY <1>3, decodeDigitType, RadixIs
  <2> QED BY <1>5, <1>8, <2>1, <2>2
<1>11. end = p + n
  <2>1. end \in Int
    BY <1>1, <1>8
  <2> QED BY <1>1, <1>9, <1>10, <2>1
<1> QED BY <1>11 DEF end, n

\* The digits' values, wrapped at every step, add up to the number that was written.
LEMMA ReadsNumber ==
    ASSUME NEW b \in Seq(Byte), NEW p \in Nat, NEW v \in Words, Written(b, p, v)
    PROVE  decodeInt(b, p) = [val |-> v, next |-> p + digitCount(v)]
<1> DEFINE n == digitCount(v)
           D == digitsOf(v)
           f == valuesFrom(b, p)
           d == digitsUpTo(v)
<1>1. v \in Nat /\ v < Word /\ Word \in Nat
  BY CodecAssumption DEF Words
<1>2. digitsEnd(b, p) = p + n
  BY <1>1, StopsAfterDigits
<1>3. n \in Nat /\ D \in Seq(Byte) /\ Len(D) = n
  BY <1>1, digitCountType, appendIntIs
<1>4. \A k \in 1 .. n : b[p + k] = D[k]
  BY DEF Written
<1>5. f = [k \in p .. p + n |-> IF k = p THEN 0
                                ELSE (f[k - 1] * Radix + decodeDigit[b[k]]) % Word]
  <2>1. f = [k \in p .. digitsEnd(b, p) |->
               IF k = p THEN 0 ELSE (f[k - 1] * Radix + decodeDigit[b[k]]) % Word]
    BY valuesFromIs
  <2> HIDE DEF f
  <2> QED BY <1>2, <2>1
<1>6. decodeInt(b, p) = [val |-> f[p + n], next |-> p + n]
  BY <1>2 DEF decodeInt, valuesFrom
<1>7. \A u \in 0 .. v : d[u] = IF u < Radix THEN <<encodeDigit[u]>>
                             ELSE Append(d[u \div Radix], encodeDigit[u % Radix])
  <2>1. d = [u \in 0 .. v |-> IF u < Radix THEN <<encodeDigit[u]>>
                             ELSE Append(d[u \div Radix], encodeDigit[u % Radix])]
    BY <1>1, digitsUpToIs
  <2> HIDE DEF d
  <2> QED BY <2>1
<1>8. \A u \in 0 .. v : d[u] \in Seq(Byte)
  BY <1>1, DigitsAndCounts
<1>9. D = d[v]
  BY DEF digitsOf
<1> HIDE DEF n, D, f, d
<1>10. f[p] = 0
  BY <1>3, <1>5
<1>11. \A m \in 1 .. n : f[p + m] = (f[p + (m - 1)] * Radix + decodeDigit[D[m]]) % Word
  <2> TAKE m \in 1 .. n
  <2>1. p + m \in p .. p + n /\ p + m # p /\ (p + m) - 1 = p + (m - 1)
    BY <1>3
  <2> QED BY <1>4, <1>5, <2>1
<1> DEFINE First(u, m) == /\ Len(d[u]) = m
                          /\ \A k \in 1 .. m : D[k] = d[u][k]
           T == {u \in Nat : u <= v => \A m \in 1 .. n : First(u, m) => f[p + m] = u}
<1>12. ASSUME NEW u \in Nat, \A k \in 0 .. u - 1 : k \in T PROVE u \in T
  <2> SUFFICES ASSUME u <= v, NEW m \in 1 .. n, First(u, m) PROVE f[p + m] = u
    OBVIOUS
  <2>1. u \in 0 .. v
    BY <1>1
  <2>2. Radix \in Nat /\ Radix >= 2
    BY RadixIs
  <2>3. u % Word = u
    BY <1>1, <2>1
  <2>4. CASE u < Radix
    <3>1. d[u] = <<encodeDigit[u]>>
      BY <1>7, <2>1, <2>4
    <3>2. m = 1 /\ D[1] = encodeDigit[u]
      BY <3>1
    <3>3. decodeDigit[D[m]] = u
      <4>1. u \in 0 .. Radix - 1
        BY <2>2, <2>4
      <4> QED BY <3>2, <4>1, decodeEncoded
    <3>4. f[p + (m - 1)] = 0
      BY <1>10, <3>2
    <3> QED BY <1>11, <2>2, <2>3, <3>3, <3>4
  <2>5. CASE ~ (u < Radix)
    <3> DEFINE q == u \div Radix
               r == u % Radix
    <3>1. q \in 0 .. u - 1 /\ r \in 0 .. Radix - 1
      <4>1. u # 0
        BY <2>2, <2>5
      <4>2. q \in 0 .. u /\ q < u /\ r \in 0 .. Radix - 1
        BY <4>1, DigitSplit
      <4> HIDE DEF q, r
      <4> QED BY <4>2
    <3>2. u = q * Radix + r
      BY <2>2, DivMod
    <3>3. d[u] = Append(d[q], encodeDigit[r])
      BY <1>7, <2>1, <2>5
    <3> HIDE DEF q, r
    <3>4. q \in 0 .. v /\ q \in T
      BY <1>1, <1>12, <2>1, <3>1
    <3>5. d[q] \in Seq(Byte)
      BY <1>8, <3>4
    <3>6. m = Len(d[q]) + 1 /\ D[m] = encodeDigit[r]
      BY <3>3, <3>5
    <3>7. d[q] # <<>>
      <4>1. \A k \in 0 .. v : Len(digitsUpTo(v)[k]) \in Nat \ {0}
        BY ONLY <1>1, DigitsAndCounts
      <4> QED BY <3>4, <4>1 DEF d
    <3>8. m - 1 \in 1 .. n /\ First(q, m - 1)
      <4> DEFINE s == d[q]
                 x == encodeDigit[r]
      <4>1. s \in Seq(Byte) /\ m = Len(s) + 1 /\ Len(s) \in Nat \ {0}
        BY <3>5, <3>6, <3>7
      <4>2. \A k \in 1 .. m : D[k] = Append(s, x)[k]
        BY <3>3
      <4> HIDE DEF s, x
      <4>3. \A k \in 1 .. Len(s) : Append(s, x)[k] = s[k] /\ k \in 1 .. m
        BY <4>1
      <4>4. m - 1 = Len(s) /\ \A k \in 1 .. m - 1 : D[k] = s[k]
        BY <4>1, <4>2, <4>3
      <4>5. m - 1 \in 1 .. n
        BY <1>3, <4>1
      <4> QED BY <4>4, <4>5 DEF s
    <3>9. f[p + (m - 1)] = q
      BY <3>1, <3>4, <3>8
    <3>10. decodeDigit[D[m]] = r
      BY <3>1, <3>6, decodeEncoded
    <3> QED BY <1>11, <2>3, <3>2, <3>9, <3>10
  <2> QED BY <2>4, <2>5
<1>13. \A u \in Nat : u \in T
  <2> HIDE DEF T
  <2> QED BY <1>12, StrongInduction
<1>14. n \in 1 .. n
  <2>1. digitCount(v) \in Nat \ {0}
    BY <1>1, digitCountType
  <2> QED BY <2>1 DEF n
<1>15. First(v, n)
  BY <1>3, <1>9
<1>16. f[p + n] = v
  <2>1. v \in T
    BY <1>1, <1>13
  <2> QED BY <1>1, <1>14, <1>15, <2>1
<1> QED BY <1>6, <1>16 DEF n

\* What appendInt writes lies there, and stays there whatever is written after it.
LEMMA WrittenHere ==
    ASSUME NEW d \in Seq(Byte), NEW v \in Nat, NEW c \in CommandBytes
    PROVE  LET b == appendInt(d, v, c)
           IN  Written(b, Len(d), v) /\ b[Len(d) + digitCount(v) + 1] = c
<1> DEFINE b == appendInt(d, v, c)
           D == digitsOf(v)
           n == digitCount(v)
           e == Append(D, c)
<1>1. c \in Byte \ DigitBytes
  BY CodecAssumption
<1>2. D \in Seq(Byte) /\ Len(D) = n /\ b = d \o Append(D, c)
  BY appendIntIs
<1> HIDE DEF D, n, b
<1>3. e \in Seq(Byte) /\ Len(e) = n + 1 /\ (\A k \in 1 .. n : e[k] = D[k]) /\ e[n + 1] = c
      /\ b = d \o e /\ n \in Nat
  BY <1>1, <1>2
<1> HIDE DEF e
<1>4. \A k \in 1 .. n : b[Len(d) + k] = D[k]
  BY <1>3
<1>5. b[Len(d) + n + 1] = c
  BY <1>3
<1>6. Len(d) + n < Len(b)
  BY <1>3
<1>7. Written(b, Len(d), v)
  BY <1>1, <1>4, <1>5, <1>6 DEF Written, D, n
<1> QED BY <1>5, <1>7 DEF b, n

LEMMA WrittenStays ==
    ASSUME NEW b \in Seq(Byte), NEW e \in Seq(Byte), NEW p \in Nat, NEW v \in Nat, Written(b, p, v)
    PROVE  /\ Written(b \o e, p, v)
           /\ (b \o e)[p + digitCount(v) + 1] = b[p + digitCount(v) + 1]
<1> DEFINE n == digitCount(v)
           g == b \o e
<1>1. n \in Nat
  BY digitCountType
<1>2. p + n < Len(b) /\ (\A k \in 1 .. n : b[p + k] = digitsOf(v)[k]) /\ b[p + n + 1] \notin DigitBytes
  BY DEF Written
<1> HIDE DEF n
<1>3. \A k \in 1 .. Len(b) : g[k] = b[k]
  OBVIOUS
<1>4. Len(g) = Len(b) + Len(e)
  OBVIOUS
<1> HIDE DEF g
<1>5. p + n < Len(g)
  BY <1>1, <1>2, <1>4
<1>6. ASSUME NEW k \in 1 .. n + 1 PROVE g[p + k] = b[p + k]
  <2>1. p + k \in 1 .. Len(b)
    BY <1>1, <1>2
  <2> QED BY <1>3, <2>1
<1>7. g[p + n + 1] = b[p + n + 1]
  <2>1. n + 1 \in 1 .. n + 1 /\ p + (n + 1) = p + n + 1
    BY <1>1
  <2> QED BY <1>6, <2>1
<1>8. \A k \in 1 .. n : g[p + k] = digitsOf(v)[k]
  <2>1. \A k \in 1 .. n : k \in 1 .. n + 1
    BY <1>1
  <2> QED BY <1>2, <1>6, <2>1
<1> QED BY <1>2, <1>5, <1>7, <1>8 DEF Written, n, g

\* decodeInt gives back every number that appendInt writes, whatever was written before
\* it and whatever follows, and leaves the reader at the command byte (codec.go:
\* appendInt, decodeInt).
THEOREM NumberReadsBack ==
    ASSUME NEW d \in Seq(Byte), NEW v \in Words, NEW c \in CommandBytes, NEW t \in Seq(Byte)
    PROVE  LET b == appendInt(d, v, c) \o t
           IN  /\ decodeInt(b, Len(d)) = [val |-> v, next |-> Len(d) + digitCount(v)]
               /\ b[Len(d) + digitCount(v) + 1] = c
<1> DEFINE a == appendInt(d, v, c)
<1>1. v \in Nat /\ c \in Byte /\ Len(d) \in Nat
  BY CodecAssumption DEF Words
<1>2. a \in Seq(Byte) /\ Written(a, Len(d), v) /\ a[Len(d) + digitCount(v) + 1] = c
  BY <1>1, appendIntType, WrittenHere
<1> HIDE DEF a
<1>3. /\ Written(a \o t, Len(d), v) /\ a \o t \in Seq(Byte)
      /\ (a \o t)[Len(d) + digitCount(v) + 1] = c
  <2> DEFINE p == Len(d)
  <2>1. p \in Nat
    OBVIOUS
  <2> HIDE DEF p
  <2>2. a \in Seq(Byte) /\ Written(a, p, v) /\ a[p + digitCount(v) + 1] = c
    BY <1>2 DEF p
  <2>3. Written(a \o t, p, v) /\ (a \o t)[p + digitCount(v) + 1] = c
    BY <1>1, <2>1, <2>2, WrittenStays, ZenonT(30)
  <2>4. a \o t \in Seq(Byte)
    BY <1>2
  <2> QED BY <2>3, <2>4 DEF p
<1>4. decodeInt(a \o t, Len(d)) = [val |-> v, next |-> Len(d) + digitCount(v)]
  BY <1>1, <1>3, ReadsNumber
<1> QED BY <1>3, <1>4 DEF a

(***************************************************************************)
(* A number is the same number wherever its bytes are.                     *)
(***************************************************************************)

\* Digits and no digit after them: where the digits end.
LEMMA DigitsEndHere ==
    ASSUME NEW b \in Seq(Byte), NEW i \in Nat, NEW e \in i .. Len(b), i < Len(b),
           \A k \in i .. e - 1 : decodeDigit[b[k + 1]] >= 0,
           e < Len(b) => decodeDigit[b[e + 1]] < 0
    PROVE  digitsEnd(b, i) = e
<1> DEFINE Stop(j) == /\ \A k \in i .. j - 1 : decodeDigit[b[k + 1]] >= 0
                      /\ j < Len(b) => decodeDigit[b[j + 1]] < 0
           end == digitsEnd(b, i)
<1>1. Len(b) \in Nat /\ e \in Nat /\ \A k \in 0 .. Len(b) - 1 : decodeDigit[b[k + 1]] \in Int
  <2>1. \A k \in 0 .. Len(b) - 1 : b[k + 1] \in Byte
    OBVIOUS
  <2> QED BY <2>1, decodeDigitType, RadixIs
<1>2. end = CHOOSE j \in i .. Len(b) : Stop(j)
  BY SMTT(30) DEF digitsEnd
<1>3. Stop(e)
  OBVIOUS
<1>4. end \in i .. Len(b) /\ Stop(end)
  <2> HIDE DEF Stop, end
  <2> QED BY <1>2, <1>3
<1> HIDE DEF end
<1>5. ~ (end < e)
  <2> SUFFICES ASSUME end < e PROVE FALSE
    OBVIOUS
  <2>1. end \in i .. e - 1 /\ end < Len(b) /\ end \in 0 .. Len(b) - 1
    BY <1>1, <1>4
  <2> QED BY <1>1, <1>4, <2>1
<1>6. ~ (end > e)
  <2> SUFFICES ASSUME end > e PROVE FALSE
    OBVIOUS
  <2>1. e \in i .. end - 1 /\ e < Len(b) /\ e \in 0 .. Len(b) - 1
    BY <1>1, <1>4
  <2> QED BY <1>1, <1>4, <2>1
<1> QED BY <1>1, <1>4, <1>5, <1>6 DEF end

\* The end of a number that the bytes do not end with is no digit.
LEMMA AfterDigits ==
    ASSUME NEW b \in Seq(Byte), NEW i \in Nat, digitsEnd(b, i) < Len(b)
    PROVE  /\ i <= digitsEnd(b, i) /\ i < Len(b)
           /\ b[digitsEnd(b, i) + 1] \in Byte \ DigitBytes
           /\ \A k \in i .. digitsEnd(b, i) - 1 : b[k + 1] \in DigitBytes
<1> DEFINE Stop(j) == /\ \A k \in i .. j - 1 : decodeDigit[b[k + 1]] >= 0
                      /\ j < Len(b) => decodeDigit[b[j + 1]] < 0
           end == digitsEnd(b, i)
<1>1. end \in Nat /\ end >= i /\ i < Len(b) /\ end < Len(b) /\ Len(b) \in Nat
  BY digitsEndType
<1>2. \A k \in 0 .. Len(b) - 1 : b[k + 1] \in Byte /\ decodeDigit[b[k + 1]] \in Int
  BY decodeDigitType, RadixIs
<1>3. end = CHOOSE j \in i .. Len(b) : Stop(j)
  BY <1>1, SMTT(30) DEF digitsEnd
<1>4. \E j \in i .. Len(b) : Stop(j)
  <2> DEFINE T == {k \in Nat : decodeDigit[b[i + k + 1]] >= 0}
  <2>1. Len(b) - i \in Nat
    BY <1>1
  <2>2. PICK k \in 0 .. Len(b) - i : (\A j \in 0 .. k - 1 : j \in T) /\ (k < Len(b) - i => k \notin T)
    <3> HIDE DEF T
    <3> QED BY <2>1, FirstOutside
  <2>3. i + k \in i .. Len(b)
    BY <1>1, <2>2
  <2>4. ASSUME NEW x \in i .. i + k - 1 PROVE decodeDigit[b[x + 1]] >= 0
    <3>1. x - i \in 0 .. k - 1 /\ i + (x - i) + 1 = x + 1
      BY <1>1, <2>2
    <3>2. x - i \in T
      BY <2>2, <3>1
    <3>3. decodeDigit[b[i + (x - i) + 1]] >= 0
      BY <3>2
    <3> QED BY <3>1, <3>3
  <2>5. i + k < Len(b) => decodeDigit[b[i + k + 1]] < 0
    <3> SUFFICES ASSUME i + k < Len(b) PROVE decodeDigit[b[i + k + 1]] < 0
      OBVIOUS
    <3>1. k < Len(b) - i /\ k \in Nat /\ i + k \in 0 .. Len(b) - 1
      BY <1>1, <2>2
    <3>2. k \notin T
      BY <2>2, <3>1
    <3>3. ~ (decodeDigit[b[i + k + 1]] >= 0)
      BY <3>1, <3>2
    <3>4. decodeDigit[b[i + k + 1]] \in Int
      BY <1>2, <3>1
    <3> QED BY <3>3, <3>4
  <2> QED BY <2>3, <2>4, <2>5
<1>5. Stop(end)
  <2> HIDE DEF Stop, end
  <2> QED BY <1>3, <1>4
<1> HIDE DEF end
<1>6. b[end + 1] \in Byte /\ decodeDigit[b[end + 1]] < 0
  <2>1. end \in 0 .. Len(b) - 1
    BY <1>1
  <2> QED BY <1>1, <1>2, <1>5, <2>1
<1>7. b[end + 1] \notin DigitBytes
  <2>1. decodeDigit[b[end + 1]] \in Int
    BY <1>6, decodeDigitType, RadixIs
  <2> QED BY <1>6, <2>1, decodeEncoded
<1>8. ASSUME NEW k \in i .. end - 1 PROVE b[k + 1] \in DigitBytes
  <2>1. k \in 0 .. Len(b) - 1
    BY <1>1
  <2>2. b[k + 1] \in Byte /\ decodeDigit[b[k + 1]] \in Int /\ decodeDigit[b[k + 1]] >= 0
    BY <1>2, <1>5, <2>1
  <2> QED BY <2>2, decodeEncoded
<1> QED BY <1>1, <1>6, <1>7, <1>8 DEF end

\* The same digits at o + p in g as at p in b, and the byte after them: the same number.
LEMMA DecodeElsewhere ==
    ASSUME NEW b \in Seq(Byte), NEW g \in Seq(Byte), NEW p \in Nat, NEW o \in Nat,
           decodeInt(b, p).next < Len(b),
           o + decodeInt(b, p).next < Len(g),
           \A k \in p + 1 .. decodeInt(b, p).next + 1 : g[o + k] = b[k]
    PROVE  decodeInt(g, o + p) = [val |-> decodeInt(b, p).val,
                                  next |-> o + decodeInt(b, p).next]
<1> DEFINE e == digitsEnd(b, p)
           f == valuesFrom(b, p)
           q == o + p
           x == digitsEnd(g, q)
           y == valuesFrom(g, q)
<1>1. decodeInt(b, p).next = e /\ decodeInt(b, p).val = f[e]
  BY DEF decodeInt, valuesFrom
<1>2. decodeInt(g, q) = [val |-> y[x], next |-> x]
  BY DEF decodeInt, valuesFrom
<1>3. /\ e \in Nat /\ p <= e /\ e < Len(b) /\ Len(b) \in Nat /\ Len(g) \in Nat
  <2>1. e < Len(b)
    BY <1>1
  <2> HIDE DEF e
  <2>2. e \in Nat /\ p <= e
    BY digitsEndType DEF e
  <2> QED BY <2>1, <2>2
<1>d. /\ b[e + 1] \in Byte \ DigitBytes
      /\ \A k \in p .. e - 1 : b[k + 1] \in DigitBytes
  <2>1. e < Len(b)
    BY <1>3
  <2> QED BY <2>1, AfterDigits
<1>4. o + e < Len(g) /\ \A k \in p + 1 .. e + 1 : g[o + k] = b[k]
  BY <1>1
<1> HIDE DEF e
<1>5. q \in Nat /\ o + e \in q .. Len(g) /\ q < Len(g)
  BY <1>3, <1>4
<1>6. ASSUME NEW k \in q .. o + e - 1 PROVE decodeDigit[g[k + 1]] >= 0
  <2>1. k - o \in p .. e - 1 /\ k - o + 1 \in p + 1 .. e + 1 /\ o + (k - o + 1) = k + 1
    BY <1>3
  <2>2. g[o + (k - o + 1)] = b[k - o + 1]
    BY <1>4, <2>1
  <2>3. b[k - o + 1] \in DigitBytes
    BY <1>d, <2>1
  <2> QED BY <2>1, <2>2, <2>3, decodeEncoded
<1>7. decodeDigit[g[o + e + 1]] < 0
  <2>1. e + 1 \in p + 1 .. e + 1 /\ o + (e + 1) = o + e + 1
    BY <1>3
  <2>2. g[o + e + 1] = b[e + 1]
    BY <1>4, <2>1
  <2> QED BY <1>d, <2>2, decodeEncoded
<1>8. x = o + e
  <2> HIDE DEF q
  <2>a. \A k \in q .. o + e - 1 : decodeDigit[g[k + 1]] >= 0
    BY <1>6
  <2> DEFINE z == o + e
  <2>b. z - 1 = o + e - 1
    BY <1>3
  <2>1. \A k \in q .. z - 1 : decodeDigit[g[k + 1]] >= 0
    <3> HIDE DEF z
    <3> QED BY <2>a, <2>b
  <2>2. q \in Nat /\ z \in q .. Len(g) /\ q < Len(g)
    BY <1>5
  <2>3. decodeDigit[g[z + 1]] < 0
    BY <1>7
  <2> HIDE DEF z
  <2>4. digitsEnd(g, q) = z
    BY <2>1, <2>2, <2>3, DigitsEndHere
  <2> QED BY <2>4 DEF z, x
<1>9. f = [k \in p .. e |-> IF k = p THEN 0
                            ELSE (f[k - 1] * Radix + decodeDigit[b[k]]) % Word]
  <2>1. f = [k \in p .. digitsEnd(b, p) |->
               IF k = p THEN 0 ELSE (f[k - 1] * Radix + decodeDigit[b[k]]) % Word]
    BY valuesFromIs
  <2> HIDE DEF f
  <2> QED BY <2>1 DEF e
<1>10. y = [k \in q .. o + e |-> IF k = q THEN 0
                                 ELSE (y[k - 1] * Radix + decodeDigit[g[k]]) % Word]
  <2>1. y = [k \in q .. x |->
               IF k = q THEN 0 ELSE (y[k - 1] * Radix + decodeDigit[g[k]]) % Word]
    BY <1>5, valuesFromIs
  <2> HIDE DEF y, x
  <2> QED BY <1>8, <2>1
<1> HIDE DEF f, y, x
<1> DEFINE T == {m \in Nat : y[q + m] = f[p + m]}
<1>11. 0 \in T
  <2>1. p \in p .. e /\ q \in q .. o + e /\ q + 0 = q /\ p + 0 = p
    BY <1>3, <1>5
  <2> QED BY <1>9, <1>10, <2>1
<1>12. ASSUME NEW m \in 1 .. e - p, m - 1 \in T PROVE m \in T
  <2>1. /\ p + m \in p .. e /\ p + m # p /\ (p + m) - 1 = p + (m - 1)
        /\ q + m \in q .. o + e /\ q + m # q /\ (q + m) - 1 = q + (m - 1)
        /\ p + m \in p + 1 .. e + 1 /\ o + (p + m) = q + m
    BY <1>3
  <2>2. f[p + m] = (f[p + (m - 1)] * Radix + decodeDigit[b[p + m]]) % Word
    BY <1>9, <2>1
  <2>3. y[q + m] = (y[q + (m - 1)] * Radix + decodeDigit[g[q + m]]) % Word
    <3> HIDE DEF q
    <3> QED BY <1>10, <2>1
  <2>4. g[q + m] = b[p + m]
    BY <1>4, <2>1
  <2>5. y[q + (m - 1)] = f[p + (m - 1)]
    BY <1>12
  <2> HIDE DEF q
  <2> QED BY <2>2, <2>3, <2>4, <2>5
<1>13. \A m \in 0 .. e - p : m \in T
  <2>1. e - p \in Nat
    BY <1>3
  <2> HIDE DEF T
  <2> QED BY <1>11, <1>12, <2>1, UpTo
<1>14. y[o + e] = f[e]
  <2>1. e - p \in 0 .. e - p /\ q + (e - p) = o + e /\ p + (e - p) = e
    BY <1>3
  <2>2. e - p \in T
    BY <1>13, <2>1
  <2> QED BY <2>1, <2>2
<1> QED BY <1>1, <1>2, <1>8, <1>14 DEF q
(***************************************************************************)
(* Commands.                                                               *)
(***************************************************************************)

LEMMA PointIs ==
    /\ \A s \in Points : s[1] \in Nat /\ s[2] \in Nat /\ s = <<s[1], s[2]>>
    /\ \A x, y \in Nat : <<x, y>> \in Points
  BY DEF Points

\* g holds b from position o on.
Within(b, g, o) == o + Len(b) <= Len(g) /\ \A k \in 1 .. Len(b) : g[o + k] = b[k]

\* A command is the same command with other bytes around it.
LEMMA RebuildsElsewhere ==
    ASSUME NEW b \in Seq(Byte), NEW g \in Seq(Byte), NEW src,
           NEW x, NEW y, Len(x) \in Nat, Len(y) \in Nat, NEW o \in Nat, NEW w \in Nat,
           Within(b, g, o), Within(x, y, w), NEW p \in Nat, NEW t \in Nat,
           NEW q \in Nat, NEW u \in Nat, Rebuilds(b, src, x, <<p, t>>, <<q, u>>)
    PROVE  Rebuilds(g, src, y, <<o + p, w + t>>, <<o + q, w + u>>)
<1> DEFINE c == decodeInt(b, p)
           cn == c.next
           cv == c.val
           f == decodeInt(b, cn + 1)
           fn == f.next
           fv == f.val
           cc == decodeInt(g, o + p)
           nb == Len(b)
           ng == Len(g)
           nx == Len(x)
           ny == Len(y)
<1>1. nb \in Nat /\ ng \in Nat /\ nx \in Nat /\ ny \in Nat
  OBVIOUS
<1>2. cv \in Nat /\ cn \in Nat /\ cn + 1 \in Nat
  BY decodeIntType, CodecAssumption, SMTT(30) DEF Words
<1>3. fv \in Nat /\ fn \in Nat
  <2> HIDE DEF cn
  <2> QED BY <1>2, decodeIntType, CodecAssumption, SMTT(30) DEF Words
<1>4. /\ cn < nb
      /\ u = t + cv /\ u <= nx
      /\ \/ /\ b[cn + 1] = At
            /\ fn < nb /\ b[fn + 1] = Comma /\ q = fn + 1
            /\ fv + cv <= Len(src)
            /\ \A k \in 1 .. cv : src[fv + k] = x[t + k]
         \/ /\ b[cn + 1] = Colon
            /\ q = cn + 1 + cv /\ q <= nb
            /\ \A k \in 1 .. cv : b[cn + 1 + k] = x[t + k]
  BY DEF Rebuilds
<1>n. /\ cn < nb /\ u = t + cv /\ u <= nx
      /\ o + nb <= ng /\ w + nx <= ny
  BY <1>4 DEF Within
<1>w. /\ \A k \in 1 .. nb : g[o + k] = b[k]
      /\ \A k \in 1 .. nx : y[w + k] = x[k]
  BY DEF Within
<1> HIDE DEF nb, ng, nx, ny, cn, cv, fn, fv
<1>5. cc = [val |-> cv, next |-> o + cn]
  <2>1. o + cn < ng /\ \A k \in p + 1 .. cn + 1 : k \in 1 .. nb
    BY <1>1, <1>2, <1>n
  <2>2. \A k \in p + 1 .. cn + 1 : g[o + k] = b[k]
    BY <1>w, <2>1
  <2>3. cn < nb
    BY <1>n
  <2> QED BY <1>1, <2>1, <2>2, <2>3, DecodeElsewhere, SMTT(30) DEF nb, ng, cn, cv
<1>6. cn + 1 \in 1 .. nb /\ o + (cn + 1) = o + cn + 1 /\ o + cn < ng
      /\ w + u = w + t + cv /\ w + u <= ny
  BY <1>1, <1>2, <1>n
<1>7. g[o + cn + 1] = b[cn + 1]
  BY <1>w, <1>6, SMTT(30)
<1>8. ASSUME NEW k \in 1 .. cv PROVE y[w + t + k] = x[t + k]
  <2>1. t + k \in 1 .. nx /\ w + t + k = w + (t + k)
    BY <1>1, <1>2, <1>n
  <2> QED BY <1>w, <2>1
<1>9. <<o + p, w + t>>[1] = o + p /\ <<o + p, w + t>>[2] = w + t
      /\ <<o + q, w + u>>[1] = o + q /\ <<o + q, w + u>>[2] = w + u
  OBVIOUS
<1>10. cc.next = o + cn /\ cc.val = cv
  BY <1>5
<1>11. CASE b[cn + 1] = At
  <2>1. /\ fn < nb /\ b[fn + 1] = Comma /\ q = fn + 1
        /\ fv + cv <= Len(src)
        /\ \A k \in 1 .. cv : src[fv + k] = x[t + k]
    BY <1>4, <1>11, CodecAssumption
  <2>2. fn < nb /\ q = fn + 1
    BY <2>1
  <2>3. /\ o + fn < ng /\ fn + 1 \in 1 .. nb /\ o + (fn + 1) = o + fn + 1 /\ o + q = o + fn + 1
        /\ \A k \in (cn + 1) + 1 .. fn + 1 : k \in 1 .. nb
    BY <1>1, <1>2, <1>3, <1>n, <2>2
  <2>4. decodeInt(g, o + (cn + 1)) = [val |-> fv, next |-> o + fn]
    <3> DEFINE z == cn + 1
    <3>1. z \in Nat /\ fn < nb /\ o + fn < ng
      BY <1>2, <2>1, <2>3
    <3>2. \A k \in z + 1 .. fn + 1 : g[o + k] = b[k]
      BY <1>w, <2>3
    <3>3. f = decodeInt(b, z)
      OBVIOUS
    <3> HIDE DEF z, f
    <3>4. decodeInt(g, o + z) = [val |-> fv, next |-> o + fn]
      BY <3>1, <3>2, <3>3, DecodeElsewhere, SMTT(30) DEF nb, ng, fn, fv
    <3> QED BY <3>4 DEF z
  <2> DEFINE ff == decodeInt(g, cc.next + 1)
  <2>5. ff.val = fv /\ ff.next = o + fn
    <3>1. cc.next + 1 = o + (cn + 1)
      BY <1>6, <1>10
    <3> QED BY <2>4, <3>1
  <2>6. g[o + fn + 1] = Comma
    BY <1>w, <2>1, <2>3, SMTT(30)
  <2>7. \A k \in 1 .. cv : src[fv + k] = y[w + t + k]
    BY <1>8, <2>1
  <2> HIDE DEF cc, ff
  <2>8. /\ cc.next < Len(g) /\ w + u = w + t + cc.val /\ w + u <= Len(y)
        /\ g[cc.next + 1] = At /\ ff.next < Len(g) /\ g[ff.next + 1] = Comma
        /\ o + q = ff.next + 1 /\ ff.val + cc.val <= Len(src)
        /\ \A k \in 1 .. cc.val : src[ff.val + k] = y[w + t + k]
    <3>1. cc.next < Len(g) /\ w + u = w + t + cc.val /\ w + u <= Len(y) /\ g[cc.next + 1] = At
      BY <1>6, <1>7, <1>10, <1>11 DEF ng, ny
    <3>2. ff.next < Len(g) /\ g[ff.next + 1] = Comma /\ o + q = ff.next + 1
      BY <2>3, <2>5, <2>6 DEF ng
    <3> QED BY <1>10, <2>1, <2>5, <2>7, <3>1, <3>2
  <2> QED BY <1>9, <2>8 DEF Rebuilds, cc, ff
<1>12. CASE b[cn + 1] # At
  <2>1. /\ b[cn + 1] = Colon
        /\ q = cn + 1 + cv /\ q <= nb
        /\ \A k \in 1 .. cv : b[cn + 1 + k] = x[t + k]
    BY <1>4, <1>12
  <2>2. q = cn + 1 + cv /\ q <= nb
    BY <2>1
  <2>3. ASSUME NEW k \in 1 .. cv PROVE g[o + cn + 1 + k] = y[w + t + k]
    <3>1. cn + 1 + k \in 1 .. nb /\ o + cn + 1 + k = o + (cn + 1 + k)
      BY <1>1, <1>2, <2>2
    <3>2. g[o + (cn + 1 + k)] = b[cn + 1 + k]
      BY <1>w, <3>1
    <3> QED BY <1>8, <2>1, <3>1, <3>2
  <2>4. o + q = o + cn + 1 + cv /\ o + q <= ng
    BY <1>1, <1>2, <1>n, <2>2
  <2> HIDE DEF cc
  <2>5. /\ cc.next < Len(g) /\ w + u = w + t + cc.val /\ w + u <= Len(y)
        /\ g[cc.next + 1] = Colon /\ o + q = cc.next + 1 + cc.val /\ o + q <= Len(g)
        /\ \A k \in 1 .. cc.val : g[cc.next + 1 + k] = y[w + t + k]
    <3>1. cc.next < Len(g) /\ w + u = w + t + cc.val /\ w + u <= Len(y) /\ g[cc.next + 1] = Colon
      BY <1>6, <1>7, <1>10, <2>1 DEF ng, ny
    <3>2. o + q = cc.next + 1 + cc.val /\ o + q <= Len(g)
      BY <1>10, <2>4 DEF ng
    <3> QED BY <1>10, <2>3, <3>1, <3>2
  <2> QED BY <1>9, <2>5 DEF Rebuilds, cc
<1> QED BY <1>11, <1>12

\* The number the bytes begin with, and the one they end with.
LEMMA NumberFirst ==
    ASSUME NEW v \in Words, NEW c \in CommandBytes, NEW e \in Seq(Byte)
    PROVE  /\ decodeInt(appendInt(<<>>, v, c) \o e, 0) = [val |-> v, next |-> digitCount(v)]
           /\ (appendInt(<<>>, v, c) \o e)[digitCount(v) + 1] = c
<1> DEFINE b == appendInt(<<>>, v, c) \o e
<1>1. <<>> \in Seq(Byte) /\ Len(<<>>) = 0 /\ v \in Nat
  BY CodecAssumption DEF Words
<1>2. /\ decodeInt(b, Len(<<>>)) = [val |-> v, next |-> Len(<<>>) + digitCount(v)]
      /\ b[Len(<<>>) + digitCount(v) + 1] = c
  <2>1. <<>> \in Seq(Byte)
    BY <1>1
  <2> QED BY <2>1, NumberReadsBack, ZenonT(30)
<1>3. digitCount(v) \in Nat
  BY <1>1, digitCountType
<1>4. Len(<<>>) + digitCount(v) = digitCount(v)
  BY <1>1, <1>3
<1> QED BY <1>1, <1>2, <1>4

LEMMA NumberLast ==
    ASSUME NEW d \in Seq(Byte), NEW v \in Words, NEW c \in CommandBytes
    PROVE  /\ decodeInt(appendInt(d, v, c), Len(d)) = [val |-> v, next |-> Len(d) + digitCount(v)]
           /\ appendInt(d, v, c)[Len(d) + digitCount(v) + 1] = c
<1> DEFINE b == appendInt(d, v, c)
<1>1. <<>> \in Seq(Byte) /\ v \in Nat /\ c \in Byte
  BY CodecAssumption DEF Words
<1>2. b \in Seq(Byte)
  BY <1>1, appendIntType
<1>3. b \o <<>> = b
  BY <1>2
<1>4. LET z == appendInt(d, v, c) \o <<>>
      IN  /\ decodeInt(z, Len(d)) = [val |-> v, next |-> Len(d) + digitCount(v)]
          /\ z[Len(d) + digitCount(v) + 1] = c
  BY <1>1, NumberReadsBack, ZenonT(30)
<1> QED BY <1>3, <1>4

LEMMA CommandElsewhere ==
    ASSUME NEW b \in Seq(Byte), NEW g \in Seq(Byte), NEW src, NEW x \in Seq(Byte),
           NEW y \in Seq(Byte), NEW o \in Nat, NEW w \in Nat, Within(b, g, o), Within(x, y, w),
           NEW s \in Points, NEW r \in Points, Rebuilds(b, src, x, s, r)
    PROVE  Rebuilds(g, src, y, <<o + s[1], w + s[2]>>, <<o + r[1], w + r[2]>>)
<1>1. PICK p \in Nat, t \in Nat : s = <<p, t>>
  BY DEF Points
<1>2. PICK q \in Nat, u \in Nat : r = <<q, u>>
  BY DEF Points
<1>3. Len(x) \in Nat /\ Len(y) \in Nat
  OBVIOUS
<1>4. Rebuilds(g, src, y, <<o + p, w + t>>, <<o + q, w + u>>)
  BY <1>1, <1>2, <1>3, RebuildsElsewhere
<1>5. s[1] = p /\ s[2] = t /\ r[1] = q /\ r[2] = u
  BY <1>1, <1>2
<1> QED BY <1>4, <1>5

LEMMA Joined ==
    ASSUME NEW x \in Seq(Byte), NEW y \in Seq(Byte)
    PROVE  /\ x \o y \in Seq(Byte) /\ Len(x \o y) = Len(x) + Len(y)
           /\ Len(x) \in Nat /\ Len(y) \in Nat
           /\ \A k \in 1 .. Len(x) : (x \o y)[k] = x[k]
           /\ \A k \in 1 .. Len(y) : (x \o y)[Len(x) + k] = y[k]
  OBVIOUS

\* Commands for one stretch and commands for the next.
LEMMA CommandsFollow ==
    ASSUME NEW b \in Seq(Byte), NEW e \in Seq(Byte), NEW src \in Seq(Byte),
           NEW x \in Seq(Byte), NEW y \in Seq(Byte),
           Commands(b, src, x), Commands(e, src, y)
    PROVE  Commands(b \o e, src, x \o y)
<1>1. PICK S \in SUBSET Points :
          /\ <<0, 0>> \in S
          /\ \A s \in S : \/ s = <<Len(b), Len(x)>>
                          \/ \E r \in S : Rebuilds(b, src, x, s, r)
  BY DEF Commands
<1>2. PICK R \in SUBSET Points :
          /\ <<0, 0>> \in R
          /\ \A s \in R : \/ s = <<Len(e), Len(y)>>
                          \/ \E r \in R : Rebuilds(e, src, y, s, r)
  BY DEF Commands
<1> DEFINE g == b \o e
           z == x \o y
           o == Len(b)
           w == Len(x)
           T == {<<o + s[1], w + s[2]>> : s \in R}
<1>3. /\ g \in Seq(Byte) /\ Len(g) = o + Len(e) /\ o \in Nat /\ Len(e) \in Nat
      /\ \A k \in 1 .. o : g[k] = b[k]
      /\ \A k \in 1 .. Len(e) : g[o + k] = e[k]
  BY Joined
<1>4. /\ z \in Seq(Byte) /\ Len(z) = w + Len(y) /\ w \in Nat /\ Len(y) \in Nat
      /\ \A k \in 1 .. w : z[k] = x[k]
      /\ \A k \in 1 .. Len(y) : z[w + k] = y[k]
  BY Joined
<1> HIDE DEF g, z
<1>5. T \in SUBSET Points
  <2>1. ASSUME NEW s \in R PROVE <<o + s[1], w + s[2]>> \in Points
    <3>1. s[1] \in Nat /\ s[2] \in Nat /\ o \in Nat /\ w \in Nat
      BY <1>3, <1>4, PointIs
    <3> HIDE DEF o, w
    <3>2. o + s[1] \in Nat /\ w + s[2] \in Nat
      BY <3>1, SMTT(30)
    <3> QED BY <3>2, PointIs
  <2> QED BY <2>1
<1>6. ASSUME NEW s \in S, s # <<o, w>>
      PROVE  \E r \in S : Rebuilds(g, src, z, s, r)
  <2>1. PICK r \in S : Rebuilds(b, src, x, s, r)
    BY <1>1, <1>6
  <2>2. Rebuilds(g, src, z, <<0 + s[1], 0 + s[2]>>, <<0 + r[1], 0 + r[2]>>)
    <3>1. 0 \in Nat /\ Within(b, g, 0) /\ Within(x, z, 0)
      BY <1>3, <1>4 DEF Within
    <3>2. s \in Points /\ r \in Points
      OBVIOUS
    <3> QED BY <1>3, <1>4, <2>1, <3>1, <3>2, CommandElsewhere
  <2>3. <<0 + s[1], 0 + s[2]>> = s /\ <<0 + r[1], 0 + r[2]>> = r
    <3>1. s[1] \in Nat /\ s[2] \in Nat /\ r[1] \in Nat /\ r[2] \in Nat
          /\ s = <<s[1], s[2]>> /\ r = <<r[1], r[2]>>
      BY PointIs
    <3>2. 0 + s[1] = s[1] /\ 0 + s[2] = s[2] /\ 0 + r[1] = r[1] /\ 0 + r[2] = r[2]
      BY <3>1
    <3> QED BY <3>1, <3>2
  <2> QED BY <2>2, <2>3
<1>7. ASSUME NEW t \in T
      PROVE  t = <<Len(g), Len(z)>> \/ \E r \in T : Rebuilds(g, src, z, t, r)
  <2>1. PICK s \in R : t = <<o + s[1], w + s[2]>>
    OBVIOUS
  <2>2. CASE s = <<Len(e), Len(y)>>
    BY <1>3, <1>4, <2>1, <2>2
  <2>3. CASE s # <<Len(e), Len(y)>>
    <3>1. PICK r \in R : Rebuilds(e, src, y, s, r)
      BY <1>2, <2>3
    <3>2. Rebuilds(g, src, z, <<o + s[1], w + s[2]>>, <<o + r[1], w + r[2]>>)
      <4>1. Within(e, g, o) /\ Within(y, z, w)
        BY <1>3, <1>4 DEF Within
      <4>2. s \in Points /\ r \in Points
        OBVIOUS
      <4> HIDE DEF o, w
      <4> QED BY <1>3, <1>4, <3>1, <4>1, <4>2, CommandElsewhere
    <3> QED BY <2>1, <3>2
  <2> QED BY <2>2, <2>3
<1>8. <<o, w>> \in T
  <2>1. <<o + <<0, 0>>[1], w + <<0, 0>>[2]>> \in T
    BY <1>2
  <2>2. o + 0 = o /\ w + 0 = w
    BY <1>3, <1>4
  <2>3. <<0, 0>>[1] = 0 /\ <<0, 0>>[2] = 0
    OBVIOUS
  <2> QED BY <2>1, <2>2, <2>3
<1> DEFINE A == S \cup T
<1>9. A \in SUBSET Points /\ <<0, 0>> \in A
  BY <1>1, <1>5
<1>10. ASSUME NEW s \in A
       PROVE  s = <<Len(g), Len(z)>> \/ \E r \in A : Rebuilds(g, src, z, s, r)
  <2> HIDE DEF T
  <2>1. CASE s \in T
    BY <1>7, <2>1
  <2>2. CASE s \notin T
    BY <1>6, <1>8, <2>2
  <2> QED BY <2>1, <2>2
<1> HIDE DEF A
<1>11. Commands(g, src, z)
  BY <1>9, <1>10 DEF Commands
<1> QED BY <1>11 DEF g, z

LEMMA NoCommands == ASSUME NEW src PROVE Commands(<<>>, src, <<>>)
<1> DEFINE S == {<<0, 0>>}
<1>1. S \in SUBSET Points /\ <<0, 0>> \in S
  BY PointIs
<1>2. \A s \in S : s = <<Len(<<>>), Len(<<>>)>>
  OBVIOUS
<1> HIDE DEF S
<1> QED BY <1>1, <1>2 DEF Commands

\* A command that rebuilds all there is, and ends the bytes.
LEMMA OneCommand ==
    ASSUME NEW b \in Seq(Byte), NEW src, NEW x \in Seq(Byte),
           Rebuilds(b, src, x, <<0, 0>>, <<Len(b), Len(x)>>)
    PROVE  Commands(b, src, x)
<1> DEFINE S == {<<0, 0>>, <<Len(b), Len(x)>>}
<1>1. Len(b) \in Nat /\ Len(x) \in Nat
  OBVIOUS
<1>2. S \in SUBSET Points /\ <<0, 0>> \in S
  BY <1>1, PointIs
<1>3. \A s \in S : s = <<Len(b), Len(x)>> \/ \E r \in S : Rebuilds(b, src, x, s, r)
  OBVIOUS
<1> HIDE DEF S
<1> QED BY <1>2, <1>3 DEF Commands

\* A literal is what it holds (create.go: AppendCreate).
LEMMA LiteralRebuilds ==
    ASSUME NEW src, NEW t \in Seq(Byte), Len(t) \in Words
    PROVE  /\ appendInt(<<>>, Len(t), Colon) \o t \in Seq(Byte)
           /\ Commands(appendInt(<<>>, Len(t), Colon) \o t, src, t)
<1> DEFINE a == appendInt(<<>>, Len(t), Colon)
           b == a \o t
           n == Len(t)
           d == digitCount(n)
<1>1. <<>> \in Seq(Byte) /\ Len(<<>>) = 0 /\ n \in Nat /\ Colon \in CommandBytes
      /\ Colon \in Byte
  BY CodecAssumption DEF CommandBytes
<1>2. a \in Seq(Byte) /\ Len(a) = d + 1 /\ d \in Nat
  <2>1. d \in Nat
    BY <1>1, digitCountType
  <2>2. a \in Seq(Byte) /\ Len(a) = Len(<<>>) + d + 1
    BY <1>1, appendIntType, appendIntLength
  <2> HIDE DEF d, a
  <2> QED BY <1>1, <2>1, <2>2
<1>3. decodeInt(b, 0) = [val |-> n, next |-> d] /\ b[d + 1] = Colon
  <2>1. /\ decodeInt(b, Len(<<>>)) = [val |-> n, next |-> Len(<<>>) + digitCount(n)]
        /\ b[Len(<<>>) + digitCount(n) + 1] = Colon
    BY <1>1, NumberReadsBack, ZenonT(30)
  <2>2. Len(<<>>) + digitCount(n) = d /\ Len(<<>>) = 0
    BY <1>2
  <2> HIDE DEF b, d
  <2> QED BY <2>1, <2>2
<1> HIDE DEF a
<1>4. /\ b \in Seq(Byte) /\ Len(b) = Len(a) + n
      /\ \A k \in 1 .. n : b[Len(a) + k] = t[k]
  BY <1>2, Joined
<1> HIDE DEF b, n, d
<1> DEFINE c == decodeInt(b, 0)
<1>5. c.val = n /\ c.next = d
  BY <1>3
<1>6. Rebuilds(b, src, t, <<0, 0>>, <<Len(b), n>>)
  <2> HIDE DEF c
  <2>1. c.next < Len(b) /\ n = 0 + c.val /\ n <= Len(t)
    BY <1>1, <1>2, <1>4, <1>5 DEF n
  <2>2. b[c.next + 1] = Colon /\ Len(b) = c.next + 1 + c.val /\ Len(b) <= Len(b)
    BY <1>1, <1>2, <1>3, <1>4, <1>5
  <2>3. \A k \in 1 .. c.val : b[c.next + 1 + k] = t[0 + k]
    BY <1>1, <1>2, <1>4, <1>5
  <2>4. <<0, 0>>[1] = 0 /\ <<0, 0>>[2] = 0 /\ <<Len(b), n>>[1] = Len(b) /\ <<Len(b), n>>[2] = n
    OBVIOUS
  <2> QED BY <2>1, <2>2, <2>3, <2>4 DEF Rebuilds, c
<1>7. Commands(b, src, t)
  BY <1>4, <1>6, OneCommand DEF n
<1> QED BY <1>4, <1>7 DEF a, b, n

\* A copy is what it copies (create.go: AppendCreate).
LEMMA CopyRebuilds ==
    ASSUME NEW src \in Seq(Byte), NEW n \in Words, NEW o \in Words, o + n <= Len(src)
    PROVE  /\ appendInt(appendInt(<<>>, n, At), o, Comma) \in Seq(Byte)
           /\ SubSeq(src, o + 1, o + n) \in Seq(Byte)
           /\ Len(SubSeq(src, o + 1, o + n)) = n
           /\ Commands(appendInt(appendInt(<<>>, n, At), o, Comma), src,
                       SubSeq(src, o + 1, o + n))
<1> DEFINE a == appendInt(<<>>, n, At)
           b == appendInt(a, o, Comma)
           d == digitCount(n)
           f == digitCount(o)
           D == digitsOf(o)
           t == SubSeq(src, o + 1, o + n)
<1>1. <<>> \in Seq(Byte) /\ Len(<<>>) = 0 /\ n \in Nat /\ o \in Nat
      /\ At \in CommandBytes /\ Comma \in CommandBytes /\ At \in Byte /\ Comma \in Byte
  BY CodecAssumption DEF CommandBytes, Words
<1>2. d \in Nat /\ f \in Nat
  BY <1>1, digitCountType
<1>3. a \in Seq(Byte) /\ Len(a) = d + 1
  <2>1. a \in Seq(Byte) /\ Len(a) = Len(<<>>) + d + 1
    BY <1>1, appendIntType, appendIntLength
  <2> HIDE DEF d, a
  <2> QED BY <1>1, <1>2, <2>1
<1>4. b \in Seq(Byte) /\ Len(b) = Len(a) + f + 1
  <2> HIDE DEF a
  <2> QED BY <1>1, <1>3, appendIntType, appendIntLength
<1>5. decodeInt(b, 0) = [val |-> n, next |-> d] /\ b[d + 1] = At
  <2>1. D \in Seq(Byte) /\ b = a \o Append(D, Comma)
    BY <1>1, appendIntIs
  <2>2. Append(D, Comma) \in Seq(Byte)
    <3> HIDE DEF D
    <3> QED BY <1>1, <2>1
  <2> HIDE DEF D, a, b
  <2>3. b = appendInt(<<>>, n, At) \o Append(D, Comma)
    BY <2>1 DEF a
  <2> HIDE DEF d
  <2> DEFINE E == Append(D, Comma)
  <2> HIDE DEF E
  <2>5. n \in Words /\ At \in CommandBytes /\ E \in Seq(Byte)
    BY <1>1, <2>2 DEF E
  <2>6. /\ decodeInt(appendInt(<<>>, n, At) \o E, 0) = [val |-> n, next |-> digitCount(n)]
        /\ (appendInt(<<>>, n, At) \o E)[digitCount(n) + 1] = At
    BY <2>5, NumberFirst
  <2>4. decodeInt(b, 0) = [val |-> n, next |-> digitCount(n)] /\ b[digitCount(n) + 1] = At
    BY <2>3, <2>6, Zenon DEF E
  <2> QED BY <2>4 DEF d
<1>6. decodeInt(b, Len(a)) = [val |-> o, next |-> Len(a) + f] /\ b[Len(a) + f + 1] = Comma
  <2> HIDE DEF a
  <2> QED BY <1>1, <1>3, NumberLast
<1>7. t \in Seq(Byte) /\ Len(t) = n /\ \A k \in 1 .. n : t[k] = src[o + k]
  <2>1. o + 1 \in 1 .. Len(src) + 1 /\ o + n \in o .. Len(src)
    BY <1>1
  <2> QED BY <1>1, <2>1
<1> HIDE DEF a, b, d, f, t
<1> DEFINE c == decodeInt(b, 0)
           e == decodeInt(b, c.next + 1)
<1>8. c.val = n /\ c.next = d
  BY <1>5
<1>9. e.val = o /\ e.next = d + 1 + f
  <2> HIDE DEF c
  <2>1. c.next + 1 = Len(a)
    BY <1>3, <1>8
  <2>2. e = [val |-> o, next |-> Len(a) + f]
    BY <1>6, <2>1
  <2> HIDE DEF e
  <2> QED BY <1>3, <2>2
<1>10. Rebuilds(b, src, t, <<0, 0>>, <<Len(b), n>>)
  <2> HIDE DEF c, e
  <2>1. c.next < Len(b) /\ n = 0 + c.val /\ n <= Len(t)
    BY <1>1, <1>2, <1>3, <1>4, <1>7, <1>8
  <2>2. b[c.next + 1] = At
    BY <1>5, <1>8
  <2>3. e.next < Len(b) /\ b[e.next + 1] = Comma /\ Len(b) = e.next + 1
    BY <1>2, <1>3, <1>4, <1>6, <1>9
  <2>4. e.val + c.val <= Len(src)
    BY <1>8, <1>9
  <2>5. \A k \in 1 .. c.val : src[e.val + k] = t[0 + k]
    BY <1>1, <1>7, <1>8, <1>9
  <2>6. <<0, 0>>[1] = 0 /\ <<0, 0>>[2] = 0 /\ <<Len(b), n>>[1] = Len(b) /\ <<Len(b), n>>[2] = n
    OBVIOUS
  <2> QED BY <2>1, <2>2, <2>3, <2>4, <2>5, <2>6 DEF Rebuilds, c, e
<1>11. Commands(b, src, t)
  BY <1>4, <1>7, <1>10, OneCommand
<1> QED BY <1>4, <1>7, <1>11 DEF a, b, t

\* A header, commands that rebuild the target, and its checksum are a delta to it.
THEOREM CommandsDescribe ==
    ASSUME NEW b \in Seq(Byte), NEW src \in Seq(Byte), NEW x \in Seq(Byte), Len(x) \in Words,
           Commands(b, src, x)
    PROVE  LET d == appendInt(appendInt(<<>>, Len(x), NewLine) \o b, checksum(x), Semi)
           IN  d \in Seq(Byte) /\ Describes(d, src, x)
<1> DEFINE a == appendInt(<<>>, Len(x), NewLine)
           ab == a \o b
           d == appendInt(ab, checksum(x), Semi)
           n == Len(x)
           h == digitCount(n)
           D == digitsOf(checksum(x))
           t == Append(D, Semi)
           o == Len(a)
<1>1. <<>> \in Seq(Byte) /\ Len(<<>>) = 0 /\ n \in Nat /\ n \in Words
      /\ NewLine \in CommandBytes /\ Semi \in CommandBytes /\ NewLine \in Byte /\ Semi \in Byte
      /\ Len(b) \in Nat
  BY CodecAssumption DEF CommandBytes
<1>2. checksum(x) \in Words /\ checksum(x) \in Nat
  BY checksumType, CodecAssumption DEF Words
<1>3. a \in Seq(Byte) /\ o = h + 1 /\ h \in Nat
  <2>1. h \in Nat
    BY <1>1, digitCountType
  <2>2. a \in Seq(Byte) /\ Len(a) = Len(<<>>) + h + 1
    BY <1>1, appendIntType, appendIntLength
  <2> HIDE DEF h, a
  <2> QED BY <1>1, <2>1, <2>2
<1>4. D \in Seq(Byte) /\ d = ab \o t /\ t \in Seq(Byte)
  <2>1. D \in Seq(Byte) /\ d = ab \o t
    BY <1>2, appendIntIs
  <2> HIDE DEF D
  <2>2. t \in Seq(Byte)
    BY <1>1, <2>1
  <2> HIDE DEF ab, t, d
  <2> QED BY <2>1, <2>2
<1>5. ab \in Seq(Byte) /\ Len(ab) = o + Len(b) /\ o \in Nat
      /\ \A k \in 1 .. Len(b) : ab[o + k] = b[k]
  <2> HIDE DEF a
  <2> QED BY <1>3, Joined
<1>6. /\ d \in Seq(Byte) /\ o + Len(b) <= Len(d)
      /\ \A k \in 1 .. Len(b) : d[o + k] = b[k]
      /\ \E e \in Seq(Byte) : d = a \o e
  <2> DEFINE e == b \o t
  <2>1. e \in Seq(Byte)
    <3> HIDE DEF t
    <3> QED BY <1>4, Joined
  <2>2. (a \o b) \o t = a \o (b \o t)
    <3> HIDE DEF a, t
    <3> QED BY <1>3, <1>4, SMTT(30)
  <2>3. d = a \o e
    BY <1>4, <2>2
  <2>4. /\ d \in Seq(Byte) /\ Len(d) = Len(ab) + Len(t) /\ Len(t) \in Nat
        /\ \A k \in 1 .. Len(ab) : d[k] = ab[k]
    <3> HIDE DEF ab, t, d
    <3>1. ab \in Seq(Byte) /\ t \in Seq(Byte) /\ d = ab \o t
      BY <1>4, <1>5
    <3> QED BY ONLY <3>1, Joined
  <2>5. \A k \in 1 .. Len(b) : o + k \in 1 .. Len(ab)
    <3> HIDE DEF ab, o
    <3> QED BY <1>1, <1>5
  <2>6. o + Len(b) <= Len(d)
    <3> HIDE DEF ab, t, d, o
    <3> QED BY <1>1, <1>5, <2>4
  <2> HIDE DEF ab, t, d, o
  <2> QED BY <1>5, <2>1, <2>3, <2>4, <2>5, <2>6
<1>7. decodeInt(d, 0) = [val |-> n, next |-> h] /\ d[h + 1] = NewLine
  <2>1. PICK e \in Seq(Byte) : d = a \o e
    BY <1>6
  <2> HIDE DEF a, d
  <2>2. d = appendInt(<<>>, n, NewLine) \o e
    BY <2>1 DEF a
  <2> HIDE DEF n, h
  <2>4. n \in Words /\ NewLine \in CommandBytes
    BY <1>1
  <2>5. /\ decodeInt(appendInt(<<>>, n, NewLine) \o e, 0) = [val |-> n, next |-> digitCount(n)]
        /\ (appendInt(<<>>, n, NewLine) \o e)[digitCount(n) + 1] = NewLine
    BY <2>4, NumberFirst
  <2>3. decodeInt(d, 0) = [val |-> n, next |-> digitCount(n)] /\ d[digitCount(n) + 1] = NewLine
    BY <2>2, <2>5, Zenon
  <2> QED BY <2>3 DEF h
<1> DEFINE z == Len(ab)
           v == checksum(x)
           f == digitCount(v)
<1>8. decodeInt(d, z) = [val |-> v, next |-> z + f] /\ d[z + f + 1] = Semi
      /\ Len(d) = z + f + 1 /\ f \in Nat /\ z \in Nat
  <2> HIDE DEF ab, D
  <2>1. v \in Words /\ Semi \in CommandBytes
    BY <1>1, <1>2
  <2>2. decodeInt(d, z) = [val |-> v, next |-> z + f] /\ d[z + f + 1] = Semi
    <3>1. d = appendInt(ab, v, Semi)
      OBVIOUS
    <3> HIDE DEF d, v, z, f
    <3>3. ab \in Seq(Byte)
      BY <1>5
    <3>4. /\ decodeInt(appendInt(ab, v, Semi), Len(ab))
                = [val |-> v, next |-> Len(ab) + digitCount(v)]
          /\ appendInt(ab, v, Semi)[Len(ab) + digitCount(v) + 1] = Semi
      BY <2>1, <3>3, NumberLast
    <3>2. decodeInt(d, Len(ab)) = [val |-> v, next |-> Len(ab) + digitCount(v)]
          /\ d[Len(ab) + digitCount(v) + 1] = Semi
      BY <3>1, <3>4, Zenon
    <3> QED BY <3>2 DEF z, f
  <2>3. Len(d) = Len(ab) + f + 1
    BY <1>1, <1>2, <1>5, appendIntLength
  <2>4. f \in Nat /\ z \in Nat
    BY <1>2, <1>5, digitCountType
  <2> QED BY <2>2, <2>3, <2>4
<1>9. PICK S \in SUBSET Points :
          /\ <<0, 0>> \in S
          /\ \A s \in S : \/ s = <<Len(b), n>>
                          \/ \E r \in S : Rebuilds(b, src, x, s, r)
  BY DEF Commands
<1> HIDE DEF a, ab, d, h, D, t, z, v, f
<1> DEFINE T == {<<o + s[1], 0 + s[2]>> : s \in S}
<1>10. T \in SUBSET Points
  <2>1. ASSUME NEW s \in S PROVE <<o + s[1], 0 + s[2]>> \in Points
    <3>1. s[1] \in Nat /\ s[2] \in Nat /\ o \in Nat
      BY <1>5, PointIs
    <3> HIDE DEF o
    <3>2. o + s[1] \in Nat /\ 0 + s[2] \in Nat
      BY <3>1
    <3> QED BY <3>2, PointIs
  <2> QED BY <2>1
<1>11. <<h + 1, 0>> \in T
  <2>1. <<o + <<0, 0>>[1], 0 + <<0, 0>>[2]>> \in T
    BY <1>9
  <2>2. o + 0 = h + 1 /\ 0 + 0 = 0
    BY <1>3, <1>5
  <2>3. <<0, 0>>[1] = 0 /\ <<0, 0>>[2] = 0
    OBVIOUS
  <2> HIDE DEF o
  <2> QED BY <2>1, <2>2, <2>3
<1>12. ASSUME NEW q \in T
       PROVE  Ends(d, x, q) \/ \E r \in T : Rebuilds(d, src, x, q, r)
  <2>1. PICK s \in S : q = <<o + s[1], 0 + s[2]>>
    OBVIOUS
  <2>2. CASE s = <<Len(b), n>>
    <3>1. q = <<z, n>>
      <4>1. s[1] = Len(b) /\ s[2] = n /\ 0 + n = n
        BY <1>1, <2>2
      <4>2. o + Len(b) = z
        BY <1>5 DEF z
      <4> QED BY <2>1, <4>1, <4>2
    <3>2. q[1] = z /\ q[2] = n
      BY <3>1
    <3>3. decodeInt(d, z).next = z + f /\ decodeInt(d, z).val = v /\ z + f < Len(d)
      BY <1>8
    <3> QED BY <1>8, <3>2, <3>3 DEF Ends, v
  <2>3. CASE s # <<Len(b), n>>
    <3>1. PICK r \in S : Rebuilds(b, src, x, s, r)
      BY <1>9, <2>3
    <3>2. Rebuilds(d, src, x, <<o + s[1], 0 + s[2]>>, <<o + r[1], 0 + r[2]>>)
      <4>1. 0 \in Nat /\ Within(x, x, 0) /\ Within(b, d, o)
        BY <1>1, <1>6, SMTT(30) DEF Within
      <4>2. s \in Points /\ r \in Points
        OBVIOUS
      <4> HIDE DEF o
      <4> QED BY <1>5, <1>6, <3>1, <4>1, <4>2, CommandElsewhere
    <3> QED BY <2>1, <3>2
  <2> QED BY <2>2, <2>3
<1> HIDE DEF T, o
<1>13. Trail(T, d, src, x)
  <2> DEFINE c == decodeInt(d, 0)
  <2>1. c.next = h /\ c.val = n /\ h < Len(d) /\ d[c.next + 1] = NewLine
    <3>1. c.next = h /\ c.val = n
      BY <1>7
    <3>2. h < Len(d)
      BY <1>1, <1>3, <1>5, <1>6
    <3> QED BY <1>7, <3>1, <3>2
  <2>2. <<c.next + 1, 0>> \in T
    BY <1>11, <2>1
  <2> HIDE DEF c
  <2> QED BY <1>12, <2>1, <2>2 DEF Trail, c, n
<1>14. Describes(d, src, x)
  BY <1>10, <1>13 DEF Describes
<1> QED BY <1>6, <1>14 DEF d, ab, a

(***************************************************************************)
(* Where two texts agree.                                                  *)
(***************************************************************************)

LEMMA commonPrefixSame ==
    ASSUME NEW a \in Seq(Byte), NEW ai \in 0 .. Len(a), NEW b \in Seq(Byte), NEW bi \in 0 .. Len(b)
    PROVE  /\ commonPrefixLen(a, ai, b, bi) \in Nat
           /\ ai + commonPrefixLen(a, ai, b, bi) <= Len(a)
           /\ bi + commonPrefixLen(a, ai, b, bi) <= Len(b)
           /\ \A j \in 0 .. commonPrefixLen(a, ai, b, bi) - 1 : a[ai + j + 1] = b[bi + j + 1]
<1> DEFINE n == min(Len(a) - ai, Len(b) - bi)
           Same(j) == a[ai + j + 1] = b[bi + j + 1]
           T == {j \in Nat : Same(j)}
           Is(k) == (\A j \in 0 .. k - 1 : Same(j)) /\ (k < n => ~ Same(k))
           len == commonPrefixLen(a, ai, b, bi)
<1>1. n \in Nat /\ n <= Len(a) - ai /\ n <= Len(b) - bi
  BY DEF min
<1>2. len = CHOOSE k \in 0 .. n : Is(k)
  BY DEF commonPrefixLen
<1> HIDE DEF n, Same
<1>3. PICK k \in 0 .. n : (\A j \in 0 .. k - 1 : j \in T) /\ (k < n => k \notin T)
  BY <1>1, FirstOutside
<1>4. Is(k)
  BY <1>1, <1>3
<1>5. len \in 0 .. n /\ Is(len)
  <2> HIDE DEF Is, len
  <2> QED BY <1>2, <1>4
<1> HIDE DEF len
<1>6. \A j \in 0 .. len - 1 : a[ai + j + 1] = b[bi + j + 1]
  BY <1>5 DEF Same
<1>7. len \in Nat /\ ai + len <= Len(a) /\ bi + len <= Len(b)
  BY <1>1, <1>5
<1> QED BY <1>6, <1>7 DEF len

LEMMA commonSuffixSame ==
    ASSUME NEW a, NEW ai, NEW b, NEW bi, NEW n \in Nat
    PROVE  /\ commonSuffixLen(a, ai, b, bi, n) \in 0 .. n
           /\ \A j \in 0 .. commonSuffixLen(a, ai, b, bi, n) - 1 : a[ai - j] = b[bi - j]
<1> DEFINE Same(j) == a[ai - j] = b[bi - j]
           T == {j \in Nat : Same(j)}
           Is(k) == (\A j \in 0 .. k - 1 : Same(j)) /\ (k < n => ~ Same(k))
           len == commonSuffixLen(a, ai, b, bi, n)
<1>1. len = CHOOSE k \in 0 .. n : Is(k)
  BY DEF commonSuffixLen
<1> HIDE DEF Same
<1>2. PICK k \in 0 .. n : (\A j \in 0 .. k - 1 : j \in T) /\ (k < n => k \notin T)
  BY FirstOutside
<1>3. Is(k)
  BY <1>2
<1>4. len \in 0 .. n /\ Is(len)
  <2> HIDE DEF Is, len
  <2> QED BY <1>1, <1>3
<1> HIDE DEF len
<1>5. \A j \in 0 .. len - 1 : a[ai - j] = b[bi - j]
  BY <1>4 DEF Same
<1> QED BY <1>4, <1>5 DEF len

\* The k bytes up to a place in each are the same; the f after it are.
AgreeBefore(a, ai, b, bi, k) == \A j \in 0 .. k - 1 : a[ai - j] = b[bi - j]
AgreeAfter(a, ai, b, bi, f) == \A j \in 0 .. f - 1 : a[ai + j + 1] = b[bi + j + 1]

\* What lies k bytes before and f after a place in each is the same: from k before on.
LEMMA SameAround ==
    ASSUME NEW a, NEW b, NEW ai \in Nat, NEW bi \in Nat, NEW k \in Nat, NEW f \in Nat,
           k <= ai, k <= bi, AgreeBefore(a, ai, b, bi, k), AgreeAfter(a, ai, b, bi, f)
    PROVE  AgreeAfter(a, ai - k, b, bi - k, f + k)
<1>1. /\ \A j \in 0 .. k - 1 : a[ai - j] = b[bi - j]
      /\ \A j \in 0 .. f - 1 : a[ai + j + 1] = b[bi + j + 1]
  BY DEF AgreeBefore, AgreeAfter
<1> SUFFICES ASSUME NEW j \in 0 .. (f + k) - 1
             PROVE  a[(ai - k) + j + 1] = b[(bi - k) + j + 1]
  BY DEF AgreeAfter
<1>2. CASE j < k
  <2>1. /\ k - j - 1 \in 0 .. k - 1 /\ ai - (k - j - 1) = (ai - k) + j + 1
        /\ bi - (k - j - 1) = (bi - k) + j + 1
    BY <1>2
  <2>2. a[ai - (k - j - 1)] = b[bi - (k - j - 1)]
    BY <1>1, <2>1
  <2> QED BY <2>1, <2>2
<1>3. CASE j >= k
  <2>1. /\ j - k \in 0 .. f - 1 /\ ai + (j - k) + 1 = (ai - k) + j + 1
        /\ bi + (j - k) + 1 = (bi - k) + j + 1
    BY <1>3
  <2>2. a[ai + (j - k) + 1] = b[bi + (j - k) + 1]
    BY <1>1, <2>1
  <2> QED BY <2>1, <2>2
<1> QED BY <1>2, <1>3
=============================================================================
