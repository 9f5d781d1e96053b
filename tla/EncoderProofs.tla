--------------------------- MODULE EncoderProofs ----------------------------
(***************************************************************************)
(* Theorems about Encoder, for every source and target.                    *)
(***************************************************************************)
EXTENDS EncoderAgainstC, ReaderProofs

(***************************************************************************)
(* The two halves of a block's hash fit their range, and a window's hash   *)
(* carried along from place to place is, at each, the one computed anew.   *)
(* Both halves are sums over the window.  sumsA and sumsB are their partial *)
(* sums: those of a window and of the next one differ by what its oldest   *)
(* byte adds to each.                                                      *)
(***************************************************************************)

sumsA(z, pos) ==
    CHOOSE g : g = [k \in 0 .. hashWindow |-> IF k = 0 THEN 0 ELSE g[k - 1] + z[pos + k]]

sumsB(z, pos) ==
    CHOOSE g : g = [k \in 0 .. hashWindow |->
                      IF k = 0 THEN 0
                      ELSE g[k - 1] + (hashWindow + 1 - k) * z[pos + k]]

halfA(z, pos) == sumsA(z, pos)[hashWindow]
halfB(z, pos) == sumsB(z, pos)[hashWindow]

LEMMA blockHashIs ==
    ASSUME NEW z, NEW pos
    PROVE  blockHash(z, pos) = halfA(z, pos) + halfB(z, pos) * Half
  BY DEF blockHash, halfA, halfB, sumsA, sumsB

LEMMA WindowIs == /\ hashWindow \in Nat /\ hashWindow > 0
                  /\ Half \in Nat /\ Half > 0
                  /\ ByteCard \in Nat
  BY HashAssumption, CodecAssumption

\* A window of z, from pos on.
Fits(z, pos) == z \in Seq(Byte) /\ pos \in Nat /\ pos + hashWindow <= Len(z)

LEMMA WindowBytes ==
    ASSUME NEW z, NEW pos, Fits(z, pos), NEW k \in 1 .. hashWindow
    PROVE  z[pos + k] \in Nat /\ z[pos + k] <= ByteCard - 1
<1>1. pos + k \in 1 .. Len(z)
  BY WindowIs DEF Fits
<1>2. z[pos + k] \in Byte
  BY <1>1 DEF Fits
<1> QED BY <1>2, WindowIs DEF Byte

LEMMA sumsAIs ==
    ASSUME NEW z, NEW pos, Fits(z, pos)
    PROVE  sumsA(z, pos) =
             [k \in 0 .. hashWindow |-> IF k = 0 THEN 0 ELSE sumsA(z, pos)[k - 1] + z[pos + k]]
<1> DEFINE W == hashWindow
           Step(g, k) == IF k = 0 THEN 0 ELSE g[k - 1] + z[pos + k]
           st == [x \in (1 .. W) \X Nat |-> x[2] + z[pos + x[1]]]
<1>1. \A k \in 1 .. W : z[pos + k] \in Nat
  BY WindowBytes
<1>2. st \in [(1 .. W) \X Nat -> Nat]
  BY <1>1
<1>3. \A k \in 1 .. W, s \in Nat : st[<<k, s>>] = s + z[pos + k]
  OBVIOUS
<1> HIDE DEF st
<1>4. Iterable(W, Nat, 0, st)
  BY <1>2, WindowIs, IterationExists
<1>5. PICK f \in [0 .. W -> Nat] : f[0] = 0 /\ \A k \in 1 .. W : f[k] = st[<<k, f[k - 1]>>]
  BY <1>4 DEF Iterable
<1>6. ASSUME NEW k \in 0 .. W PROVE f[k] = Step(f, k)
  <2>1. CASE k = 0
    BY <1>5, <2>1
  <2>2. CASE k # 0
    <3>1. k \in 1 .. W /\ k - 1 \in 0 .. W
      BY <2>2, WindowIs
    <3>2. f[k] = f[k - 1] + z[pos + k]
      BY <1>3, <1>5, <3>1
    <3> QED BY <2>2, <3>2
  <2> QED BY <2>1, <2>2
<1>7. f = [k \in 0 .. W |-> Step(f, k)]
  <2> HIDE DEF Step
  <2> QED BY <1>6
<1>8. sumsA(z, pos) = CHOOSE g : g = [k \in 0 .. W |-> Step(g, k)]
  BY DEF sumsA
<1>9. sumsA(z, pos) = [k \in 0 .. W |-> Step(sumsA(z, pos), k)]
  <2> HIDE DEF Step
  <2> QED BY <1>7, <1>8
<1> QED BY <1>9

\* What a byte of the window adds to the second half.
LEMMA WeightIs ==
    ASSUME NEW z, NEW pos, Fits(z, pos), NEW k \in 1 .. hashWindow
    PROVE  /\ (hashWindow + 1 - k) * z[pos + k] \in Nat
           /\ (hashWindow + 1 - k) * z[pos + k] <= (hashWindow + 1 - k) * (ByteCard - 1)
<1>1. z[pos + k] \in Nat /\ z[pos + k] <= ByteCard - 1
  BY WindowBytes
<1>2. hashWindow + 1 - k \in Nat /\ ByteCard - 1 \in Nat
  BY <1>1, WindowIs
<1>3. \A x, y, w \in Nat : x <= y => w * x \in Nat /\ w * x <= w * y
  OBVIOUS
<1> QED BY <1>1, <1>2, <1>3

LEMMA sumsBIs ==
    ASSUME NEW z, NEW pos, Fits(z, pos)
    PROVE  sumsB(z, pos) =
             [k \in 0 .. hashWindow |->
                IF k = 0 THEN 0
                ELSE sumsB(z, pos)[k - 1] + (hashWindow + 1 - k) * z[pos + k]]
<1> DEFINE W == hashWindow
           w(k) == (W + 1 - k) * z[pos + k]
           Step(g, k) == IF k = 0 THEN 0 ELSE g[k - 1] + w(k)
           st == [x \in (1 .. W) \X Nat |-> x[2] + w(x[1])]
<1>1. \A k \in 1 .. W : w(k) \in Nat
  BY WeightIs
<1>8. sumsB(z, pos) = CHOOSE g : g = [k \in 0 .. W |-> Step(g, k)]
  BY DEF sumsB
<1> HIDE DEF w
<1>2. st \in [(1 .. W) \X Nat -> Nat]
  BY <1>1
<1>3. \A k \in 1 .. W, s \in Nat : st[<<k, s>>] = s + w(k)
  OBVIOUS
<1> HIDE DEF st
<1>4. Iterable(W, Nat, 0, st)
  BY <1>2, WindowIs, IterationExists
<1>5. PICK f \in [0 .. W -> Nat] : f[0] = 0 /\ \A k \in 1 .. W : f[k] = st[<<k, f[k - 1]>>]
  BY <1>4 DEF Iterable
<1>6. ASSUME NEW k \in 0 .. W PROVE f[k] = Step(f, k)
  <2>1. CASE k = 0
    BY <1>5, <2>1
  <2>2. CASE k # 0
    <3>1. k \in 1 .. W /\ k - 1 \in 0 .. W
      BY <2>2, WindowIs
    <3>2. f[k] = f[k - 1] + w(k)
      BY <1>3, <1>5, <3>1
    <3> QED BY <2>2, <3>2
  <2> QED BY <2>1, <2>2
<1>7. f = [k \in 0 .. W |-> Step(f, k)]
  <2> HIDE DEF Step
  <2> QED BY <1>6
<1>9. sumsB(z, pos) = [k \in 0 .. W |-> Step(sumsB(z, pos), k)]
  <2> HIDE DEF Step
  <2> QED BY <1>7, <1>8
<1> QED BY <1>9 DEF w

\* The sums, one entry from the one before.
LEMMA SumsStep ==
    ASSUME NEW z, NEW pos, Fits(z, pos), NEW k \in 1 .. hashWindow
    PROVE  /\ sumsA(z, pos)[0] = 0 /\ sumsB(z, pos)[0] = 0
           /\ sumsA(z, pos)[k] = sumsA(z, pos)[k - 1] + z[pos + k]
           /\ sumsB(z, pos)[k] = sumsB(z, pos)[k - 1] + (hashWindow + 1 - k) * z[pos + k]
<1>1. 0 \in 0 .. hashWindow /\ k \in 0 .. hashWindow /\ k # 0
  BY WindowIs
<1> DEFINE a == sumsA(z, pos)
           b == sumsB(z, pos)
<1>2. a = [m \in 0 .. hashWindow |-> IF m = 0 THEN 0 ELSE a[m - 1] + z[pos + m]]
  BY sumsAIs
<1>3. b = [m \in 0 .. hashWindow |->
             IF m = 0 THEN 0 ELSE b[m - 1] + (hashWindow + 1 - m) * z[pos + m]]
  BY sumsBIs
<1> HIDE DEF a, b
<1>4. a[0] = 0 /\ a[k] = a[k - 1] + z[pos + k]
  BY <1>1, <1>2
<1> DEFINE w(m) == (hashWindow + 1 - m) * z[pos + m]
<1>5. b = [m \in 0 .. hashWindow |-> IF m = 0 THEN 0 ELSE b[m - 1] + w(m)]
  BY <1>3
<1> HIDE DEF w
<1>6. b[0] = 0 /\ b[k] = b[k - 1] + w(k)
  BY <1>1, <1>5
<1> QED BY <1>4, <1>6 DEF a, b, w

\* How large the sums can have become after k bytes.
LEMMA SumsBound ==
    ASSUME NEW z, NEW pos, Fits(z, pos), NEW k \in 0 .. hashWindow
    PROVE  /\ sumsA(z, pos)[k] \in Nat /\ sumsA(z, pos)[k] <= k * (ByteCard - 1)
           /\ sumsB(z, pos)[k] \in Nat
           /\ 2 * sumsB(z, pos)[k] <= (ByteCard - 1) * (k * (2 * hashWindow + 1 - k))
<1> DEFINE W == hashWindow
           M == ByteCard - 1
           a == sumsA(z, pos)
           b == sumsB(z, pos)
           InA == {m \in Nat : a[m] \in Nat /\ a[m] <= m * M}
           InB == {m \in Nat : b[m] \in Nat /\ 2 * b[m] <= M * (m * (2 * W + 1 - m))}
<1>0. 1 \in 1 .. W /\ W \in Nat /\ M \in Nat
  <2>1. 1 \in 1 .. W
    BY WindowIs
  <2>2. z[pos + 1] \in Nat /\ z[pos + 1] <= ByteCard - 1
    BY <2>1, WindowBytes
  <2> QED BY <2>1, <2>2, WindowIs
<1>1. 0 \in InA /\ 0 \in InB
  <2>1. a[0] = 0 /\ b[0] = 0
    BY <1>0, SumsStep
  <2>2. 0 * M = 0 /\ M * (0 * (2 * W + 1 - 0)) = 0
    BY <1>0
  <2> HIDE DEF a, b, M
  <2> QED BY <2>1, <2>2
<1>2. ASSUME NEW m \in 1 .. W, m - 1 \in InA PROVE m \in InA
  <2>1. a[m] = a[m - 1] + z[pos + m]
    BY SumsStep
  <2>2. z[pos + m] \in Nat /\ z[pos + m] <= M
    BY WindowBytes
  <2>3. a[m - 1] \in Nat /\ a[m - 1] <= (m - 1) * M
    BY <1>2
  <2> HIDE DEF a, M
  <2>4. m * M = (m - 1) * M + M
    BY <1>0
  <2>5. m \in Nat /\ m * M \in Nat /\ (m - 1) * M \in Nat
    BY <1>0
  <2> QED BY <1>0, <2>1, <2>2, <2>3, <2>4, <2>5
<1>3. ASSUME NEW m \in 1 .. W, m - 1 \in InB PROVE m \in InB
  <2> DEFINE w == (W + 1 - m) * z[pos + m]
             x == (W + 1 - m) * M
             p == M * ((m - 1) * (2 * W + 1 - (m - 1)))
             q == M * (m * (2 * W + 1 - m))
  <2>1. b[m] = b[m - 1] + w
    BY SumsStep
  <2>2. w \in Nat /\ w <= x
    BY WeightIs
  <2>3. b[m - 1] \in Nat /\ 2 * b[m - 1] <= p
    BY <1>3
  <2>4. p + 2 * x = q /\ p \in Int /\ x \in Int /\ q \in Int
    <3> HIDE DEF M
    <3> QED BY <1>0
  <2>5. b[m] \in Nat /\ 2 * b[m] <= q
    <3> HIDE DEF b, w, x, p, q
    <3> QED BY <2>1, <2>2, <2>3, <2>4
  <2> QED BY <2>5
<1>4. \A m \in 0 .. W : m \in InA
  <2> HIDE DEF InA
  <2> QED BY <1>0, <1>1, <1>2, UpTo
<1>5. \A m \in 0 .. W : m \in InB
  <2> HIDE DEF InB
  <2> QED BY <1>0, <1>1, <1>3, UpTo
<1> QED BY <1>4, <1>5

\* Neither half of a block's hash exceeds its range, so packing them loses nothing
\* (hash.go: blockHash).
THEOREM HalvesFit ==
    ASSUME NEW z, NEW pos, Fits(z, pos)
    PROVE  halfA(z, pos) \in 0 .. Half - 1 /\ halfB(z, pos) \in 0 .. Half - 1
<1> DEFINE W == hashWindow
           M == ByteCard - 1
           A == halfA(z, pos)
           B == halfB(z, pos)
<1>1. W \in 0 .. W
  BY WindowIs
<1>2. A \in Nat /\ A <= W * M /\ B \in Nat /\ 2 * B <= M * (W * (2 * W + 1 - W))
  BY <1>1, SumsBound DEF halfA, halfB
<1>3. W * (W + 1) * M < 2 * Half
  BY HashAssumption
<1>4. W \in Nat /\ W > 0 /\ Half \in Nat /\ M \in Int
  BY WindowIs
<1> HIDE DEF A, B, M, W
<1>5. M * (W * (2 * W + 1 - W)) = W * (W + 1) * M
  BY <1>4
<1>6. 2 * (W * M) <= W * (W + 1) * M
  <2>1. W * M \in Nat
    BY <1>2, <1>4
  <2>2. W * (W + 1) * M = (W + 1) * (W * M)
    BY <1>4
  <2>3. \A x \in Nat : 2 * x <= (W + 1) * x
    BY <1>4
  <2> QED BY <2>1, <2>2, <2>3
<1> QED BY <1>2, <1>3, <1>4, <1>5, <1>6 DEF A, B

\* The hash is a number, and its halves are found in it again.
LEMMA Halves ==
    ASSUME NEW z, NEW pos, Fits(z, pos)
    PROVE  /\ blockHash(z, pos) \in Nat
           /\ blockHash(z, pos) % Half = halfA(z, pos)
           /\ blockHash(z, pos) \div Half = halfB(z, pos)
<1> DEFINE A == halfA(z, pos)
           B == halfB(z, pos)
<1>1. A \in 0 .. Half - 1 /\ B \in 0 .. Half - 1 /\ Half \in Nat /\ Half > 0
  BY HalvesFit, WindowIs
<1>2. blockHash(z, pos) = A + B * Half
  BY blockHashIs
<1> HIDE DEF A, B
<1>3. A + B * Half \in Nat
  BY <1>1
<1>4. (A + B * Half) % Half = A /\ (A + B * Half) \div Half = B
  <2>1. \A x, y \in Nat, n \in Nat \ {0} : x < n => (x + y * n) % n = x /\ (x + y * n) \div n = y
    OBVIOUS
  <2> QED BY <1>1, <2>1
<1> QED BY <1>2, <1>3, <1>4 DEF A, B

\* The window moves on by a byte: what its sums lose and gain.
LEMMA SumsSlide ==
    ASSUME NEW z, NEW pos, Fits(z, pos), Fits(z, pos + 1)
    PROVE  /\ halfA(z, pos + 1) = halfA(z, pos) - z[pos + 1] + z[pos + hashWindow + 1]
           /\ halfB(z, pos + 1) = halfB(z, pos) - hashWindow * z[pos + 1] + halfA(z, pos + 1)
<1> DEFINE W == hashWindow
           a == sumsA(z, pos)
           b == sumsB(z, pos)
           c == sumsA(z, pos + 1)
           d == sumsB(z, pos + 1)
           old == z[pos + 1]
           new == z[pos + W + 1]
           T == {k \in Nat : k <= W - 1 =>
                               c[k] = a[k + 1] - old /\ d[k] = b[k + 1] - W * old + c[k]}
<1>0. W \in Nat /\ W > 0 /\ pos \in Nat
  BY WindowIs DEF Fits
<1>1. \A k \in 0 .. W : a[k] \in Nat /\ b[k] \in Nat /\ c[k] \in Nat /\ d[k] \in Nat
  BY SumsBound
<1>2. 1 \in 1 .. W /\ W \in 1 .. W
  BY <1>0
<1>3. old \in Nat /\ W * old \in Nat
  <2>1. old \in Nat
    BY <1>2, WindowBytes
  <2> QED BY <1>0, <2>1
<1>4. 0 \in T
  <2>1. a[0] = 0 /\ b[0] = 0 /\ c[0] = 0 /\ d[0] = 0
    BY <1>2, SumsStep
  <2>2. a[1] = a[1 - 1] + z[pos + 1] /\ b[1] = b[1 - 1] + (W + 1 - 1) * z[pos + 1]
    BY <1>2, SumsStep
  <2>3. a[1] = old /\ b[1] = W * old
    <3>1. 1 - 1 = 0 /\ W + 1 - 1 = W
      BY <1>0
    <3> HIDE DEF a, b, old
    <3> QED BY <1>3, <2>1, <2>2, <3>1 DEF old
  <2> HIDE DEF a, b, c, d, old
  <2> QED BY <1>3, <2>1, <2>3
<1>5. ASSUME NEW k \in 1 .. W, k - 1 \in T PROVE k \in T
  <2> SUFFICES ASSUME k <= W - 1
               PROVE  c[k] = a[k + 1] - old /\ d[k] = b[k + 1] - W * old + c[k]
    OBVIOUS
  <2> DEFINE x == z[pos + (k + 1)]
  <2>1. k \in Nat /\ k + 1 \in 1 .. W /\ (k + 1) - 1 = k /\ k - 1 <= W - 1 /\ (k - 1) + 1 = k
    BY <1>0
  <2>2. (pos + 1) + k = pos + (k + 1)
    BY <1>0
  <2>3. c[k] = c[k - 1] + x /\ d[k] = d[k - 1] + (W + 1 - k) * x
    BY <2>2, SumsStep
  <2>4. a[k + 1] = a[k] + x /\ b[k + 1] = b[k] + (W + 1 - (k + 1)) * x
    <3>1. /\ a[k + 1] = a[(k + 1) - 1] + x
          /\ b[k + 1] = b[(k + 1) - 1] + (W + 1 - (k + 1)) * x
      BY <2>1, SumsStep
    <3> QED BY <2>1, <3>1
  <2>5. c[k - 1] = a[k] - old /\ d[k - 1] = b[k] - W * old + c[k - 1]
    <3>1. c[k - 1] = a[(k - 1) + 1] - old /\ d[k - 1] = b[(k - 1) + 1] - W * old + c[k - 1]
      BY <1>5, <2>1
    <3> QED BY <2>1, <3>1
  <2>6. x \in Nat
    BY <2>1, WindowBytes
  <2>7. (W + 1 - k) * x = (W + 1 - (k + 1)) * x + x
    <3> HIDE DEF x
    <3> QED BY <1>0, <2>6
  <2>8. /\ a[k] \in Nat /\ b[k] \in Nat /\ c[k - 1] \in Nat /\ d[k - 1] \in Nat
        /\ (W + 1 - (k + 1)) * x \in Int
    <3>1. k \in 0 .. W /\ k - 1 \in 0 .. W
      BY <1>0
    <3> HIDE DEF a, b, c, d, x
    <3> QED BY <1>0, <1>1, <2>6, <3>1
  <2> DEFINE y == (W + 1 - (k + 1)) * x
  <2>9. d[k] = d[k - 1] + (y + x) /\ b[k + 1] = b[k] + y /\ y \in Int
    BY <2>3, <2>4, <2>7, <2>8
  <2> DEFINE u == W * old
  <2>10. d[k - 1] = b[k] - u + c[k - 1] /\ u \in Nat
    BY <1>3, <2>5
  <2>11. c[k] = a[k + 1] - old /\ d[k] = b[k + 1] - u + c[k]
    <3> HIDE DEF a, b, c, d, x, y, u, old
    <3> QED BY <1>3, <2>3, <2>4, <2>5, <2>6, <2>8, <2>9, <2>10
  <2> QED BY <2>11
<1>6. \A k \in 0 .. W : k \in T
  <2> HIDE DEF T
  <2> QED BY <1>0, <1>4, <1>5, UpTo
<1>7. c[W - 1] = a[W] - old /\ d[W - 1] = b[W] - W * old + c[W - 1]
  <2>1. W - 1 \in T /\ W - 1 <= W - 1 /\ (W - 1) + 1 = W
    <3>1. W - 1 \in 0 .. W
      BY <1>0
    <3> HIDE DEF T
    <3> QED BY <1>0, <1>6, <3>1
  <2>2. /\ c[W - 1] = a[(W - 1) + 1] - old
        /\ d[W - 1] = b[(W - 1) + 1] - W * old + c[W - 1]
    BY <2>1
  <2> QED BY <2>1, <2>2
<1>8. c[W] = c[W - 1] + new /\ d[W] = d[W - 1] + new
  <2>1. (pos + 1) + W = pos + W + 1 /\ W + 1 - W = 1
    BY <1>0
  <2>2. c[W] = c[W - 1] + z[(pos + 1) + W] /\ d[W] = d[W - 1] + (W + 1 - W) * z[(pos + 1) + W]
    BY <1>2, SumsStep
  <2>3. new \in Nat
    BY <1>2, <2>1, WindowBytes
  <2>4. d[W] = d[W - 1] + 1 * new
    BY <2>1, <2>2
  <2> HIDE DEF new
  <2>5. 1 * new = new
    BY <2>3
  <2> QED BY <2>1, <2>2, <2>4, <2>5 DEF new
<1>9. a[W] \in Nat /\ b[W] \in Nat /\ c[W - 1] \in Nat /\ d[W - 1] \in Nat /\ new \in Nat
  <2>1. W \in 0 .. W /\ W - 1 \in 0 .. W
    BY <1>0
  <2>2. new \in Nat
    <3>1. (pos + 1) + W = pos + W + 1
      BY <1>0
    <3> QED BY <1>2, <3>1, WindowBytes
  <2> HIDE DEF a, b, c, d
  <2> QED BY <1>1, <2>1, <2>2
<1>10. c[W] = a[W] - old + new /\ d[W] = b[W] - W * old + c[W]
  <2> DEFINE u == W * old
  <2>1. u \in Nat /\ d[W - 1] = b[W] - u + c[W - 1]
    BY <1>3, <1>7
  <2>2. c[W] = a[W] - old + new /\ d[W] = b[W] - u + c[W]
    <3> HIDE DEF a, b, c, d, u, old, new
    <3> QED BY <1>3, <1>7, <1>8, <1>9, <2>1
  <2> QED BY <2>2
<1> QED BY <1>10 DEF halfA, halfB

(***************************************************************************)
(* The rolling hash.                                                       *)
(***************************************************************************)

\* hash stands for the window of z at pos: its ring holds the window's bytes, the oldest at
\* hash.i, and its halves are the window's.
Rolls(hash, z, pos) ==
    /\ hash.a = halfA(z, pos) /\ hash.b = halfB(z, pos)
    /\ hash.i \in 0 .. hashWindow - 1
    /\ hash.z = [p \in 0 .. hashWindow - 1 |->
                 z[pos + 1 + (IF p >= hash.i THEN p - hash.i ELSE p - hash.i + hashWindow)]]

\* A hash started at a window stands for it (hash.go: rollingHash.init).
THEOREM rollInitRolls ==
    ASSUME NEW z, NEW pos, Fits(z, pos)
    PROVE  Rolls(rollInit(z, pos), z, pos)
<1> DEFINE r == rollInit(z, pos)
<1>1. r.a = halfA(z, pos) /\ r.b = halfB(z, pos) /\ r.i = 0
  BY Halves DEF rollInit
<1>2. r.z = [p \in 0 .. hashWindow - 1 |-> z[pos + p + 1]]
  BY DEF rollInit
<1>3. \A p \in 0 .. hashWindow - 1 : p >= 0 /\ pos + p + 1 = pos + 1 + (p - 0)
  BY WindowIs DEF Fits
<1> HIDE DEF r
<1>4. r.z = [p \in 0 .. hashWindow - 1 |->
                z[pos + 1 + (IF p >= r.i THEN p - r.i ELSE p - r.i + hashWindow)]]
  BY <1>1, <1>2, <1>3
<1>5. r.i \in 0 .. hashWindow - 1
  BY <1>1, WindowIs
<1> QED BY <1>1, <1>4, <1>5 DEF Rolls, r

\* A hash that stands for a window and takes in the byte behind it stands for the next
\* window, however often its halves have wrapped (hash.go: rollingHash.next).
THEOREM rollNextRolls ==
    ASSUME NEW z, NEW pos, NEW hash, Fits(z, pos), Fits(z, pos + 1), Rolls(hash, z, pos)
    PROVE  Rolls(rollNext(hash, z[pos + hashWindow + 1]), z, pos + 1)
<1> DEFINE W == hashWindow
           c == z[pos + W + 1]
           r == rollNext(hash, c)
           old == hash.z[hash.i]
           at(p, k) == IF p >= k THEN p - k ELSE p - k + W
<1>0. W \in Nat /\ W > 0 /\ pos \in Nat /\ Half \in Nat /\ Half > 0
  BY WindowIs DEF Fits
<1>1. hash.i \in 0 .. W - 1 /\ hash.a = halfA(z, pos) /\ hash.b = halfB(z, pos)
  BY DEF Rolls
<1>2. old = z[pos + 1]
  <2>1. old = z[pos + 1 + (hash.i - hash.i)]
    BY <1>1 DEF Rolls
  <2>2. pos + 1 + (hash.i - hash.i) = pos + 1
    BY <1>0, <1>1
  <2> QED BY <2>1, <2>2
<1>3. /\ r.a = (hash.a - old + c) % Half
      /\ r.b = (hash.b - W * old + ((hash.a - old + c) % Half)) % Half
      /\ r.i = (hash.i + 1) % W
      /\ r.z = [hash.z EXCEPT ![hash.i] = c]
  BY DEF rollNext
<1>4. /\ halfA(z, pos + 1) = hash.a - old + c
      /\ halfB(z, pos + 1) = hash.b - W * old + halfA(z, pos + 1)
  BY <1>1, <1>2, SumsSlide
<1>5. r.a = halfA(z, pos + 1) /\ r.b = halfB(z, pos + 1)
  <2>1. /\ halfA(z, pos + 1) % Half = halfA(z, pos + 1)
        /\ halfB(z, pos + 1) % Half = halfB(z, pos + 1)
    <3>1. halfA(z, pos + 1) \in 0 .. Half - 1 /\ halfB(z, pos + 1) \in 0 .. Half - 1
      BY HalvesFit
    <3>2. \A x \in 0 .. Half - 1 : x % Half = x
      BY <1>0
    <3> QED BY <3>1, <3>2
  <2> HIDE DEF r, old, c
  <2> QED BY <1>3, <1>4, <2>1
<1>6. r.i = IF hash.i + 1 = W THEN 0 ELSE hash.i + 1
  <2>1. \A x \in 0 .. W - 1 : (x + 1) % W = IF x + 1 = W THEN 0 ELSE x + 1
    BY <1>0
  <2> HIDE DEF r
  <2> QED BY <1>1, <1>3, <2>1
<1>7. r.i \in 0 .. W - 1
  <2> HIDE DEF r
  <2> QED BY <1>0, <1>1, <1>6
<1>8. hash.z = [p \in 0 .. W - 1 |-> z[pos + 1 + at(p, hash.i)]]
  BY DEF Rolls
<1>9. ASSUME NEW p \in 0 .. W - 1 PROVE r.z[p] = z[(pos + 1) + 1 + at(p, r.i)]
  <2>1. CASE p = hash.i
    <3>1. r.z[p] = c
      <4> HIDE DEF r, c
      <4> QED BY <1>3, <1>8, <2>1
    <3>2. at(p, r.i) = W - 1
      <4> HIDE DEF r
      <4> QED BY <1>0, <1>1, <1>6, <2>1
    <3>3. (pos + 1) + 1 + (W - 1) = pos + W + 1
      BY <1>0
    <3> HIDE DEF r, at
    <3> QED BY <3>1, <3>2, <3>3
  <2>2. CASE p # hash.i
    <3>1. r.z[p] = z[pos + 1 + at(p, hash.i)]
      <4>1. r.z[p] = hash.z[p]
        <5> HIDE DEF r, c
        <5> QED BY <1>3, <1>8, <2>2
      <4> HIDE DEF at, r
      <4> QED BY <1>8, <4>1
    <3>2. at(p, hash.i) = at(p, r.i) + 1 /\ at(p, r.i) \in Int
      <4> HIDE DEF r
      <4> QED BY <1>0, <1>1, <1>6, <2>2
    <3> HIDE DEF at, r
    <3>3. pos + 1 + at(p, hash.i) = (pos + 1) + 1 + at(p, r.i)
      BY <1>0, <3>2
    <3> QED BY <3>1, <3>3
  <2> QED BY <2>1, <2>2
<1>10. r.z = [p \in 0 .. W - 1 |-> z[(pos + 1) + 1 + at(p, r.i)]]
  <2>1. r.z = [p \in 0 .. W - 1 |-> r.z[p]]
    <3> HIDE DEF r, at
    <3> QED BY <1>3, <1>8
  <2> HIDE DEF r, at
  <2> QED BY <1>9, <2>1
<1> QED BY <1>5, <1>7, <1>10 DEF Rolls, r

\* The value of a hash that stands for a window is the window's block hash.
THEOREM rollValueIsBlockHash ==
    ASSUME NEW z, NEW pos, NEW hash, Rolls(hash, z, pos)
    PROVE  rollValue(hash) = blockHash(z, pos)
  BY blockHashIs DEF Rolls, rollValue

(***************************************************************************)
(* Buckets.                                                                *)
(***************************************************************************)

\* A hash's bucket is one of the table's, with as many buckets as there may be
\* (hash.go: bucketIndex).
THEOREM bucketIndexInTable ==
    ASSUME NEW v \in Nat, NEW n \in Nat \ {0}
    PROVE  bucketIndex(v, n) \in 0 .. n - 1
<1> DEFINE x == (v * phi) % HashWord
<1>1. HashWord \in Nat /\ HashWord > 0
  <2>1. \A y \in Nat \ {0} : y * y \in Nat /\ y * y > 0
    OBVIOUS
  <2> QED BY <2>1, WindowIs DEF HashWord
<1>2. x \in 0 .. HashWord - 1
  <2>1. v * phi \in Nat
    BY HashAssumption
  <2> DEFINE y == v * phi
  <2> HIDE DEF y
  <2>2. y % HashWord \in 0 .. HashWord - 1
    BY <1>1, <2>1 DEF y
  <2> QED BY <2>2 DEF y
<1>3. bucketIndex(v, n) = (x * n) \div HashWord
  BY DEF bucketIndex
<1> HIDE DEF x
<1> DEFINE w == HashWord
<1>4. w \in Nat /\ w > 0 /\ x \in Nat /\ x < w
  BY <1>1, <1>2
<1> HIDE DEF w
<1>5. x * n \in Nat /\ x * n < n * w
  BY <1>4
<1>6. \A y \in Nat : y < n * w => y \div w \in 0 .. n - 1
  BY <1>4
<1>7. (x * n) \div w \in 0 .. n - 1
  BY <1>5, <1>6
<1> QED BY <1>3, <1>7 DEF w

(***************************************************************************)
(* The operators the search is built from.                                 *)
(***************************************************************************)

\* The tables' length for n blocks.
bucketsFor(n) ==
    LET shifted[v \in 0 .. n - 1] == IF v = 0 THEN 1 ELSE 2 * shifted[v \div 2]
    IN  shifted[n - 1]

LEMMA nBucketsIs == nBuckets = bucketsFor(nBlocks)
  BY DEF nBuckets, bucketsFor

\* There is room for every block in the tables: shifting one by the length of a number
\* gives more than the number (create.go: AppendCreate).
THEOREM bucketsForEnough ==
    ASSUME NEW n \in Nat \ {0}
    PROVE  bucketsFor(n) \in Nat /\ bucketsFor(n) >= n
<1> DEFINE N == n - 1
           Step(g, v) == IF v = 0 THEN 1 ELSE 2 * g[v \div 2]
           s == CHOOSE g : g = [v \in 0 .. N |-> Step(g, v)]
           p == [v \in 1 .. N |-> v \div 2]
           st == [x \in (1 .. N) \X Nat |-> 2 * x[2]]
<1>1. bucketsFor(n) = s[N] /\ N \in Nat
  BY DEF bucketsFor
<1>2. p \in [1 .. N -> Nat] /\ (\A v \in 1 .. N : p[v] < v) /\ (\A v \in 1 .. N : p[v] = v \div 2)
  BY <1>1
<1>3. st \in [(1 .. N) \X Nat -> Nat] /\ \A v \in 1 .. N, x \in Nat : st[<<v, x>>] = 2 * x
  OBVIOUS
<1> HIDE DEF p, st, N
<1>4. Solvable(N, Nat, 1, p, st)
  <2>1. 1 \in Nat
    OBVIOUS
  <2> QED BY <1>1, <1>2, <1>3, <2>1, RecursionExists
<1>5. PICK f \in [0 .. N -> Nat] :
          \A v \in 0 .. N : f[v] = IF v = 0 THEN 1 ELSE st[<<v, f[p[v]]>>]
  BY <1>4 DEF Solvable
<1>6. ASSUME NEW v \in 0 .. N PROVE f[v] = Step(f, v)
  <2>1. CASE v = 0
    BY <1>5, <2>1
  <2>2. CASE v # 0
    <3>1. v \in 1 .. N /\ p[v] = v \div 2 /\ v \div 2 \in 0 .. N
      BY <1>1, <1>2, <2>2
    <3>2. f[v \div 2] \in Nat
      BY <3>1
    <3>3. f[v] = st[<<v, f[v \div 2]>>]
      BY <1>5, <2>2, <3>1
    <3>4. f[v] = 2 * f[v \div 2]
      BY <1>3, <3>1, <3>2, <3>3
    <3> QED BY <2>2, <3>4
  <2> QED BY <2>1, <2>2
<1>7. f = [v \in 0 .. N |-> Step(f, v)]
  <2> HIDE DEF Step
  <2> QED BY <1>6
<1>8. s = [v \in 0 .. N |-> Step(s, v)]
  <2> HIDE DEF Step
  <2> QED BY <1>7
<1> HIDE DEF s
<1> DEFINE T == {v \in Nat : v <= N => s[v] \in Nat /\ s[v] > v}
<1>9. ASSUME NEW v \in Nat, \A k \in 0 .. v - 1 : k \in T PROVE v \in T
  <2> SUFFICES ASSUME v <= N PROVE s[v] \in Nat /\ s[v] > v
    OBVIOUS
  <2>1. v \in 0 .. N
    BY <1>1
  <2>2. CASE v = 0
    BY <1>8, <2>1, <2>2
  <2>3. CASE v # 0
    <3> DEFINE q == v \div 2
    <3>1. s[v] = 2 * s[q]
      BY <1>8, <2>1, <2>3
    <3>a. \A x \in Nat : x # 0 => x \div 2 \in 0 .. x - 1 /\ x <= 2 * (x \div 2) + 1
      OBVIOUS
    <3>b. q \in 0 .. v - 1 /\ v <= 2 * q + 1
      BY <2>3, <3>a
    <3>2. q \in 0 .. v - 1 /\ q <= N /\ v <= 2 * q + 1
      <4> HIDE DEF q
      <4> QED BY <1>1, <2>1, <3>b
    <3> HIDE DEF q
    <3>3. s[q] \in Nat /\ s[q] > q
      BY <1>9, <3>2
    <3> QED BY <3>1, <3>2, <3>3
  <2> QED BY <2>2, <2>3
<1>10. \A v \in Nat : v \in T
  <2> HIDE DEF T
  <2> QED BY <1>9, StrongInduction
<1>11. s[N] \in Nat /\ s[N] > N
  BY <1>1, <1>10
<1> QED BY <1>1, <1>11 DEF N

LEMMA BlocksIs ==
    ASSUME origin \in Seq(Byte), lenSrc > hashWindow
    PROVE  /\ nBlocks \in Nat \ {0} /\ nBuckets \in Nat \ {0} /\ nBlocks <= nBuckets
           /\ \A k \in Nat : k <= nBlocks <=> k * hashWindow <= lenSrc
<1>1. lenSrc \in Nat /\ hashWindow \in Nat /\ hashWindow > 0 /\ lenSrc > hashWindow
  BY WindowIs DEF lenSrc
<1>2. \A x, w \in Nat : w > 0 /\ x > w => x \div w \in Nat \ {0}
  OBVIOUS
<1>3. nBlocks \in Nat \ {0}
  BY <1>1, <1>2 DEF nBlocks
<1>4. nBuckets \in Nat \ {0} /\ nBlocks <= nBuckets
  BY <1>3, nBucketsIs, bucketsForEnough
<1>5. \A x, w, k \in Nat : w > 0 => (k <= x \div w <=> k * w <= x)
  <2> TAKE x, w, k \in Nat
  <2>1. w > 0 /\ k * w <= x => k <= x \div w
    OBVIOUS
  <2>2. ASSUME w > 0, k <= x \div w PROVE k * w <= x
    <3>1. (x \div w) * w <= x /\ x \div w \in Nat
      BY <2>2
    <3>2. \A u, v \in Nat : u <= v => u * w <= v * w
      OBVIOUS
    <3>3. k * w <= (x \div w) * w
      BY <2>2, <3>1, <3>2
    <3>4. k * w \in Nat /\ (x \div w) * w \in Nat
      BY <3>1
    <3> QED BY <3>1, <3>3, <3>4
  <2> QED BY <2>1, <2>2
<1>6. \A k \in Nat : k <= nBlocks <=> k * hashWindow <= lenSrc
  BY <1>1, <1>5 DEF nBlocks
<1> QED BY <1>3, <1>4, <1>6

\* A stretch of the target, as a literal.
LEMMA StretchIs ==
    ASSUME NEW t \in Seq(Byte), NEW from \in 0 .. Len(t), NEW to \in from .. Len(t)
    PROVE  SubSeq(t, from + 1, to) \in Seq(Byte) /\ Len(SubSeq(t, from + 1, to)) = to - from
  OBVIOUS

LEMMA CommandsAreBytes == NewLine \in Byte /\ At \in Byte /\ Comma \in Byte
                          /\ Colon \in Byte /\ Semi \in Byte
  BY CodecAssumption DEF CommandBytes

LEMMA WordsAreNat == Words \subseteq Nat
  BY CodecAssumption DEF Words

LEMMA literalIs ==
    ASSUME target \in Seq(Byte), NEW d \in Seq(Byte),
           NEW from \in 0 .. lenOut, NEW to \in from .. lenOut
    PROVE  /\ literal(d, from, to) \in Seq(Byte)
           /\ Len(literal(d, from, to)) = Len(d) + digitCount(to - from) + 1 + (to - from)
<1> DEFINE n == appendInt(d, to - from, Colon)
           t == SubSeq(target, from + 1, to)
<1>1. to - from \in Nat
  BY DEF lenOut
<1>2. n \in Seq(Byte) /\ Len(n) = Len(d) + digitCount(to - from) + 1
  BY <1>1, CommandsAreBytes, appendIntType, appendIntLength
<1>3. t \in Seq(Byte) /\ Len(t) = to - from
  BY StretchIs DEF lenOut
<1>4. literal(d, from, to) = n \o t
  BY DEF literal
<1>5. n \o t \in Seq(Byte) /\ Len(n \o t) = Len(n) + Len(t)
  <2>1. n \in Seq(Byte) /\ t \in Seq(Byte)
    BY <1>2, <1>3
  <2> HIDE DEF n, t
  <2> QED BY <2>1
<1> HIDE DEF n, t
<1> QED BY <1>2, <1>3, <1>4, <1>5

LEMMA trailerIs ==
    ASSUME target \in Seq(Byte), NEW d \in Seq(Byte)
    PROVE  /\ trailer(d) \in Seq(Byte)
           /\ Len(trailer(d)) = Len(d) + digitCount(checksum(target)) + 1
<1>1. checksum(target) \in Nat
  BY checksumType, WordsAreNat
<1> QED BY <1>1, CommandsAreBytes, appendIntType, appendIntLength DEF trailer

LEMMA copyIs ==
    ASSUME NEW d \in Seq(Byte), NEW m, m.cnt \in Nat, m.ofst \in Nat
    PROVE  /\ copy(d, m) \in Seq(Byte)
           /\ Len(copy(d, m)) = Len(d) + digitCount(m.cnt) + 1 + digitCount(m.ofst) + 1
<1> DEFINE n == appendInt(d, m.cnt, At)
<1>1. n \in Seq(Byte) /\ Len(n) = Len(d) + digitCount(m.cnt) + 1
  BY CommandsAreBytes, appendIntType, appendIntLength
<1>2. copy(d, m) = appendInt(n, m.ofst, Comma)
  BY DEF copy
<1> HIDE DEF n
<1> QED BY <1>1, <1>2, CommandsAreBytes, appendIntType, appendIntLength, ZenonT(30)

(***************************************************************************)
(* The inductive invariant.                                                *)
(*                                                                         *)
(* Of collide nothing is said beyond the entries this call has written:    *)
(* that no others are reached is because landmark leads to filed blocks    *)
(* only, and each filed block to earlier ones of its bucket.               *)
(***************************************************************************)

bucketOf(o, k) ==
    bucketIndex(blockHash(o, k * hashWindow), bucketsFor(Len(o) \div hashWindow))

Filed ==
    pc \in {"index", "outer", "probe"} =>
        /\ lenSrc > hashWindow
        /\ \A k \in 0 .. blk - 1 :
              /\ collide[k] <= k
              /\ collide[k] # 0 => bucketOf(origin, collide[k] - 1) = bucketOf(origin, k)
        /\ \A b \in 0 .. nBuckets - 1 :
              /\ landmark[b] <= blk
              /\ landmark[b] # 0 => bucketOf(origin, landmark[b] - 1) = b

AtWindow ==
    pc = "probe" =>
        /\ base + i + hashWindow <= lenOut
        /\ Rolls(h, target, base + i)
        /\ next <= blk
        /\ next # 0 => bucketOf(origin, next - 1) = bucketIndex(rollValue(h), nBuckets)
        /\ base + best.litsz + best.cnt <= lenOut
        /\ best.cnt > 0 => best.cnt >= price(best)

EncInv == TypeOK /\ Filed /\ AtWindow

LEMMA InputsAre ==
    ASSUME origin \in Seq(Byte), target \in Seq(Byte)
    PROVE  lenSrc \in Nat /\ lenOut \in Nat /\ nBlocks \in Nat
<1>1. lenSrc \in Nat /\ lenOut \in Nat
  BY DEF lenSrc, lenOut
<1>2. \A x \in Nat, w \in Nat \ {0} : x \div w \in Nat
  OBVIOUS
<1> QED BY <1>1, <1>2, WindowIs DEF nBlocks

\* No action changes the inputs, nor what depends on them only.
LEMMA InputsStay ==
    ASSUME UNCHANGED <<origin, target>>
    PROVE  /\ lenSrc' = lenSrc /\ lenOut' = lenOut /\ nBlocks' = nBlocks
           /\ nBuckets' = nBuckets /\ Table' = Table
<1>1. lenSrc' = lenSrc /\ lenOut' = lenOut
  BY DEF lenSrc, lenOut
<1>2. nBlocks' = nBlocks
  BY <1>1 DEF nBlocks
<1>3. nBuckets = bucketsFor(nBlocks) /\ nBuckets' = bucketsFor(nBlocks')
  BY DEF nBuckets, bucketsFor
<1> QED BY <1>1, <1>2, <1>3 DEF Table

LEMMA BucketIs ==
    /\ nBuckets = bucketsFor(Len(origin) \div hashWindow)
    /\ \A k : bucketOf(origin, k) = bucketIndex(blockHash(origin, k * hashWindow), nBuckets)
  BY nBucketsIs DEF bucketOf, nBlocks, lenSrc

LEMMA InitEnc == ASSUME Init PROVE EncInv
<1>1. origin \in Seq(Byte) /\ target \in Seq(Byte)
  BY EncoderAssumption DEF Init
<1>2. lenSrc \in Nat /\ lenOut \in Nat /\ nBlocks \in Nat
  BY <1>1, InputsAre
<1>3. TypeOK
  <2>1. dst \in Seq(Byte)
    BY DEF Init
  <2>2. NoMatch \in [cnt : 0 .. lenOut, ofst : 0 .. lenSrc, litsz : 0 .. lenOut]
    BY <1>2 DEF NoMatch
  <2>3. 0 \in 0 .. maxCandidates
    BY EncoderAssumption
  <2> QED BY <1>1, <1>2, <2>1, <2>2, <2>3 DEF Init, TypeOK
<1> QED BY <1>3 DEF Init, EncInv, Filed, AtWindow

-----------------------------------------------------------------------------
(* The actions before the search.                                          *)

LEMMA ReturnsEarly == ASSUME EncInv, Unrepresentable \/ ShortSource PROVE EncInv'
<1>1. TypeOK /\ UNCHANGED <<origin, target, collide, landmark, blk, i, next, limit, best>>
  BY DEF EncInv, Unrepresentable, ShortSource, tables
<1>2. origin \in Seq(Byte) /\ target \in Seq(Byte) /\ dst \in Seq(Byte)
  BY <1>1 DEF TypeOK
<1>3. lenOut \in Nat
  BY <1>2, InputsAre
<1>4. dst' \in Seq(Byte)
  <2>1. CASE Unrepresentable
    BY <1>2, <2>1, CommandsAreBytes, appendIntType DEF Unrepresentable
  <2>2. CASE ShortSource
    <3> DEFINE d == appendInt(dst, lenOut, NewLine)
    <3>1. d \in Seq(Byte)
      BY <1>2, <1>3, CommandsAreBytes, appendIntType
    <3>2. literal(d, 0, lenOut) \in Seq(Byte)
      <4>1. 0 \in 0 .. lenOut /\ lenOut \in 0 .. lenOut
        BY <1>3
      <4> HIDE DEF d
      <4> QED BY <1>2, <3>1, <4>1, literalIs
    <3> QED BY <1>2, <2>2, <3>2, trailerIs DEF ShortSource
  <2> QED BY <2>1, <2>2
<1>5. base' \in 0 .. lenOut /\ pc' = "done"
  BY <1>1, <1>3 DEF Unrepresentable, ShortSource, TypeOK
<1>6. TypeOK'
  BY <1>1, <1>2, <1>4, <1>5, InputsStay DEF TypeOK
<1> QED BY <1>5, <1>6 DEF EncInv, Filed, AtWindow

LEMMA StartKeeps == ASSUME EncInv, Start PROVE EncInv'
<1>1. TypeOK /\ lenSrc > hashWindow /\ blk' = 0 /\ pc' = "index"
      /\ UNCHANGED <<origin, target, base, i, h, next, limit, best>>
  BY DEF EncInv, Start
<1>2. origin \in Seq(Byte) /\ target \in Seq(Byte) /\ dst \in Seq(Byte)
  BY <1>1 DEF TypeOK
<1>3. lenOut \in Nat /\ nBlocks \in Nat
  BY <1>2, InputsAre
<1>4. dst' \in Seq(Byte)
  BY <1>2, <1>3, CommandsAreBytes, appendIntType DEF Start
<1>5. landmark' = [b \in 0 .. nBuckets - 1 |-> 0]
  BY DEF Start, cleared
<1>6. collide' \in Table /\ landmark' \in Table
  <2>1. PICK q \in Leftover : collide' = used(q, nBuckets)
    BY DEF Start
  <2>2. q \in Seq(Nat) /\ q # <<>>
    BY EncoderAssumption
  <2>3. ASSUME NEW b \in 0 .. nBuckets - 1 PROVE q[(b % Len(q)) + 1] \in Nat
    <3> DEFINE l == Len(q)
    <3>1. l \in Nat /\ l > 0
      BY <2>2, EmptySeq, LenProperties
    <3> HIDE DEF l
    <3>2. b \in Nat
      OBVIOUS
    <3>3. (b % l) + 1 \in 1 .. l
      BY <3>1, <3>2
    <3> QED BY <2>2, <3>3 DEF l
  <2> QED BY <1>5, <2>1, <2>3 DEF Table, used
<1>7. TypeOK'
  <2>1. blk' \in 0 .. nBlocks
    BY <1>1, <1>3
  <2> QED BY <1>1, <1>2, <1>4, <1>6, <2>1, InputsStay DEF TypeOK
<1>8. Filed'
  <2>1. lenSrc' > hashWindow /\ nBuckets' = nBuckets
    BY <1>1, InputsStay
  <2>2. \A k \in 0 .. blk' - 1 : FALSE
    BY <1>1
  <2>3. \A b \in 0 .. nBuckets' - 1 : landmark'[b] = 0 /\ landmark'[b] <= blk'
    BY <1>1, <1>5, <2>1
  <2> QED BY <2>1, <2>2, <2>3 DEF Filed
<1> QED BY <1>1, <1>7, <1>8 DEF EncInv, AtWindow

LEMMA IndexBlockKeeps == ASSUME EncInv, IndexBlock PROVE EncInv'
<1> DEFINE hv == bucketIndex(blockHash(origin, blk * hashWindow), nBuckets)
<1>1. /\ TypeOK /\ Filed /\ pc = "index" /\ pc' = "index"
      /\ blk * hashWindow < lenSrc - hashWindow
      /\ collide' = [collide EXCEPT ![blk] = landmark[hv]]
      /\ landmark' = [landmark EXCEPT ![hv] = blk + 1]
      /\ blk' = blk + 1
      /\ UNCHANGED <<origin, target, dst, base, i, h, next, limit, best>>
  BY DEF EncInv, IndexBlock
<1>2. /\ origin \in Seq(Byte) /\ target \in Seq(Byte) /\ lenSrc > hashWindow
      /\ collide \in Table /\ landmark \in Table
  BY <1>1 DEF TypeOK, Filed
<1>3. blk \in Nat /\ lenSrc \in Nat /\ hashWindow \in Nat /\ hashWindow > 0
  BY <1>1, <1>2, WindowIs, InputsAre DEF TypeOK
<1>4. /\ blk * hashWindow \in Nat
      /\ (blk + 1) * hashWindow = blk * hashWindow + hashWindow
      /\ blk * hashWindow + hashWindow <= lenSrc
  <2>1. blk * hashWindow \in Nat /\ (blk + 1) * hashWindow = blk * hashWindow + hashWindow
    BY <1>3
  <2> QED BY <1>1, <1>3, <2>1
<1>5. blk + 1 \in 0 .. nBlocks /\ nBlocks <= nBuckets /\ nBuckets \in Nat \ {0}
  <2>1. blk + 1 <= nBlocks
    BY <1>2, <1>3, <1>4, BlocksIs
  <2> QED BY <1>2, <1>3, <2>1, BlocksIs
<1>6. blk \in 0 .. nBuckets - 1
  BY <1>3, <1>5, <1>2, BlocksIs
<1>7. hv \in 0 .. nBuckets - 1
  <2>1. Fits(origin, blk * hashWindow)
    BY <1>2, <1>4 DEF Fits, lenSrc
  <2>2. blockHash(origin, blk * hashWindow) \in Nat
    BY <2>1, Halves
  <2> QED BY <1>5, <2>2, bucketIndexInTable
<1>8. hv = bucketOf(origin, blk)
  BY BucketIs
<1> HIDE DEF hv
<1>9. collide' \in Table /\ landmark' \in Table
  <2>1. landmark[hv] \in Nat /\ blk + 1 \in Nat
    BY <1>2, <1>3, <1>7 DEF Table
  <2> QED BY <1>1, <1>2, <2>1 DEF Table
<1>10. TypeOK'
  BY <1>1, <1>5, <1>9, InputsStay DEF TypeOK
<1>11. ASSUME NEW k \in 0 .. blk' - 1
       PROVE  /\ collide'[k] <= k
              /\ collide'[k] # 0 => bucketOf(origin', collide'[k] - 1) = bucketOf(origin', k)
  <2>1. CASE k = blk
    <3>1. collide'[k] = landmark[hv]
      BY <1>1, <1>2, <1>6, <2>1 DEF Table
    <3>2. landmark[hv] <= blk
          /\ (landmark[hv] # 0 => bucketOf(origin, landmark[hv] - 1) = hv)
      BY <1>1, <1>7 DEF Filed
    <3> QED BY <1>1, <1>8, <2>1, <3>1, <3>2
  <2>2. CASE k # blk
    <3>1. k \in 0 .. blk - 1
      BY <1>1, <1>3, <2>2
    <3>2. k \in 0 .. nBuckets - 1
      BY <1>3, <1>5, <1>6, <3>1
    <3>3. collide'[k] = collide[k]
      BY <1>1, <1>2, <2>2, <3>2 DEF Table
    <3>4. /\ collide[k] <= k
          /\ collide[k] # 0 => bucketOf(origin, collide[k] - 1) = bucketOf(origin, k)
      BY <1>1, <3>1 DEF Filed
    <3> QED BY <1>1, <3>3, <3>4
  <2> QED BY <2>1, <2>2
<1>12. ASSUME NEW b \in 0 .. nBuckets - 1
       PROVE  /\ landmark'[b] <= blk'
              /\ landmark'[b] # 0 => bucketOf(origin', landmark'[b] - 1) = b
  <2>1. CASE b = hv
    <3>1. landmark'[b] = blk + 1 /\ (blk + 1) - 1 = blk
      BY <1>1, <1>2, <1>3, <2>1 DEF Table
    <3>2. landmark'[b] - 1 = blk
      BY <3>1
    <3>3. landmark'[b] <= blk'
      BY <1>1, <1>3, <3>1
    <3> QED BY <1>1, <1>8, <2>1, <3>2, <3>3
  <2>2. CASE b # hv
    <3>1. landmark'[b] = landmark[b] /\ landmark[b] \in Nat
      BY <1>1, <1>2, <2>2 DEF Table
    <3>2. landmark[b] <= blk /\ (landmark[b] # 0 => bucketOf(origin, landmark[b] - 1) = b)
      BY <1>1 DEF Filed
    <3>3. landmark'[b] <= blk'
      BY <1>1, <1>3, <3>1, <3>2
    <3> QED BY <1>1, <3>1, <3>2, <3>3
  <2> QED BY <2>1, <2>2
<1>13. Filed'
  <2>1. lenSrc' > hashWindow /\ nBuckets' = nBuckets
    BY <1>1, <1>2, InputsStay
  <2> QED BY <1>11, <1>12, <2>1 DEF Filed
<1> QED BY <1>1, <1>10, <1>13 DEF EncInv, AtWindow

LEMMA IndexDoneKeeps == ASSUME EncInv, IndexDone PROVE EncInv'
<1>1. TypeOK /\ Filed /\ pc = "index" /\ pc' = "outer"
      /\ UNCHANGED <<origin, target, dst, collide, landmark, blk, base, i, h, next, limit, best>>
  BY DEF EncInv, IndexDone, tables
<1>2. TypeOK'
  BY <1>1, InputsStay DEF TypeOK
<1>3. Filed'
  BY <1>1, InputsStay DEF Filed
<1> QED BY <1>1, <1>2, <1>3 DEF EncInv, AtWindow

-----------------------------------------------------------------------------
(* The search.                                                             *)

\* What holds of the tables stays so while the search only reads them.
LEMMA FiledStays ==
    ASSUME TypeOK, Filed, pc \in {"index", "outer", "probe"},
           UNCHANGED <<origin, target, collide, landmark, blk>>
    PROVE  /\ Filed'
           /\ collide' \in Table' /\ landmark' \in Table' /\ blk' \in 0 .. nBlocks'
  BY InputsStay DEF TypeOK, Filed

\* Looking a window's hash up leads to a block of its bucket, if to any.
LEMMA LookFinds ==
    ASSUME TypeOK, Filed, pc \in {"outer", "probe"}, NEW r, NEW p,
           Fits(target, p), Rolls(r, target, p), Look(r)
    PROVE  /\ pc' = "probe" /\ limit' \in 0 .. maxCandidates
           /\ next' \in Nat /\ next' <= blk
           /\ next' # 0 => bucketOf(origin, next' - 1) = bucketIndex(rollValue(r), nBuckets)
<1> DEFINE b == bucketIndex(rollValue(r), nBuckets)
<1>1. origin \in Seq(Byte) /\ lenSrc > hashWindow /\ landmark \in Table
  BY DEF TypeOK, Filed
<1>2. b \in 0 .. nBuckets - 1
  <2>1. rollValue(r) \in Nat
    BY rollValueIsBlockHash, Halves
  <2> QED BY <1>1, <2>1, BlocksIs, bucketIndexInTable
<1>3. next' = landmark[b] /\ pc' = "probe" /\ limit' = maxCandidates
  BY DEF Look
<1> HIDE DEF b
<1>4. /\ landmark[b] \in Nat /\ landmark[b] <= blk
      /\ landmark[b] # 0 => bucketOf(origin, landmark[b] - 1) = b
  BY <1>1, <1>2 DEF Table, Filed
<1>5. maxCandidates \in 0 .. maxCandidates
  BY EncoderAssumption
<1> QED BY <1>3, <1>4, <1>5 DEF b

LEMMA OuterKeeps == ASSUME EncInv, Outer PROVE EncInv'
<1>1. /\ TypeOK /\ Filed /\ pc = "outer" /\ base + hashWindow < lenOut
      /\ best' = NoMatch /\ i' = 0 /\ h' = rollInit(target, base) /\ Look(h')
      /\ UNCHANGED <<origin, target, dst, collide, landmark, blk, base>>
  BY DEF EncInv, Outer, tables
<1>2. origin \in Seq(Byte) /\ target \in Seq(Byte) /\ base \in Nat
  BY <1>1, InputsAre DEF TypeOK
<1>3. lenSrc \in Nat /\ lenOut \in Nat /\ hashWindow \in Nat
  BY <1>2, InputsAre, WindowIs
<1>4. Fits(target, base) /\ Rolls(h', target, base)
  <2>1. Fits(target, base)
    BY <1>1, <1>2, <1>3 DEF Fits, lenOut
  <2> QED BY <1>1, <2>1, rollInitRolls
<1>5. /\ pc' = "probe" /\ limit' \in 0 .. maxCandidates
      /\ next' \in Nat /\ next' <= blk
      /\ next' # 0 => bucketOf(origin, next' - 1) = bucketIndex(rollValue(h'), nBuckets)
  BY <1>1, <1>4, LookFinds
<1>6. /\ Filed' /\ collide' \in Table' /\ landmark' \in Table' /\ blk' \in 0 .. nBlocks'
  BY <1>1, FiledStays
<1>7. lenSrc' = lenSrc /\ lenOut' = lenOut /\ nBuckets' = nBuckets
  BY <1>1, InputsStay
<1>8. TypeOK'
  <2>1. best' \in [cnt : 0 .. lenOut, ofst : 0 .. lenSrc, litsz : 0 .. lenOut]
    BY <1>1, <1>3 DEF NoMatch
  <2>2. i' \in 0 .. lenOut
    BY <1>1, <1>3
  <2> QED BY <1>1, <1>5, <1>6, <1>7, <2>1, <2>2 DEF TypeOK
<1>9. AtWindow'
  <2>1. base' + i' = base /\ base' + i' + hashWindow <= lenOut'
    BY <1>1, <1>2, <1>3, <1>7
  <2>2. Rolls(h', target', base' + i')
    BY <1>1, <1>4, <2>1
  <2>3. best'.cnt = 0 /\ best'.litsz = 0
    BY <1>1 DEF NoMatch
  <2>4. base' + best'.litsz + best'.cnt <= lenOut' /\ ~ (best'.cnt > 0)
    BY <1>1, <1>2, <1>3, <1>7, <2>3
  <2> QED BY <1>1, <1>5, <1>7, <2>1, <2>2, <2>4 DEF AtWindow
<1> QED BY <1>6, <1>8, <1>9 DEF EncInv

\* A candidate is a match within both inputs, none of it before base in the target.
LEMMA candidateIs ==
    ASSUME EncInv, pc = "probe", next # 0
    PROVE  LET m == candidate(next - 1)
           IN  /\ m \in [cnt : 0 .. lenOut, ofst : 0 .. lenSrc, litsz : 0 .. lenOut]
               /\ base + m.litsz + m.cnt <= lenOut
<1> DEFINE iSrc == (next - 1) * hashWindow
           y == base + i
           fwd == commonPrefixLen(origin, iSrc, target, y)
           k == commonSuffixLen(origin, iSrc, target, y, backLimit(iSrc))
           m == candidate(next - 1)
<1>1. /\ TypeOK /\ Filed /\ AtWindow
      /\ origin \in Seq(Byte) /\ target \in Seq(Byte) /\ lenSrc > hashWindow
      /\ next \in Nat /\ next <= blk /\ blk \in 0 .. nBlocks
      /\ base \in 0 .. lenOut /\ i \in 0 .. lenOut
      /\ base + i + hashWindow <= lenOut
  BY DEF EncInv, TypeOK, Filed, AtWindow
<1>2. lenSrc \in Nat /\ lenOut \in Nat /\ nBlocks \in Nat /\ hashWindow \in Nat
  BY <1>1, InputsAre, WindowIs
<1>3. iSrc \in 0 .. lenSrc
  <2>1. next - 1 \in Nat /\ next - 1 <= nBlocks
    BY <1>1, <1>2
  <2>2. iSrc \in Nat
    BY <1>2, <2>1
  <2>3. iSrc <= lenSrc
    BY <1>1, <2>1, BlocksIs
  <2> HIDE DEF iSrc
  <2> QED BY <1>2, <2>2, <2>3
<1> HIDE DEF iSrc
<1>4. y \in 0 .. lenOut
  BY <1>1, <1>2
<1> HIDE DEF y
<1>5. fwd \in Nat /\ y + fwd <= lenOut
  BY <1>1, <1>3, <1>4, commonPrefixSame DEF lenSrc, lenOut
<1>6. backLimit(iSrc) \in Nat /\ backLimit(iSrc) <= i /\ backLimit(iSrc) <= iSrc
  BY <1>1, <1>2, <1>3 DEF backLimit, min
<1>7. k \in Nat /\ k <= i /\ k <= iSrc
  <2>1. k \in 0 .. backLimit(iSrc)
    BY <1>6, commonSuffixSame
  <2> HIDE DEF k
  <2> QED BY <1>1, <1>3, <1>6, <2>1
<1>8. m = [cnt |-> fwd + k, ofst |-> iSrc - k, litsz |-> i - k]
  BY DEF candidate, iSrc, y
<1> HIDE DEF fwd, k
<1>9. /\ fwd + k \in 0 .. lenOut /\ iSrc - k \in 0 .. lenSrc /\ i - k \in 0 .. lenOut
      /\ base + (i - k) + (fwd + k) <= lenOut
  BY <1>1, <1>2, <1>3, <1>4, <1>5, <1>7 DEF y
<1> HIDE DEF m
<1>10. /\ m \in [cnt : 0 .. lenOut, ofst : 0 .. lenSrc, litsz : 0 .. lenOut]
       /\ m.cnt = fwd + k /\ m.litsz = i - k
  BY <1>8, <1>9
<1>11. base + m.litsz + m.cnt <= lenOut
  BY <1>9, <1>10
<1> QED BY <1>10, <1>11 DEF m

LEMMA ProbeKeeps == ASSUME EncInv, Probe PROVE EncInv' /\ next' < next
<1> DEFINE m == candidate(next - 1)
<1>1. /\ TypeOK /\ Filed /\ AtWindow /\ pc = "probe" /\ next # 0 /\ limit > 0
      /\ best' = IF m.cnt > best.cnt /\ m.cnt >= price(m) THEN m ELSE best
      /\ next' = collide[next - 1] /\ limit' = limit - 1
      /\ UNCHANGED <<origin, target, dst, pc, collide, landmark, blk, base, i, h>>
  BY DEF EncInv, Probe, tables
<1>2. /\ m \in [cnt : 0 .. lenOut, ofst : 0 .. lenSrc, litsz : 0 .. lenOut]
      /\ base + m.litsz + m.cnt <= lenOut
  BY <1>1, candidateIs
<1> HIDE DEF m
<1>3. /\ origin \in Seq(Byte) /\ target \in Seq(Byte) /\ lenSrc > hashWindow
      /\ next \in Nat /\ next <= blk /\ blk \in 0 .. nBlocks /\ collide \in Table
      /\ bucketOf(origin, next - 1) = bucketIndex(rollValue(h), nBuckets)
  BY <1>1 DEF TypeOK, Filed, AtWindow
<1>4. nBlocks \in Nat /\ nBuckets \in Nat /\ nBlocks <= nBuckets
  BY <1>3, BlocksIs
<1>5. next - 1 \in 0 .. blk - 1 /\ next - 1 \in 0 .. nBuckets - 1
  BY <1>1, <1>3, <1>4
<1>6. /\ next' \in Nat /\ next' <= next - 1
      /\ next' # 0 => bucketOf(origin, next' - 1) = bucketOf(origin, next - 1)
  BY <1>1, <1>3, <1>5 DEF Table, Filed
<1>7. next' < next /\ next' <= blk
  BY <1>3, <1>4, <1>6
<1>8. /\ Filed' /\ collide' \in Table' /\ landmark' \in Table' /\ blk' \in 0 .. nBlocks'
  BY <1>1, FiledStays
<1>9. lenSrc' = lenSrc /\ lenOut' = lenOut /\ nBuckets' = nBuckets
  BY <1>1, InputsStay
<1>10. /\ best' \in [cnt : 0 .. lenOut, ofst : 0 .. lenSrc, litsz : 0 .. lenOut]
       /\ base + best'.litsz + best'.cnt <= lenOut
       /\ best'.cnt > 0 => best'.cnt >= price(best')
  <2>1. /\ best \in [cnt : 0 .. lenOut, ofst : 0 .. lenSrc, litsz : 0 .. lenOut]
        /\ base + best.litsz + best.cnt <= lenOut
        /\ best.cnt > 0 => best.cnt >= price(best)
    BY <1>1 DEF TypeOK, AtWindow
  <2>2. CASE m.cnt > best.cnt /\ m.cnt >= price(m)
    BY <1>1, <1>2, <2>2
  <2>3. CASE ~ (m.cnt > best.cnt /\ m.cnt >= price(m))
    BY <1>1, <2>1, <2>3
  <2> QED BY <2>2, <2>3
<1>11. limit' \in 0 .. maxCandidates
  BY <1>1, EncoderAssumption DEF TypeOK
<1>12. TypeOK'
  BY <1>1, <1>6, <1>8, <1>9, <1>10, <1>11 DEF TypeOK
<1>13. AtWindow'
  <2>1. base' + i' + hashWindow <= lenOut' /\ Rolls(h', target', base' + i')
    BY <1>1, <1>9 DEF AtWindow
  <2>2. next' # 0 => bucketOf(origin', next' - 1) = bucketIndex(rollValue(h'), nBuckets')
    BY <1>1, <1>3, <1>6, <1>9
  <2>3. next' <= blk'
    BY <1>1, <1>7
  <2>4. base' + best'.litsz + best'.cnt <= lenOut' /\ (best'.cnt > 0 => best'.cnt >= price(best'))
    BY <1>1, <1>9, <1>10
  <2> QED BY <2>1, <2>2, <2>3, <2>4 DEF AtWindow
<1> QED BY <1>7, <1>8, <1>12, <1>13 DEF EncInv

\* The copy the search has settled on, and what is written for it.
LEMMA EmitCopyWrites ==
    ASSUME EncInv, EmitCopy
    PROVE  /\ best.cnt \in 1 .. lenOut /\ best.litsz \in 0 .. lenOut /\ best.ofst \in 0 .. lenSrc
           /\ best.cnt >= price(best)
           /\ base' = base + best.litsz + best.cnt /\ base' \in 0 .. lenOut
           /\ dst' \in Seq(Byte)
           /\ Len(dst') = Len(dst)
                 + (IF best.litsz > 0 THEN digitCount(best.litsz) + 1 + best.litsz ELSE 0)
                 + digitCount(best.cnt) + 1 + digitCount(best.ofst) + 1
<1>1. /\ TypeOK /\ AtWindow /\ pc = "probe" /\ best.cnt > 0
      /\ base' = base + best.litsz + best.cnt
  BY DEF EncInv, EmitCopy, Tried
<1>2. /\ target \in Seq(Byte) /\ origin \in Seq(Byte) /\ dst \in Seq(Byte)
      /\ base \in 0 .. lenOut
      /\ best \in [cnt : 0 .. lenOut, ofst : 0 .. lenSrc, litsz : 0 .. lenOut]
      /\ base + best.litsz + best.cnt <= lenOut /\ best.cnt >= price(best)
  BY <1>1 DEF TypeOK, AtWindow
<1>3. lenOut \in Nat /\ lenSrc \in Nat
  BY <1>2, InputsAre
<1>4. /\ best.cnt \in 1 .. lenOut /\ best.litsz \in 0 .. lenOut /\ best.ofst \in 0 .. lenSrc
      /\ best.cnt \in Nat /\ best.ofst \in Nat /\ best.litsz \in Nat
  BY <1>1, <1>2, <1>3
<1>5. base' \in 0 .. lenOut
  BY <1>1, <1>2, <1>3, <1>4
<1> DEFINE e == IF best.litsz > 0 THEN literal(dst, base, base + best.litsz) ELSE dst
           x == IF best.litsz > 0 THEN digitCount(best.litsz) + 1 + best.litsz ELSE 0
<1>6. e \in Seq(Byte) /\ Len(e) = Len(dst) + x
  <2>1. CASE best.litsz > 0
    <3>1. base + best.litsz \in base .. lenOut /\ (base + best.litsz) - base = best.litsz
      BY <1>2, <1>3, <1>4
    <3>2. e \in Seq(Byte) /\ Len(e) = Len(dst) + digitCount(best.litsz) + 1 + best.litsz
      BY <1>2, <2>1, <3>1, literalIs
    <3>3. Len(dst) \in Nat /\ digitCount(best.litsz) \in Nat
      BY <1>2, <1>4, digitCountType
    <3> QED BY <1>4, <2>1, <3>2, <3>3, SMTT(30)
  <2>2. CASE ~ (best.litsz > 0)
    <3>1. Len(dst) \in Nat
      BY <1>2
    <3> QED BY <1>2, <2>2, <3>1
  <2> QED BY <2>1, <2>2
<1>7. dst' = copy(e, best)
  BY DEF EmitCopy
<1> HIDE DEF e, x
<1>8. dst' \in Seq(Byte) /\ Len(dst') = Len(dst) + x + digitCount(best.cnt) + 1 + digitCount(best.ofst) + 1
  BY <1>4, <1>6, <1>7, copyIs
<1> QED BY <1>1, <1>2, <1>4, <1>5, <1>8 DEF x

LEMMA EmitCopyKeeps == ASSUME EncInv, EmitCopy PROVE EncInv'
<1>1. /\ TypeOK /\ Filed /\ pc = "probe" /\ pc' = "outer"
      /\ UNCHANGED <<origin, target, collide, landmark, blk, i, h, next, limit, best>>
  BY DEF EncInv, EmitCopy, Tried, tables
<1>2. dst' \in Seq(Byte) /\ base' \in 0 .. lenOut
  BY EmitCopyWrites
<1>3. /\ Filed' /\ collide' \in Table' /\ landmark' \in Table' /\ blk' \in 0 .. nBlocks'
  BY <1>1, FiledStays
<1>4. TypeOK'
  BY <1>1, <1>2, <1>3, InputsStay DEF TypeOK
<1> QED BY <1>1, <1>3, <1>4 DEF EncInv, AtWindow

LEMMA EmitRestKeeps == ASSUME EncInv, EmitRest PROVE EncInv'
<1>1. /\ TypeOK /\ Filed /\ pc = "probe" /\ pc' = "outer"
      /\ dst' = literal(dst, base, lenOut) /\ base' = lenOut
      /\ UNCHANGED <<origin, target, collide, landmark, blk, i, h, next, limit, best>>
  BY DEF EncInv, EmitRest, Tried, tables
<1>2. /\ origin \in Seq(Byte) /\ target \in Seq(Byte) /\ dst \in Seq(Byte)
      /\ base \in 0 .. lenOut
  BY <1>1 DEF TypeOK
<1>3. lenOut \in base .. lenOut /\ lenOut \in 0 .. lenOut
  BY <1>2, InputsAre
<1>4. dst' \in Seq(Byte)
  BY <1>1, <1>2, <1>3, literalIs
<1>5. /\ Filed' /\ collide' \in Table' /\ landmark' \in Table' /\ blk' \in 0 .. nBlocks'
  BY <1>1, FiledStays
<1>6. TypeOK'
  BY <1>1, <1>3, <1>4, <1>5, InputsStay DEF TypeOK
<1> QED BY <1>1, <1>5, <1>6 DEF EncInv, AtWindow

LEMMA SlideKeeps == ASSUME EncInv, Slide PROVE EncInv'
<1>1. /\ TypeOK /\ Filed /\ AtWindow /\ pc = "probe" /\ best.cnt = 0
      /\ base + i + hashWindow < lenOut
      /\ h' = rollNext(h, target[base + i + hashWindow + 1]) /\ i' = i + 1 /\ Look(h')
      /\ UNCHANGED <<origin, target, dst, collide, landmark, blk, base, best>>
  BY DEF EncInv, Slide, Tried, tables
<1>2. /\ origin \in Seq(Byte) /\ target \in Seq(Byte)
      /\ base \in Nat /\ i \in Nat /\ hashWindow \in Nat
      /\ lenOut \in Nat /\ lenOut = Len(target) /\ Rolls(h, target, base + i)
  <2>1. origin \in Seq(Byte) /\ target \in Seq(Byte)
    BY <1>1 DEF TypeOK
  <2>2. lenOut \in Nat
    BY <2>1, InputsAre
  <2> QED BY <1>1, <2>1, <2>2, WindowIs DEF TypeOK, AtWindow, lenOut
<1> DEFINE p == base + i
<1>3. p \in Nat /\ p + 1 \in Nat /\ p + hashWindow < lenOut /\ base + (i + 1) = p + 1
  BY <1>1, <1>2
<1>4. Fits(target, p) /\ Fits(target, p + 1)
  <2> HIDE DEF p
  <2> QED BY <1>2, <1>3 DEF Fits
<1>5. Rolls(h', target, p + 1)
  <2>1. h' = rollNext(h, target[p + hashWindow + 1]) /\ Rolls(h, target, p)
    BY <1>1, <1>2
  <2> HIDE DEF p
  <2> QED BY <1>4, <2>1, rollNextRolls
<1>6. /\ pc' = "probe" /\ limit' \in 0 .. maxCandidates
      /\ next' \in Nat /\ next' <= blk
      /\ next' # 0 => bucketOf(origin, next' - 1) = bucketIndex(rollValue(h'), nBuckets)
  <2> HIDE DEF p
  <2> QED BY <1>1, <1>4, <1>5, LookFinds
<1>7. /\ Filed' /\ collide' \in Table' /\ landmark' \in Table' /\ blk' \in 0 .. nBlocks'
  BY <1>1, FiledStays
<1>8. lenSrc' = lenSrc /\ lenOut' = lenOut /\ nBuckets' = nBuckets
  BY <1>1, InputsStay
<1>9. TypeOK'
  <2>1. i' \in 0 .. lenOut
    BY <1>1, <1>2, <1>3
  <2> QED BY <1>1, <1>6, <1>7, <1>8, <2>1 DEF TypeOK
<1>10. AtWindow'
  <2>1. base' + i' = p + 1
    BY <1>1, <1>3
  <2>2. base' + i' + hashWindow <= lenOut'
    <3> HIDE DEF p
    <3> QED BY <1>2, <1>3, <1>8, <2>1
  <2>3. Rolls(h', target', base' + i')
    BY <1>1, <1>5, <2>1
  <2>4. base' + best'.litsz + best'.cnt <= lenOut' /\ ~ (best'.cnt > 0)
    BY <1>1, <1>8 DEF AtWindow
  <2> QED BY <1>1, <1>6, <1>8, <2>2, <2>3, <2>4 DEF AtWindow
<1> QED BY <1>7, <1>9, <1>10 DEF EncInv

LEMMA FinishWrites ==
    ASSUME EncInv, Finish
    PROVE  /\ dst' \in Seq(Byte)
           /\ Len(dst') = Len(dst)
                 + (IF base < lenOut THEN digitCount(lenOut - base) + 1 + (lenOut - base) ELSE 0)
                 + digitCount(checksum(target)) + 1
<1> DEFINE e == IF base < lenOut THEN literal(dst, base, lenOut) ELSE dst
           x == IF base < lenOut THEN digitCount(lenOut - base) + 1 + (lenOut - base) ELSE 0
<1>1. TypeOK /\ dst' = trailer(e)
  BY DEF EncInv, Finish
<1>2. target \in Seq(Byte) /\ origin \in Seq(Byte) /\ dst \in Seq(Byte) /\ base \in 0 .. lenOut
  BY <1>1 DEF TypeOK
<1>3. lenOut \in Nat /\ lenOut \in base .. lenOut /\ lenOut - base \in Nat
  BY <1>2, InputsAre
<1>4. Len(dst) \in Nat /\ digitCount(lenOut - base) \in Nat
  BY <1>2, <1>3, digitCountType, SMTT(30)
<1>5. e \in Seq(Byte) /\ Len(e) = Len(dst) + x
  <2>1. CASE base < lenOut
    <3>1. e \in Seq(Byte) /\ Len(e) = Len(dst) + digitCount(lenOut - base) + 1 + (lenOut - base)
      BY <1>2, <1>3, <2>1, literalIs
    <3> QED BY <1>3, <1>4, <2>1, <3>1
  <2>2. CASE ~ (base < lenOut)
    BY <1>2, <1>4, <2>2
  <2> QED BY <2>1, <2>2
<1> HIDE DEF e, x
<1>6. dst' \in Seq(Byte) /\ Len(dst') = Len(dst) + x + digitCount(checksum(target)) + 1
  BY <1>1, <1>2, <1>5, trailerIs
<1> QED BY <1>6 DEF x

LEMMA FinishKeeps == ASSUME EncInv, Finish PROVE EncInv'
<1>1. /\ TypeOK /\ pc = "outer" /\ pc' = "done" /\ base' = lenOut
      /\ UNCHANGED <<origin, target, collide, landmark, blk, i, h, next, limit, best>>
  BY DEF EncInv, Finish, tables
<1>2. origin \in Seq(Byte) /\ target \in Seq(Byte)
  BY <1>1 DEF TypeOK
<1>3. base' \in 0 .. lenOut
  BY <1>1, <1>2, InputsAre
<1>4. TypeOK'
  BY <1>1, <1>3, FinishWrites, InputsStay DEF TypeOK
<1> QED BY <1>1, <1>4 DEF EncInv, Filed, AtWindow

LEMMA EncInductive == ASSUME EncInv, [Next]_vars PROVE EncInv'
<1>1. CASE Next
  BY <1>1, ReturnsEarly, StartKeeps, IndexBlockKeeps, IndexDoneKeeps, OuterKeeps, ProbeKeeps,
     EmitCopyKeeps, EmitRestKeeps, SlideKeeps, FinishKeeps DEF Next
<1>2. CASE UNCHANGED vars
  <2>1. /\ TypeOK /\ Filed /\ AtWindow
        /\ UNCHANGED <<origin, target, dst, pc, collide, landmark, blk, base, i, h, next,
                        limit, best>>
    BY <1>2 DEF EncInv, vars
  <2>2. TypeOK'
    BY <2>1, InputsStay DEF TypeOK
  <2>3. Filed'
    BY <2>1, InputsStay DEF Filed
  <2>4. AtWindow'
    BY <2>1, InputsStay DEF AtWindow
  <2> QED BY <2>2, <2>3, <2>4 DEF EncInv
<1> QED BY <1>1, <1>2

LEMMA EncAlways == Spec => []EncInv
<1>1. Init => EncInv
  BY InitEnc
<1>2. EncInv /\ [Next]_vars => EncInv'
  BY EncInductive
<1> QED BY <1>1, <1>2, PTL DEF Spec

(***************************************************************************)
(* What follows from it.                                                   *)
(***************************************************************************)

\* Every variable of the encoder keeps its type, in every format and for every source
\* and target (create.go: AppendCreate).
THEOREM EncoderTypes == Spec => []TypeOK
<1>1. EncInv => TypeOK
  BY DEF EncInv
<1> QED BY <1>1, EncAlways, PTL

\* The hash carried along is at every place the hash of the window there (hash.go:
\* rollingHash.next).
THEOREM RollingHash == Spec => []RollingHashIsBlockHash
<1>1. EncInv => RollingHashIsBlockHash
  BY rollValueIsBlockHash DEF EncInv, AtWindow, RollingHashIsBlockHash
<1> QED BY <1>1, EncAlways, PTL

\* Whatever collide held, a candidate is a block that this call has filed in the window's
\* bucket (create.go: scratch).
THEOREM OwnBlocks == Spec => []CandidatesAreOwnBlocks
<1>1. EncInv => CandidatesAreOwnBlocks
  BY BucketIs DEF EncInv, AtWindow, CandidatesAreOwnBlocks
<1> QED BY <1>1, EncAlways, PTL

\* Each candidate of a chain is an older block than the one before (create.go:
\* AppendCreate).
THEOREM Descending == Spec => ChainsDescend
<1>1. EncInv /\ [Next]_vars => [Probe => next' < next]_vars
  BY ProbeKeeps
<1> QED BY <1>1, EncAlways, PTL DEF Spec, ChainsDescend

(***************************************************************************)
(* The delta's length.  What a copy saves pays for its command and for the *)
(* command of the literal before it; the only literal that nothing pays    *)
(* for is the last one, and it costs no more than one of the whole target. *)
(***************************************************************************)

command == digitCount(lenOut) + 1

Cost ==
    /\ pc = "start" => dst = <<>> /\ base = 0
    /\ pc \in {"index", "outer", "probe"} =>
          Len(dst) <= command + base + (IF base = lenOut THEN command ELSE 0)
    /\ NeverLongerThanLiteral

LEMMA commandIs ==
    ASSUME target \in Seq(Byte)
    PROVE  /\ lenOut \in Nat /\ command \in Nat /\ digitCount(checksum(target)) \in Nat
           /\ \A n \in 0 .. lenOut : digitCount(n) \in Nat /\ digitCount(n) + 1 <= command
<1>1. lenOut \in Nat
  BY DEF lenOut
<1>2. checksum(target) \in Nat
  BY checksumType, WordsAreNat
<1>3. \A n \in 0 .. lenOut : digitCount(n) \in Nat /\ digitCount(n) <= digitCount(lenOut)
  BY <1>1, digitCountType, digitCountMonotone
<1>4. digitCount(lenOut) \in Nat
  BY <1>1, digitCountType
<1>5. digitCount(checksum(target)) \in Nat
  BY <1>2, digitCountType
<1>6. command \in Nat
  BY <1>4 DEF command
<1>7. \A n \in 0 .. lenOut : digitCount(n) + 1 <= command
  BY <1>3, <1>4 DEF command
<1> QED BY <1>1, <1>3, <1>5, <1>6, <1>7

LEMMA allLiteralIs ==
    ASSUME target \in Seq(Byte)
    PROVE  Len(trailer(literal(appendInt(<<>>, lenOut, NewLine), 0, lenOut)))
              = command + command + lenOut + digitCount(checksum(target)) + 1
<1> DEFINE d == appendInt(<<>>, lenOut, NewLine)
           e == literal(d, 0, lenOut)
<1>1. lenOut \in Nat /\ <<>> \in Seq(Byte) /\ Len(<<>>) = 0
  BY DEF lenOut
<1>2. digitCount(lenOut) \in Nat
  BY <1>1, digitCountType
<1>3. d \in Seq(Byte) /\ Len(d) = command
  <2>1. d \in Seq(Byte) /\ Len(d) = Len(<<>>) + digitCount(lenOut) + 1
    BY <1>1, CommandsAreBytes, appendIntType, appendIntLength
  <2> HIDE DEF d
  <2> QED BY <1>1, <1>2, <2>1 DEF command
<1>4. e \in Seq(Byte) /\ Len(e) = Len(d) + command + lenOut
  <2>1. 0 \in 0 .. lenOut /\ lenOut \in 0 .. lenOut /\ lenOut - 0 = lenOut
    BY <1>1
  <2> HIDE DEF d
  <2>2. e \in Seq(Byte) /\ Len(e) = Len(d) + digitCount(lenOut - 0) + 1 + (lenOut - 0)
    BY <1>3, <2>1, literalIs
  <2> HIDE DEF e
  <2>3. Len(d) \in Nat
    BY <1>3
  <2> QED BY <1>1, <1>2, <2>1, <2>2, <2>3 DEF command
<1> HIDE DEF d, e
<1>5. Len(trailer(e)) = Len(e) + digitCount(checksum(target)) + 1
  BY <1>4, trailerIs
<1> QED BY <1>3, <1>4, <1>5 DEF d, e

LEMMA CostStays ==
    ASSUME UNCHANGED <<origin, target>>
    PROVE  /\ lenOut' = lenOut /\ command' = command
           /\ fitsFormat(lenOut)' = fitsFormat(lenOut) /\ fitsFormat(lenSrc)' = fitsFormat(lenSrc)
           /\ trailer(literal(appendInt(<<>>, lenOut, NewLine), 0, lenOut))'
                 = trailer(literal(appendInt(<<>>, lenOut, NewLine), 0, lenOut))
<1>1. lenOut' = lenOut /\ lenSrc' = lenSrc
  BY DEF lenOut, lenSrc
<1> QED BY <1>1 DEF command, trailer, literal

LEMMA InitCost == ASSUME Init PROVE Cost
  BY DEF Init, Cost, NeverLongerThanLiteral

LEMMA StepCost == ASSUME EncInv, Cost, Next PROVE Cost'
<1>1. /\ TypeOK /\ UNCHANGED <<origin, target>>
  BY DEF EncInv, Next, Unrepresentable, ShortSource, Start, IndexBlock, IndexDone, Outer, Probe,
     EmitCopy, EmitRest, Slide, Finish
<1>2. origin \in Seq(Byte) /\ target \in Seq(Byte) /\ dst \in Seq(Byte) /\ Len(dst) \in Nat
      /\ base \in 0 .. lenOut
  BY <1>1 DEF TypeOK
<1>3. /\ lenOut \in Nat /\ command \in Nat /\ digitCount(checksum(target)) \in Nat
      /\ \A n \in 0 .. lenOut : digitCount(n) \in Nat /\ digitCount(n) + 1 <= command
  BY <1>2, commandIs
<1>4. lenOut' = lenOut /\ command' = command
  BY <1>1, CostStays
<1>5. ASSUME pc' # "start",
             pc' \in {"index", "outer", "probe"} =>
                Len(dst') <= command + base' + (IF base' = lenOut THEN command ELSE 0),
             pc' = "done" =>
                \/ ~ (fitsFormat(lenOut) /\ fitsFormat(lenSrc))
                \/ Len(dst') <= command + command + lenOut + digitCount(checksum(target)) + 1
      PROVE  Cost'
  <2>1. NeverLongerThanLiteral'
    BY <1>1, <1>2, <1>5, CostStays, allLiteralIs DEF NeverLongerThanLiteral
  <2> QED BY <1>4, <1>5, <2>1 DEF Cost
<1>6. CASE Unrepresentable
  BY <1>5, <1>6 DEF Unrepresentable
<1>7. CASE ShortSource
  <2>1. pc' = "done" /\ dst' = trailer(literal(appendInt(<<>>, lenOut, NewLine), 0, lenOut))
    BY <1>7 DEF ShortSource, Cost
  <2>2. Len(dst') <= command + command + lenOut + digitCount(checksum(target)) + 1
    <3>1. Len(dst') = command + command + lenOut + digitCount(checksum(target)) + 1
      BY <1>2, <2>1, allLiteralIs
    <3> QED BY <1>3, <3>1
  <2> QED BY <1>5, <2>1, <2>2
<1>8. CASE Start
  <2>1. pc' = "index" /\ base' = 0 /\ dst' = appendInt(<<>>, lenOut, NewLine)
    BY <1>8 DEF Start, Cost
  <2>2. Len(dst') = 0 + digitCount(lenOut) + 1
    <3>1. <<>> \in Seq(Byte) /\ Len(<<>>) = 0
      OBVIOUS
    <3>2. Len(dst') = Len(<<>>) + digitCount(lenOut) + 1
      BY <1>3, <2>1, <3>1, CommandsAreBytes, appendIntLength
    <3> QED BY <3>1, <3>2
  <2>3. digitCount(lenOut) \in Nat
    BY <1>3
  <2>4. Len(dst') = command
    BY <2>2, <2>3 DEF command
  <2> QED BY <1>3, <1>5, <2>1, <2>4
<1>9. CASE IndexBlock \/ IndexDone \/ Outer \/ Probe \/ Slide
  <2>1. /\ pc \in {"index", "outer", "probe"} /\ pc' \in {"index", "outer", "probe"}
        /\ dst' = dst /\ base' = base
    BY <1>9 DEF IndexBlock, IndexDone, Outer, Probe, Slide, Tried, Look
  <2>2. Len(dst) <= command + base + (IF base = lenOut THEN command ELSE 0)
    BY <2>1 DEF Cost
  <2> QED BY <1>5, <2>1, <2>2
<1>10. CASE EmitCopy
  <2> DEFINE c == best.cnt
             l == best.litsz
             dc == digitCount(c)
             dl == digitCount(l)
             do == digitCount(best.ofst)
  <2>1. /\ c \in 1 .. lenOut /\ l \in 0 .. lenOut /\ best.ofst \in 0 .. lenSrc
        /\ c >= dl + dc + do + 3
        /\ base' = base + l + c /\ base' \in 0 .. lenOut /\ dst' \in Seq(Byte)
        /\ Len(dst') = Len(dst) + (IF l > 0 THEN dl + 1 + l ELSE 0) + dc + 1 + do + 1
    BY <1>10, EmitCopyWrites DEF price
  <2>2. dc \in Nat /\ dl \in Nat /\ do \in Nat
    <3>1. lenSrc \in Nat
      BY <1>2, InputsAre
    <3>2. c \in Nat /\ l \in Nat /\ best.ofst \in Nat
      <4>1. c \in 1 .. lenOut /\ l \in 0 .. lenOut /\ best.ofst \in 0 .. lenSrc
        BY <2>1
      <4>2. \A k \in Nat : \A x \in 0 .. k : x \in Nat
        OBVIOUS
      <4>3. l \in Nat /\ best.ofst \in Nat
        BY <1>3, <3>1, <4>1, <4>2
      <4>4. \A k \in Nat : \A x \in 1 .. k : x \in Nat
        OBVIOUS
      <4> QED BY <1>3, <4>1, <4>3, <4>4
    <3> QED BY <3>2, digitCountType
  <2>3. pc' = "outer" /\ pc = "probe" /\ Len(dst') \in Nat
    BY <1>10, <2>1 DEF EmitCopy, Tried
  <2> HIDE DEF c, l, dc, dl, do
  <2>4. base < lenOut
    BY <1>2, <1>3, <2>1
  <2>5. Len(dst) <= command + base
    BY <1>2, <1>3, <2>3, <2>4 DEF Cost
  <2>6. Len(dst') <= command + base'
    <3>1. CASE l > 0
      BY <1>2, <1>3, <2>1, <2>2, <2>5, <3>1
    <3>2. CASE ~ (l > 0)
      BY <1>2, <1>3, <2>1, <2>2, <2>5, <3>2
    <3> QED BY <3>1, <3>2
  <2>7. Len(dst') <= command + base' + (IF base' = lenOut THEN command ELSE 0)
    <3>1. CASE base' = lenOut
      <4>1. base' \in Nat
        BY <1>3, <3>1
      <4>2. \A x, y, z \in Nat : z <= x + y => z <= x + y + x
        OBVIOUS
      <4>3. Len(dst') <= command + base' + command
        BY <1>3, <2>3, <2>6, <4>1, <4>2
      <4> QED BY <3>1, <4>3
    <3>2. CASE base' # lenOut
      <4>1. base' \in Nat
        BY <1>3, <2>1
      <4>2. \A x, y, z \in Nat : z <= x + y => z <= x + y + 0
        OBVIOUS
      <4> QED BY <1>3, <2>3, <2>6, <3>2, <4>1, <4>2
    <3> QED BY <3>1, <3>2
  <2> QED BY <1>5, <2>3, <2>7
<1>11. CASE EmitRest
  <2>1. /\ pc = "probe" /\ pc' = "outer" /\ base' = lenOut /\ dst' = literal(dst, base, lenOut)
    BY <1>11 DEF EmitRest, Tried
  <2>2. base < lenOut
    <3>1. base + i + hashWindow <= lenOut /\ i \in 0 .. lenOut
      BY <1>1, <2>1 DEF EncInv, AtWindow, TypeOK
    <3> QED BY <1>2, <1>3, <3>1, WindowIs
  <2>3. Len(dst) <= command + base
    BY <1>2, <1>3, <2>1, <2>2 DEF Cost
  <2>4. Len(dst') = Len(dst) + digitCount(lenOut - base) + 1 + (lenOut - base)
    BY <1>2, <1>3, <2>1, literalIs
  <2>5. digitCount(lenOut - base) \in Nat /\ digitCount(lenOut - base) + 1 <= command
    BY <1>2, <1>3
  <2>6. Len(dst') <= command + lenOut + command
    BY <1>2, <1>3, <2>3, <2>4, <2>5, SMTT(30)
  <2> QED BY <1>5, <2>1, <2>6
<1>12. CASE Finish
  <2>1. /\ pc = "outer" /\ pc' = "done"
        /\ Len(dst') = Len(dst)
              + (IF base < lenOut THEN digitCount(lenOut - base) + 1 + (lenOut - base) ELSE 0)
              + digitCount(checksum(target)) + 1
    BY <1>12, FinishWrites DEF Finish
  <2>2. Len(dst) <= command + base + (IF base = lenOut THEN command ELSE 0)
    BY <2>1 DEF Cost
  <2>3. digitCount(lenOut - base) \in Nat /\ digitCount(lenOut - base) + 1 <= command
    BY <1>2, <1>3
  <2>4. Len(dst') <= command + command + lenOut + digitCount(checksum(target)) + 1
    <3>1. CASE base = lenOut
      BY <1>2, <1>3, <2>1, <2>2, <3>1
    <3>2. CASE base # lenOut
      BY <1>2, <1>3, <2>1, <2>2, <2>3, <3>2, SMTT(30)
    <3> QED BY <3>1, <3>2
  <2> QED BY <1>5, <2>1, <2>4
<1> QED BY <1>6, <1>7, <1>8, <1>9, <1>10, <1>11, <1>12 DEF Next

\* Searching never makes the delta longer than the one that is all literal, whatever the
\* source, the target and the leftovers of the pool (create.go: AppendCreate).
THEOREM NeverLonger == Spec => []NeverLongerThanLiteral
<1>1. Init => Cost
  BY InitCost
<1>2. EncInv /\ EncInv' /\ Cost /\ [Next]_vars => Cost'
  <2>1. ASSUME Cost, UNCHANGED vars PROVE Cost'
    <3>1. UNCHANGED <<origin, target, dst, pc, base>>
      BY <2>1 DEF vars
    <3> QED BY <2>1, <3>1, CostStays DEF Cost, NeverLongerThanLiteral
  <2> QED BY <2>1, StepCost
<1>3. Cost => NeverLongerThanLiteral
  BY DEF Cost
<1> QED BY <1>1, <1>2, <1>3, EncAlways, PTL DEF Spec

(***************************************************************************)
(* What is written is a delta from the source to the target: every command *)
(* adds the bytes of the target that come next.                            *)
(***************************************************************************)

\* d is the header and commands that rebuild the first k bytes of the target.
Built(d, k) ==
    \E b \in Seq(Byte) : /\ d = appendInt(<<>>, lenOut, NewLine) \o b
                         /\ Commands(b, origin, SubSeq(target, 1, k))

\* m says of a match, found from base on, what is so.
Matches(m) ==
    /\ m.ofst + m.cnt <= lenSrc
    /\ \A k \in 1 .. m.cnt : origin[m.ofst + k] = target[base + m.litsz + k]

Rebuilt ==
    /\ pc = "start" => dst = <<>> /\ base = 0
    /\ pc \in {"index", "outer", "probe"} => Representable /\ Built(dst, base)
    /\ pc = "probe" /\ best.cnt > 0 => Matches(best)
    /\ pc = "done" => IF Representable THEN Describes(dst, origin, target)
                      ELSE dst = appendInt(<<>>, 0, NewLine)

LEMMA RepresentableIs ==
    ASSUME origin \in Seq(Byte), target \in Seq(Byte)
    PROVE  Representable <=> fitsFormat(lenOut) /\ fitsFormat(lenSrc)
  BY InputsAre, CodecAssumption DEF Representable, fitsFormat, maxFormatLen

LEMMA HeaderIs ==
    ASSUME target \in Seq(Byte)
    PROVE  appendInt(<<>>, lenOut, NewLine) \in Seq(Byte)
<1>1. lenOut \in Nat /\ <<>> \in Seq(Byte) /\ NewLine \in Byte
  BY CodecAssumption DEF lenOut, CommandBytes
<1> QED BY <1>1, appendIntType

\* A literal of the bytes that come next.
LEMMA BuiltLiteral ==
    ASSUME origin \in Seq(Byte), target \in Seq(Byte), Representable,
           NEW from \in 0 .. lenOut, NEW to \in from .. lenOut,
           NEW d, Built(d, from)
    PROVE  Built(literal(d, from, to), to)
<1> DEFINE hd == appendInt(<<>>, lenOut, NewLine)
           t == SubSeq(target, from + 1, to)
           x == SubSeq(target, 1, from)
           n == to - from
           a == appendInt(<<>>, n, Colon)
           lit == a \o t
<1>1. PICK b \in Seq(Byte) : d = hd \o b /\ Commands(b, origin, x)
  BY DEF Built
<1>2. /\ x \in Seq(Byte) /\ t \in Seq(Byte) /\ Len(t) = n
      /\ SubSeq(target, 1, to) = x \o t
  BY PrefixSplits DEF lenOut
<1>3. n \in Words /\ n \in Nat
  <2>1. lenOut \in Nat /\ lenOut < Word /\ Word \in Nat
    BY CodecAssumption DEF lenOut, Representable
  <2> QED BY <2>1 DEF Words
<1>4. hd \in Seq(Byte)
  BY HeaderIs
<1>5. lit \in Seq(Byte) /\ Commands(lit, origin, t)
  <2> HIDE DEF t
  <2>1. Len(t) \in Words
    BY <1>2, <1>3
  <2> QED BY <1>2, <2>1, LiteralRebuilds
<1>6. literal(d, from, to) = hd \o (b \o lit)
  <2> DEFINE D == Append(digitsOf(n), Colon)
  <2>1. D \in Seq(Byte)
    <3>1. digitsOf(n) \in Seq(Byte) /\ Colon \in Byte
      BY <1>3, appendIntIs, CodecAssumption DEF CommandBytes
    <3> QED BY <3>1
  <2>2. appendInt(d, n, Colon) = d \o D /\ a = <<>> \o D
    BY <1>3, appendIntIs
  <2>3. a = D
    <3> HIDE DEF D, a
    <3> QED BY <2>1, <2>2
  <2>4. literal(d, from, to) = (d \o D) \o t
    BY <2>2 DEF literal
  <2> HIDE DEF D, t, a, hd
  <2>5. (d \o D) \o t = d \o (D \o t)
    <3>1. d \in Seq(Byte)
      BY <1>1, <1>4, Joined
    <3> QED BY <1>2, <2>1, <3>1, Associates, SMTT(30)
  <2>6. d \o lit = hd \o (b \o lit)
    <3> HIDE DEF lit
    <3> QED BY <1>1, <1>4, <1>5, Associates
  <2> QED BY <2>3, <2>4, <2>5, <2>6
<1>7. Commands(b \o lit, origin, x \o t) /\ b \o lit \in Seq(Byte)
  <2> HIDE DEF lit, t, x
  <2> QED BY <1>1, <1>2, <1>5, CommandsFollow, Joined
<1> HIDE DEF hd, lit, t, x
<1>8. Built(literal(d, from, to), to)
  BY <1>2, <1>6, <1>7 DEF Built, hd
<1> QED BY <1>8

\* A copy of bytes that are those that come next.
LEMMA BuiltCopy ==
    ASSUME origin \in Seq(Byte), target \in Seq(Byte), Representable,
           NEW from \in 0 .. lenOut, NEW m, m.cnt \in Nat, m.ofst \in Nat,
           from + m.cnt <= lenOut, m.ofst + m.cnt <= lenSrc,
           \A k \in 1 .. m.cnt : origin[m.ofst + k] = target[from + k],
           NEW d, Built(d, from)
    PROVE  Built(copy(d, m), from + m.cnt)
<1> DEFINE hd == appendInt(<<>>, lenOut, NewLine)
           n == m.cnt
           o == m.ofst
           to == from + n
           t == SubSeq(target, from + 1, to)
           x == SubSeq(target, 1, from)
           a == appendInt(<<>>, n, At)
           cp == appendInt(a, o, Comma)
<1>1. PICK b \in Seq(Byte) : d = hd \o b /\ Commands(b, origin, x)
  BY DEF Built
<1>2. lenOut \in Nat /\ lenOut < Word /\ lenSrc \in Nat /\ lenSrc < Word /\ Word \in Nat
      /\ n \in Nat /\ o \in Nat /\ from \in Nat
  BY CodecAssumption DEF lenOut, lenSrc, Representable
<1>3. n \in Words /\ o \in Words /\ to \in from .. lenOut /\ to - from = n /\ o + n <= Len(origin)
  <2> HIDE DEF n, o
  <2>1. from + n <= lenOut /\ o + n <= lenSrc
    BY DEF n, o
  <2> QED BY <1>2, <2>1, SMTT(30) DEF Words, lenSrc
<1>4. /\ x \in Seq(Byte) /\ t \in Seq(Byte) /\ Len(t) = n
      /\ SubSeq(target, 1, to) = x \o t
      /\ \A k \in 1 .. n : t[k] = target[from + k]
  <2> HIDE DEF n, to
  <2>1. from \in 0 .. Len(target) /\ to \in from .. Len(target)
    BY <1>3 DEF lenOut
  <2> QED BY <1>3, <2>1, PrefixSplits
<1>5. hd \in Seq(Byte)
  BY HeaderIs
<1> DEFINE u == SubSeq(origin, o + 1, o + n)
<1>6. cp \in Seq(Byte) /\ u \in Seq(Byte) /\ Len(u) = n /\ Commands(cp, origin, u)
  BY <1>3, CopyRebuilds
<1>7. u = t
  <2>1. \A k \in 1 .. n : u[k] = origin[o + k]
    <3> HIDE DEF n, o
    <3>1. o + n \in o .. Len(origin) /\ o \in 0 .. Len(origin)
      BY <1>2, <1>3, SMTT(30)
    <3> QED BY <1>2, <3>1, PrefixSplits
  <2>3. \A k \in 1 .. n : origin[o + k] = target[from + k]
    OBVIOUS
  <2> HIDE DEF u, t, n, o
  <2>2. \A k \in 1 .. n : u[k] = t[k]
    BY <1>4, <2>1, <2>3
  <2> QED BY <1>4, <1>6, <2>2
<1>8. copy(d, m) = hd \o (b \o cp)
  <2> DEFINE D == Append(digitsOf(n), At)
             E == Append(digitsOf(o), Comma)
  <2>1. D \in Seq(Byte) /\ E \in Seq(Byte)
    <3>1. digitsOf(n) \in Seq(Byte) /\ digitsOf(o) \in Seq(Byte) /\ At \in Byte /\ Comma \in Byte
      BY <1>2, appendIntIs, CodecAssumption DEF CommandBytes
    <3> QED BY <3>1
  <2>2. a = <<>> \o D /\ cp = a \o E /\ copy(d, m) = (d \o D) \o E
    BY <1>2, appendIntIs, ZenonT(30) DEF copy
  <2> HIDE DEF D, E, a, hd
  <2>3. a = D
    BY <2>1, <2>2
  <2>4. d \in Seq(Byte)
    BY <1>1, <1>5, Joined
  <2>5. (d \o D) \o E = d \o (D \o E)
    BY <2>1, <2>4, Associates
  <2>6. d \o cp = hd \o (b \o cp)
    <3> HIDE DEF cp
    <3> QED BY <1>1, <1>5, <1>6, Associates
  <2> QED BY <2>2, <2>3, <2>5, <2>6
<1>9. Commands(b \o cp, origin, x \o t) /\ b \o cp \in Seq(Byte)
  <2> HIDE DEF cp, t, x, u
  <2> QED BY <1>1, <1>4, <1>6, <1>7, CommandsFollow, Joined
<1> HIDE DEF hd, cp, t, x
<1>10. Built(copy(d, m), to)
  BY <1>4, <1>8, <1>9 DEF Built, hd
<1> QED BY <1>10

LEMMA BuiltTrailer ==
    ASSUME origin \in Seq(Byte), target \in Seq(Byte), Representable,
           NEW d, Built(d, lenOut)
    PROVE  Describes(trailer(d), origin, target)
<1> DEFINE hd == appendInt(<<>>, lenOut, NewLine)
<1>1. SubSeq(target, 1, lenOut) = target
  BY DEF lenOut
<1>2. PICK b \in Seq(Byte) : d = hd \o b /\ Commands(b, origin, target)
  BY <1>1 DEF Built
<1>3. Len(target) \in Words
  BY CodecAssumption DEF Words, Representable, lenOut
<1>4. Describes(appendInt(appendInt(<<>>, Len(target), NewLine) \o b, checksum(target), Semi),
                origin, target)
  BY <1>2, <1>3, CommandsDescribe
<1> QED BY <1>2, <1>4 DEF trailer, lenOut

LEMMA BuiltNothing ==
    ASSUME origin \in Seq(Byte), target \in Seq(Byte)
    PROVE  Built(appendInt(<<>>, lenOut, NewLine), 0)
<1> DEFINE hd == appendInt(<<>>, lenOut, NewLine)
<1>1. hd \in Seq(Byte)
  BY HeaderIs
<1> HIDE DEF hd
<1>2. hd = hd \o <<>> /\ <<>> \in Seq(Byte)
  BY <1>1
<1>3. SubSeq(target, 1, 0) = <<>>
  OBVIOUS
<1>4. Commands(<<>>, origin, SubSeq(target, 1, 0))
  BY <1>3, NoCommands
<1> QED BY <1>2, <1>4 DEF Built, hd

(***************************************************************************)
(* A candidate is a match: the bytes the search has compared.              *)
(***************************************************************************)

LEMMA candidateMatches ==
    ASSUME EncInv, pc = "probe", next # 0
    PROVE  Matches(candidate(next - 1))
<1> DEFINE iSrc == (next - 1) * hashWindow
           y == base + i
           fwd == commonPrefixLen(origin, iSrc, target, y)
           k == commonSuffixLen(origin, iSrc, target, y, backLimit(iSrc))
           m == candidate(next - 1)
<1>1. /\ TypeOK /\ Filed /\ AtWindow
      /\ origin \in Seq(Byte) /\ target \in Seq(Byte) /\ lenSrc > hashWindow
      /\ next \in Nat /\ next <= blk /\ blk \in 0 .. nBlocks
      /\ base \in 0 .. lenOut /\ i \in 0 .. lenOut
      /\ base + i + hashWindow <= lenOut
  BY DEF EncInv, TypeOK, Filed, AtWindow
<1>2. lenSrc \in Nat /\ lenOut \in Nat /\ nBlocks \in Nat /\ hashWindow \in Nat
  BY <1>1, InputsAre, WindowIs
<1>3. iSrc \in 0 .. lenSrc
  <2>1. next - 1 \in Nat /\ next - 1 <= nBlocks
    BY <1>1, <1>2
  <2>2. iSrc \in Nat
    BY <1>2, <2>1
  <2>3. iSrc <= lenSrc
    BY <1>1, <2>1, BlocksIs
  <2> HIDE DEF iSrc
  <2> QED BY <1>2, <2>2, <2>3
<1> HIDE DEF iSrc
<1>4. y \in 0 .. lenOut
  BY <1>1, <1>2
<1>5. y = base + i
  OBVIOUS
<1> HIDE DEF y
<1>6. fwd \in Nat /\ iSrc + fwd <= lenSrc
      /\ \A j \in 0 .. fwd - 1 : origin[iSrc + j + 1] = target[y + j + 1]
  BY <1>1, <1>3, <1>4, commonPrefixSame DEF lenSrc, lenOut
<1>7. backLimit(iSrc) \in Nat /\ backLimit(iSrc) <= i /\ backLimit(iSrc) <= iSrc
  BY <1>1, <1>2, <1>3 DEF backLimit, min
<1>8. k \in Nat /\ k <= i /\ k <= iSrc
      /\ \A j \in 0 .. k - 1 : origin[iSrc - j] = target[y - j]
  <2>1. k \in 0 .. backLimit(iSrc) /\ \A j \in 0 .. k - 1 : origin[iSrc - j] = target[y - j]
    BY <1>7, commonSuffixSame
  <2> HIDE DEF k
  <2>2. k \in Nat /\ k <= i /\ k <= iSrc
    <3>1. k \in 0 .. backLimit(iSrc)
      BY <2>1
    <3> QED BY <1>1, <1>3, <1>7, <3>1
  <2> QED BY <2>1, <2>2
<1>9. m = [cnt |-> fwd + k, ofst |-> iSrc - k, litsz |-> i - k]
  BY DEF candidate, iSrc, y
<1> HIDE DEF fwd, k, m
<1>10. m.cnt = fwd + k /\ m.ofst = iSrc - k /\ m.litsz = i - k
  BY <1>9
<1>11. /\ iSrc \in Nat /\ y \in Nat /\ k \in Nat /\ fwd \in Nat /\ k <= iSrc /\ k <= y
       /\ (iSrc - k) + (fwd + k) <= lenSrc
       /\ base + (i - k) = y - k
  <2>1. iSrc + fwd <= lenSrc /\ k <= i /\ k <= iSrc /\ k \in Nat /\ fwd \in Nat
    BY <1>6, <1>8
  <2> QED BY <1>1, <1>2, <1>3, <1>4, <1>5, <2>1
<1>12. \A j \in 1 .. fwd + k : origin[(iSrc - k) + j] = target[(y - k) + j]
  <2>1. iSrc \in Nat /\ y \in Nat /\ k \in Nat /\ fwd \in Nat /\ k <= iSrc /\ k <= y
    BY <1>11
  <2>2. \A j \in 0 .. k - 1 : origin[iSrc - j] = target[y - j]
    BY <1>8
  <2>3. \A j \in 0 .. fwd - 1 : origin[iSrc + j + 1] = target[y + j + 1]
    BY <1>6
  <2>4. AgreeBefore(origin, iSrc, target, y, k) /\ AgreeAfter(origin, iSrc, target, y, fwd)
    BY <2>2, <2>3 DEF AgreeBefore, AgreeAfter
  <2>5. AgreeAfter(origin, iSrc - k, target, y - k, fwd + k)
    BY ONLY <2>1, <2>4, SameAround
  <2>6. \A j \in 0 .. (fwd + k) - 1 :
           origin[(iSrc - k) + j + 1] = target[(y - k) + j + 1]
    BY <2>5 DEF AgreeAfter
  <2> HIDE DEF y, k, fwd, iSrc
  <2> SUFFICES ASSUME NEW j \in 1 .. fwd + k
               PROVE  origin[(iSrc - k) + j] = target[(y - k) + j]
    OBVIOUS
  <2>7. j - 1 \in 0 .. (fwd + k) - 1 /\ (iSrc - k) + (j - 1) + 1 = (iSrc - k) + j
        /\ (y - k) + (j - 1) + 1 = (y - k) + j
    BY <2>1
  <2> QED BY <2>6, <2>7
<1> QED BY <1>10, <1>11, <1>12 DEF Matches, m

(***************************************************************************)
(* The invariant.                                                          *)
(***************************************************************************)

LEMMA RebuiltStays ==
    ASSUME UNCHANGED <<origin, target>>
    PROVE  /\ Representable' = Representable
           /\ \A d, k : Built(d, k)' = Built(d, k)
           /\ \A d : trailer(d)' = trailer(d)
           /\ \A d, j, k : literal(d, j, k)' = literal(d, j, k)
<1>1. lenOut' = lenOut /\ lenSrc' = lenSrc /\ origin' = origin /\ target' = target
  BY DEF lenOut, lenSrc
<1> QED BY <1>1 DEF Representable, Built, trailer, literal

LEMMA InitRebuilt == ASSUME Init PROVE Rebuilt
  BY DEF Init, Rebuilt

LEMMA StepRebuilt == ASSUME EncInv, Rebuilt, Next PROVE Rebuilt'
<1>1. /\ TypeOK /\ UNCHANGED <<origin, target>>
  BY DEF EncInv, Next, Unrepresentable, ShortSource, Start, IndexBlock, IndexDone, Outer, Probe,
     EmitCopy, EmitRest, Slide, Finish
<1>2. origin \in Seq(Byte) /\ target \in Seq(Byte) /\ dst \in Seq(Byte)
      /\ base \in 0 .. lenOut /\ lenOut \in Nat /\ lenSrc \in Nat
  BY <1>1, InputsAre DEF TypeOK
<1>3. /\ origin' = origin /\ target' = target /\ Representable' = Representable
      /\ \A d, k : Built(d, k)' = Built(d, k)
  BY <1>1, RebuiltStays
<1>4. ASSUME pc' \in {"index", "outer"}, Representable, Built(dst', base')
      PROVE  Rebuilt'
  BY <1>3, <1>4 DEF Rebuilt
<1>5. ASSUME pc' = "done", IF Representable THEN Describes(dst', origin, target)
                           ELSE dst' = appendInt(<<>>, 0, NewLine)
      PROVE  Rebuilt'
  BY <1>3, <1>5 DEF Rebuilt
<1>6. CASE Unrepresentable
  <2>1. pc' = "done" /\ dst' = appendInt(<<>>, 0, NewLine) /\ ~ Representable
    BY <1>2, <1>6, RepresentableIs DEF Unrepresentable, Rebuilt
  <2> QED BY <1>5, <2>1
<1>7. CASE ShortSource
  <2>1. /\ pc' = "done" /\ Representable
        /\ dst' = trailer(literal(appendInt(<<>>, lenOut, NewLine), 0, lenOut))
    BY <1>2, <1>7, RepresentableIs DEF ShortSource, Rebuilt
  <2>2. 0 \in 0 .. lenOut /\ lenOut \in 0 .. lenOut
    BY <1>2
  <2>3. Built(literal(appendInt(<<>>, lenOut, NewLine), 0, lenOut), lenOut)
    BY <1>2, <2>1, <2>2, BuiltNothing, BuiltLiteral
  <2>4. Describes(dst', origin, target)
    BY <1>2, <2>1, <2>3, BuiltTrailer
  <2> QED BY <1>5, <2>1, <2>4
<1>8. CASE Start
  <2>1. pc' = "index" /\ base' = 0 /\ dst' = appendInt(<<>>, lenOut, NewLine) /\ Representable
    BY <1>2, <1>8, RepresentableIs DEF Start, Rebuilt
  <2> QED BY <1>2, <1>4, <2>1, BuiltNothing
<1>9. CASE IndexBlock \/ IndexDone
  <2>1. /\ pc = "index" /\ pc' \in {"index", "outer"} /\ dst' = dst /\ base' = base
    BY <1>9 DEF IndexBlock, IndexDone
  <2> QED BY <1>4, <2>1 DEF Rebuilt
<1>10. CASE Outer \/ Slide
  <2>1. /\ pc \in {"outer", "probe"} /\ pc' = "probe" /\ dst' = dst /\ base' = base
        /\ best'.cnt = 0
    BY <1>10 DEF Outer, Slide, Look, Tried, NoMatch
  <2>2. ~ (best'.cnt > 0)
    BY <2>1
  <2> QED BY <1>3, <2>1, <2>2 DEF Rebuilt
<1>11. CASE Probe
  <2> DEFINE m == candidate(next - 1)
  <2>1. /\ pc = "probe" /\ pc' = "probe" /\ dst' = dst /\ base' = base /\ next # 0
        /\ best' = m \/ best' = best
    BY <1>11 DEF Probe
  <2>2. Matches(m)
    BY <2>1, candidateMatches
  <2> HIDE DEF m
  <2>3. best'.cnt > 0 => Matches(best')
    BY <2>1, <2>2 DEF Rebuilt
  <2>4. best'.cnt > 0 => Matches(best)'
    BY <1>3, <2>1, <2>3 DEF Matches, lenSrc
  <2> QED BY <1>3, <2>1, <2>4 DEF Rebuilt
<1>12. CASE EmitCopy
  <2>1. /\ pc = "probe" /\ pc' = "outer" /\ best.cnt > 0
        /\ base' = base + best.litsz + best.cnt
        /\ dst' = copy(IF best.litsz > 0 THEN literal(dst, base, base + best.litsz) ELSE dst, best)
        /\ best.cnt \in 1 .. lenOut /\ best.litsz \in 0 .. lenOut /\ best.ofst \in 0 .. lenSrc
        /\ base' \in 0 .. lenOut
    BY <1>12, EmitCopyWrites DEF EmitCopy, Tried
  <2>2. Representable /\ Built(dst, base) /\ Matches(best)
    BY <2>1 DEF Rebuilt
  <2> DEFINE d == IF best.litsz > 0 THEN literal(dst, base, base + best.litsz) ELSE dst
             from == base + best.litsz
             l == best.litsz
             n == best.cnt
             o == best.ofst
  <2>3. /\ from \in base .. lenOut /\ from + n <= lenOut /\ n \in Nat /\ o \in Nat
        /\ from + n = base' /\ from \in 0 .. lenOut /\ (~ (l > 0) => from = base)
    <3>1. n \in 1 .. lenOut /\ l \in 0 .. lenOut /\ o \in 0 .. lenSrc
          /\ base' = base + l + n /\ base' \in 0 .. lenOut
      BY <2>1
    <3> HIDE DEF n, l, o
    <3>2. from = base + l
      BY DEF l
    <3> HIDE DEF from
    <3> QED BY <1>2, <3>1, <3>2
  <2>4. Built(d, from)
    <3>1. CASE l > 0
      <4>1. Built(literal(dst, base, from), from)
        BY <1>2, <2>2, <2>3, BuiltLiteral
      <4> QED BY <3>1, <4>1
    <3>2. CASE ~ (l > 0)
      <4>1. from = base /\ d = dst
        BY <2>3, <3>2
      <4> QED BY <2>2, <4>1
    <3> QED BY <3>1, <3>2
  <2>5. Built(copy(d, best), from + n)
    <3>1. o + n <= lenSrc /\ \A k \in 1 .. n : origin[o + k] = target[from + k]
      BY <2>2 DEF Matches
    <3> HIDE DEF d, from
    <3> QED BY <1>2, <2>2, <2>3, <2>4, <3>1, BuiltCopy
  <2>6. dst' = copy(d, best)
    BY <2>1
  <2> HIDE DEF d, from
  <2> QED BY <1>4, <2>1, <2>2, <2>3, <2>5, <2>6
<1>13. CASE EmitRest
  <2>1. /\ pc = "probe" /\ pc' = "outer" /\ base' = lenOut /\ dst' = literal(dst, base, lenOut)
        /\ Representable /\ Built(dst, base)
    BY <1>13 DEF EmitRest, Tried, Rebuilt
  <2>2. lenOut \in base .. lenOut
    BY <1>2
  <2> QED BY <1>2, <1>4, <2>1, <2>2, BuiltLiteral
<1>14. CASE Finish
  <2> DEFINE d == IF base < lenOut THEN literal(dst, base, lenOut) ELSE dst
  <2>1. /\ pc = "outer" /\ pc' = "done" /\ dst' = trailer(d)
        /\ Representable /\ Built(dst, base)
    BY <1>14 DEF Finish, Rebuilt
  <2>2. Built(d, lenOut)
    <3>1. CASE base < lenOut
      <4>1. lenOut \in base .. lenOut
        BY <1>2
      <4>2. Built(literal(dst, base, lenOut), lenOut)
        BY <1>2, <2>1, <4>1, BuiltLiteral
      <4> QED BY <3>1, <4>2
    <3>2. CASE ~ (base < lenOut)
      <4>1. base = lenOut /\ d = dst
        BY <1>2, <3>2
      <4> QED BY <2>1, <4>1
    <3> QED BY <3>1, <3>2
  <2> HIDE DEF d
  <2>3. Describes(trailer(d), origin, target)
    BY <1>2, <2>1, <2>2, BuiltTrailer
  <2> QED BY <1>5, <2>1, <2>3
<1> QED BY <1>6, <1>7, <1>8, <1>9, <1>10, <1>11, <1>12, <1>13, <1>14 DEF Next

LEMMA StutterRebuilt == ASSUME Rebuilt, UNCHANGED vars PROVE Rebuilt'
<1>1. UNCHANGED <<origin, target, dst, pc, base, best>>
  BY DEF vars
<1>2. Representable' = Representable /\ (\A d, k : Built(d, k)' = Built(d, k))
      /\ Matches(best)' = Matches(best)
  BY <1>1, RebuiltStays DEF Matches, lenSrc
<1> QED BY <1>1, <1>2 DEF Rebuilt

LEMMA RebuiltAlways == Spec => []Rebuilt
<1>1. Init => Rebuilt
  BY InitRebuilt
<1>2. EncInv /\ Rebuilt /\ [Next]_vars => Rebuilt'
  BY StepRebuilt, StutterRebuilt
<1> QED BY <1>1, <1>2, EncAlways, PTL DEF Spec

\* The header of an input that the format cannot describe.
LEMMA ZeroHeader ==
    LET d == appendInt(<<>>, 0, NewLine)
        n == digitCount(0)
    IN  /\ d \in Seq(Byte) /\ Len(d) = n + 1 /\ n \in Nat
        /\ decodeInt(d, 0).next = n /\ decodeInt(d, 0).val = 0
        /\ d[n + 1] = NewLine
<1> DEFINE d == appendInt(<<>>, 0, NewLine)
           n == digitCount(0)
<1>1. 0 \in Words /\ NewLine \in CommandBytes /\ NewLine \in Byte /\ <<>> \in Seq(Byte)
      /\ Len(<<>>) = 0 /\ n \in Nat
  BY CodecAssumption, RadixIs, digitCountType DEF Words, CommandBytes
<1>2. d \in Seq(Byte) /\ Len(d) = n + 1
  <2>1. 0 \in Nat
    OBVIOUS
  <2>2. d \in Seq(Byte)
    BY <1>1, <2>1, appendIntType
  <2>3. Len(d) = Len(<<>>) + n + 1
    BY <1>1, <2>1, appendIntLength
  <2> HIDE DEF d, n
  <2> QED BY <1>1, <2>2, <2>3
<1>3. decodeInt(d, 0).next = n /\ decodeInt(d, 0).val = 0 /\ d[n + 1] = NewLine
  <2>1. /\ decodeInt(appendInt(<<>>, 0, NewLine) \o <<>>, 0) = [val |-> 0, next |-> digitCount(0)]
        /\ (appendInt(<<>>, 0, NewLine) \o <<>>)[digitCount(0) + 1] = NewLine
    BY <1>1, NumberFirst
  <2>2. d \o <<>> = d
    <3> HIDE DEF d
    <3> QED BY <1>2, ConcatEmptySeq
  <2>3. decodeInt(d, 0) = [val |-> 0, next |-> n] /\ d[n + 1] = NewLine
    BY <2>1, <2>2
  <2> HIDE DEF d, n
  <2> QED BY <2>3
<1> HIDE DEF d, n
<1> QED BY <1>1, <1>2, <1>3 DEF d, n

\* delta_apply of a delta whose length is an int, and of one of which nothing is passed.
LEMMA ReadWhole ==
    ASSUME NEW src, NEW d \in Seq(Byte), passed(d) = d
    PROVE  LET g == decodeInt(d, 0)
           IN  delta_apply(src, d) =
                 IF g.next >= Len(d) \/ d[g.next + 1] # NewLine
                 THEN Rejected ELSE returned(rounds(src, d, g.val)[<<g.next + 1, <<>>>>])
<1> DEFINE g == decodeInt(d, 0)
<1>1. getInt(d, 0) = g
  BY getIntIs
<1> HIDE DEF g
<1>2. delta_apply(src, d) =
         IF g.next >= Len(d) \/ d[g.next + 1] # NewLine
         THEN Rejected ELSE returned(rounds(src, d, g.val)[<<g.next + 1, <<>>>>])
  BY <1>1, delta_applyIs
<1> QED BY <1>2 DEF g

LEMMA NothingToRead ==
    ASSUME NEW src, NEW d, passed(d) \in Seq(Byte), Len(passed(d)) = 0
    PROVE  delta_apply(src, d) = Rejected
<1>1. ASSUME NEW e \in Seq(Byte), Len(e) = 0
      PROVE  getInt(e, 0).next >= Len(e)
  <2>1. getInt(e, 0) = decodeInt(e, 0)
    BY getIntIs
  <2>2. decodeInt(e, 0).next \in Nat
    BY decodeIntType
  <2> QED BY <1>1, <2>1, <2>2
<1>2. getInt(passed(d), 0).next >= Len(passed(d))
  BY <1>1
<1> QED BY <1>2, delta_applyIs

\* A header, and nothing after it, applies to nothing.
LEMMA HeaderAloneIsRejected ==
    ASSUME NEW src \in Seq(Byte)
    PROVE  delta_apply(src, appendInt(<<>>, 0, NewLine)) = Rejected
<1> DEFINE d == appendInt(<<>>, 0, NewLine)
           n == digitCount(0)
           s == <<n + 1, <<>>>>
<1>1. d \in Seq(Byte) /\ Len(d) = n + 1 /\ n \in Nat
      /\ decodeInt(d, 0).next = n /\ decodeInt(d, 0).val = 0
  BY ZeroHeader
<1> HIDE DEF d, n
<1>2. s \in Progress /\ s[1] = n + 1
  <2> DEFINE m == n + 1
  <2>1. m \in Nat /\ <<>> \in Seq(Byte)
    BY <1>1
  <2>2. s = <<m, <<>>>>
    OBVIOUS
  <2> HIDE DEF m, s
  <2>3. s \in Progress /\ s[1] = m
    BY <2>1, <2>2 DEF Progress
  <2> QED BY <2>3 DEF m
<1>3. ~ (s[1] < Len(d))
  BY <1>1, <1>2
<1>4. rounds(src, d, 0)[s] = Rejected
  <2> HIDE DEF s
  <2>1. 0 \in Nat
    OBVIOUS
  <2> QED BY <1>1, <1>2, <1>3, <2>1, NothingPastEnd
<1>5. Len(d) < Word \div 2 => delta_apply(src, d) = Rejected
  <2> SUFFICES ASSUME Len(d) < Word \div 2 PROVE delta_apply(src, d) = Rejected
    OBVIOUS
  <2> DEFINE g == decodeInt(d, 0)
  <2>1. passed(d) = d
    BY <1>1, passedIs
  <2>2. delta_apply(src, d) =
          IF g.next >= Len(d) \/ d[g.next + 1] # NewLine
          THEN Rejected ELSE returned(rounds(src, d, g.val)[<<g.next + 1, <<>>>>])
    BY <1>1, <2>1, ReadWhole
  <2> QED BY <1>1, <1>4, <2>2, returnedIs
<1>6. ~ (Len(d) < Word \div 2) => delta_apply(src, d) = Rejected
  <2> SUFFICES ASSUME ~ (Len(d) < Word \div 2) PROVE delta_apply(src, d) = Rejected
    OBVIOUS
  <2> DEFINE e == passed(d)
             k == Len(d)
  <2>1. k = 2 /\ Word \in Nat /\ Word > 2
    <3>1. n = 1
      BY DEF n, digitCount
    <3> QED BY <1>1, <3>1, CodecAssumption
  <2>2. ~ (k < Word \div 2)
    OBVIOUS
  <2>3. asInt(d) < 1
    <3> HIDE DEF k
    <3>1. k % Word = 2 /\ 2 >= Word \div 2 /\ 2 - Word < 1
      BY <2>1, <2>2
    <3> QED BY <3>1 DEF asInt, signed, k
  <2>4. e \in Seq(Byte) /\ Len(e) = 0
    <3> DEFINE m == asInt(d)
    <3>1. m \in Int /\ e \in Seq(Byte)
      BY <1>1, passedIs
    <3>2. e = SubSeq(d, 1, m)
      BY DEF passed
    <3> HIDE DEF e, m
    <3>3. SubSeq(d, 1, m) = <<>>
      BY <1>1, <2>3, <3>1, SubSeqProperties DEF m
    <3> QED BY <3>1, <3>2, <3>3
  <2> QED BY <2>4, NothingToRead
<1> QED BY <1>5, <1>6 DEF d

\* What is returned is a delta from the source to the target, or the header that applies
\* to nothing (create.go: AppendCreate).
THEOREM CreateDescribes ==
    Spec => [](pc = "done" => IF Representable THEN Describes(dst, origin, target)
                              ELSE dst = appendInt(<<>>, 0, NewLine))
<1>1. Rebuilt => (pc = "done" => IF Representable THEN Describes(dst, origin, target)
                                 ELSE dst = appendInt(<<>>, 0, NewLine))
  BY DEF Rebuilt
<1> QED BY <1>1, RebuiltAlways, PTL

\* "Every implementation of the format reads it": delta.c makes the target of every delta
\* AppendCreate returns, as long as source, delta and target are each shorter than half a
\* word, and nothing of the one for an input that the format cannot describe, whatever
\* the source and the target (create.go: AppendCreate).
THEOREM CReadsWhatIsCreated == Spec => []DeltaIsReadByC
<1>1. TypeOK /\ Rebuilt => DeltaIsReadByC
  <2> SUFFICES ASSUME TypeOK, Rebuilt, pc = "done"
               PROVE  IF Representable
                      THEN intHolds(origin) /\ intHolds(dst) /\ intHolds(target) =>
                              delta_apply(origin, dst) = Accepted(target)
                      ELSE delta_apply(origin, dst) = Rejected
    BY DEF DeltaIsReadByC
  <2>1. origin \in Seq(Byte) /\ target \in Seq(Byte) /\ dst \in Seq(Byte)
    BY DEF TypeOK
  <2>2. CASE Representable
    <3>1. Describes(dst, origin, target)
      BY <2>2 DEF Rebuilt
    <3> QED BY <2>1, <2>2, <3>1, DescribedIsReadByC DEF intHolds
  <2>3. CASE ~ Representable
    <3>1. dst = appendInt(<<>>, 0, NewLine)
      BY <2>3 DEF Rebuilt
    <3> QED BY <2>1, <2>3, <3>1, HeaderAloneIsRejected
  <2> QED BY <2>2, <2>3
<1>2. EncInv => TypeOK
  BY DEF EncInv
<1> QED BY <1>1, <1>2, EncAlways, RebuiltAlways, PTL

\* At every point of the search the commands written so far rebuild the part of the
\* target that has been dealt with (create.go: AppendCreate).
THEOREM CommandsAlwaysRebuild == Spec => []CommandsRebuildTarget
<1>1. TypeOK /\ Rebuilt => CommandsRebuildTarget
  <2> SUFFICES ASSUME TypeOK, Rebuilt, pc = "outer",
                      intHolds(origin), intHolds(Cut), intHolds(SubSeq(target, 1, base))
               PROVE  delta_apply(origin, Cut) = Accepted(SubSeq(target, 1, base))
    BY DEF CommandsRebuildTarget
  <2> DEFINE header == appendInt(<<>>, lenOut, NewLine)
             x == SubSeq(target, 1, base)
             rest == SubSeq(dst, Len(header) + 1, Len(dst))
  <2>1. origin \in Seq(Byte) /\ target \in Seq(Byte) /\ base \in 0 .. lenOut
        /\ lenOut \in Nat /\ lenOut < Word
    BY InputsAre DEF TypeOK, Rebuilt, Representable
  <2>2. PICK b \in Seq(Byte) : /\ dst = header \o b
                               /\ Commands(b, origin, x)
    BY DEF Rebuilt, Built
  <2>3. header \in Seq(Byte)
    BY <2>1, HeaderIs
  <2>4. rest = b
    <3> HIDE DEF header
    <3> QED BY <2>2, <2>3
  <2>5. x \in Seq(Byte) /\ Len(x) = base
    <3>1. Len(target) = lenOut
      BY DEF lenOut
    <3>2. lenOut \in base .. lenOut
      BY <2>1
    <3> QED BY <2>1, <3>1, <3>2, PrefixSplits
  <2>6. Len(x) \in Words
    <3> HIDE DEF x
    <3> QED BY <2>1, <2>5, CodecAssumption DEF Words
  <2>7. Cut = appendInt(appendInt(<<>>, base, NewLine) \o rest, checksum(x), Semi)
    BY DEF Cut
  <2> DEFINE d == appendInt(appendInt(<<>>, Len(x), NewLine) \o b, checksum(x), Semi)
  <2>8. Cut = d
    <3> HIDE DEF rest, x
    <3> QED BY <2>4, <2>5, <2>7
  <2>9. d \in Seq(Byte) /\ Describes(d, origin, x)
    <3> HIDE DEF x
    <3> QED BY <2>1, <2>2, <2>5, <2>6, CommandsDescribe
  <2> HIDE DEF d
  <2>10. Len(origin) < Word \div 2 /\ Len(d) < Word \div 2 /\ Len(x) < Word \div 2
    BY <2>8 DEF intHolds
  <2> HIDE DEF x
  <2>11. delta_apply(origin, d) = Accepted(x)
    BY <2>1, <2>5, <2>9, <2>10, DescribedIsReadByC
  <2> QED BY <2>8, <2>11 DEF x
<1>2. EncInv => TypeOK
  BY DEF EncInv
<1> QED BY <1>1, <1>2, EncAlways, RebuiltAlways, PTL

LEMMA HeaderAloneIsRejectedByJS ==
    ASSUME NEW src \in Seq(Byte), AsciiFormat
    PROVE  applyDelta(src, appendInt(<<>>, 0, NewLine)) = Rejected
<1> DEFINE d == appendInt(<<>>, 0, NewLine)
           n == digitCount(0)
           lim == Reader_getInt(d, 0)
           s == <<lim.next + 1, <<>>>>
<1>1. d \in Seq(Byte) /\ Len(d) = n + 1 /\ n \in Nat
      /\ decodeInt(d, 0).next = n /\ decodeInt(d, 0).val = 0 /\ d[n + 1] = NewLine
  BY ZeroHeader
<1> HIDE DEF d, n
<1>2. Plain(d, 0)
  <2>1. NewLine \in CommandBytes
    BY DEF CommandBytes
  <2>2. n < Len(d)
    BY <1>1
  <2> QED BY <1>1, <2>1, <2>2, PlainOfAscii DEF AsciiFormat
<1>3. lim.val = 0 /\ lim.next = n
  <2>1. 0 < Len(d) /\ n < Len(d) /\ NewLine \in CommandBytes
    BY <1>1 DEF CommandBytes
  <2> QED BY <1>1, <1>2, <2>1, MeetsCommand
<1>4. s \in Progress /\ ~ (s[1] < Len(d))
  <2> DEFINE m == n + 1
  <2>1. m \in Nat /\ <<>> \in Seq(Byte) /\ m = Len(d)
    BY <1>1
  <2>2. s = <<m, <<>>>>
    <3> HIDE DEF lim
    <3> QED BY <1>3
  <2> HIDE DEF m, s
  <2>3. s \in Progress /\ s[1] = m
    BY <2>1, <2>2 DEF Progress
  <2>4. ~ (m < Len(d))
    BY <2>1
  <2> QED BY <2>3, <2>4
<1>5. roundsJS(src, d, lim)[s] = Rejected
  <2>1. lim.val \in Nat
    BY <1>3
  <2> HIDE DEF s, lim
  <2> QED BY <1>1, <1>4, <2>1, NothingPastEndJS
<1>6. applyDelta(src, d) = IF charIs(d, lim.next, NewLine)
                           THEN roundsJS(src, d, lim)[s] ELSE Rejected
  BY applyDeltaIs
<1>7. applyDelta(src, d) = Rejected
  <2> HIDE DEF lim, s
  <2> QED BY <1>5, <1>6
<1> QED BY <1>7 DEF d

\* "The deltas this encoder produces are read correctly by the code on the other side of
\* the connection": JavaScript makes the target of every delta AppendCreate returns,
\* whatever bytes the source and the target have, and nothing of the one for an input
\* the format cannot describe (jsref_test.go; create.go: AppendCreate).
THEOREM JSReadsWhatIsCreated == ASSUME AsciiFormat PROVE Spec => []DeltaIsReadByJS
<1>1. TypeOK /\ Rebuilt => DeltaIsReadByJS
  <2> SUFFICES ASSUME TypeOK, Rebuilt, pc = "done"
               PROVE  applyDelta(origin, dst) =
                         IF Representable THEN Accepted(target) ELSE Rejected
    BY DEF DeltaIsReadByJS
  <2>1. origin \in Seq(Byte) /\ target \in Seq(Byte) /\ dst \in Seq(Byte)
    BY DEF TypeOK
  <2>2. CASE Representable
    <3>1. Describes(dst, origin, target)
      BY <2>2 DEF Rebuilt
    <3> QED BY <2>1, <2>2, <3>1, DescribedIsReadByJS
  <2>3. CASE ~ Representable
    <3>1. dst = appendInt(<<>>, 0, NewLine)
      BY <2>3 DEF Rebuilt
    <3> QED BY <2>1, <2>3, <3>1, HeaderAloneIsRejectedByJS
  <2> QED BY <2>2, <2>3
<1>2. EncInv => TypeOK
  BY DEF EncInv
<1> QED BY <1>1, <1>2, EncAlways, RebuiltAlways, PTL
=============================================================================
