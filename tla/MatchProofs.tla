---------------------------- MODULE MatchProofs -----------------------------
(***************************************************************************)
(* Comparing word by word finds what comparing byte by byte would, and     *)
(* reads no byte outside of either text: for every word size, every two    *)
(* texts and every two places to start from (create.go: commonPrefixLen,   *)
(* commonSuffixLen).                                                       *)
(*                                                                         *)
(* The invariant is that the i bytes counted so far are the same, and that *)
(* n bytes lie ahead of either start (behind it, for a suffix).            *)
(***************************************************************************)
EXTENDS WordwiseMatch, WellFoundedInduction, TLAPS

\* Every set of naturals that is not empty has a least element.
LEMMA LeastNat ==
    ASSUME NEW T \in SUBSET Nat, T # {}
    PROVE  \E m \in T : \A k \in T : m <= k
<1>1. IsWellFoundedOn(OpToRel(<, Nat), Nat)
  BY NatLessThanWellFounded
<1>2. \E m \in T : \A k \in T : ~ (<<k, m>> \in OpToRel(<, Nat))
  BY <1>1, WFMin
<1>3. \E m \in T : \A k \in T : ~ (k < m)
  BY <1>2 DEF OpToRel
<1> QED BY <1>3

\* The j-th bytes from the two starts on.
Same(j) == IF forward THEN a[ai + j + 1] = b[bi + j + 1] ELSE a[ai - j] = b[bi - j]

Span ==
    IF forward
    THEN n = min(Len(a) - ai, Len(b) - bi)
    ELSE n <= ai /\ n <= bi

Stops(k) == (\A j \in 0 .. k - 1 : Same(j)) /\ (k < n => ~ Same(k))

MatchInv ==
    /\ TypeOK /\ Span
    /\ \A j \in 0 .. i - 1 : Same(j)
    /\ pc = "done" => Stops(result)

-----------------------------------------------------------------------------
\* n bytes are there on either side.
LEMMA Ahead ==
    ASSUME TypeOK, Span
    PROVE  /\ ai \in Nat /\ bi \in Nat /\ Len(a) \in Nat /\ Len(b) \in Nat
           /\ ai <= Len(a) /\ bi <= Len(b)
           /\ forward => ai + n <= Len(a) /\ bi + n <= Len(b)
           /\ ~ forward => n <= ai /\ n <= bi
<1>1. a \in Seq(Nat) /\ b \in Seq(Nat)
  BY WordwiseAssumption DEF TypeOK
<1>2. Len(a) \in Nat /\ Len(b) \in Nat
  BY <1>1
<1> QED BY <1>2 DEF TypeOK, Span, min

\* The first difference of two words that differ somewhere, and the last one.
LEMMA FirstDifference ==
    ASSUME NEW x \in [0 .. WordSize - 1 -> Nat], NEW y \in [0 .. WordSize - 1 -> Nat], x # y
    PROVE  /\ lowSame(x, y) \in 0 .. WordSize - 1
           /\ x[lowSame(x, y)] # y[lowSame(x, y)]
           /\ \A j \in 0 .. lowSame(x, y) - 1 : x[j] = y[j]
<1> DEFINE First(k) == x[k] # y[k] /\ \A j \in 0 .. k - 1 : x[j] = y[j]
           T == {k \in Nat : k \in 0 .. WordSize - 1 /\ x[k] # y[k]}
<1>1. WordSize \in Nat
  BY WordwiseAssumption
<1>2. \E k \in 0 .. WordSize - 1 : x[k] # y[k]
  BY <1>1
<1>3. T \in SUBSET Nat /\ T # {}
  <2>1. PICK k \in 0 .. WordSize - 1 : x[k] # y[k]
    BY <1>2
  <2>2. k \in T
    BY <1>1, <2>1
  <2> QED BY <2>2
<1>4. PICK m \in T : \A k \in T : m <= k
  BY <1>3, LeastNat
<1>5. m \in 0 .. WordSize - 1 /\ First(m)
  BY <1>1, <1>4
<1>6. lowSame(x, y) = CHOOSE k \in 0 .. WordSize - 1 : First(k)
  BY DEF lowSame
<1>7. lowSame(x, y) \in 0 .. WordSize - 1 /\ First(lowSame(x, y))
  <2> HIDE DEF First
  <2> QED BY <1>5, <1>6
<1> QED BY <1>7

LEMMA LastDifference ==
    ASSUME NEW x \in [0 .. WordSize - 1 -> Nat], NEW y \in [0 .. WordSize - 1 -> Nat], x # y
    PROVE  LET k == WordSize - 1 - highSame(x, y)
           IN  /\ k \in 0 .. WordSize - 1
               /\ x[k] # y[k]
               /\ \A j \in k + 1 .. WordSize - 1 : x[j] = y[j]
               /\ highSame(x, y) = WordSize - 1 - k
<1> DEFINE Last(k) == x[k] # y[k] /\ \A j \in k + 1 .. WordSize - 1 : x[j] = y[j]
           T == {k \in Nat : k \in 0 .. WordSize - 1
                                /\ x[WordSize - 1 - k] # y[WordSize - 1 - k]}
<1>1. WordSize \in Nat
  BY WordwiseAssumption
<1>2. PICK k \in 0 .. WordSize - 1 : x[k] # y[k]
  BY <1>1
<1>3. T \in SUBSET Nat /\ T # {}
  <2>1. WordSize - 1 - k \in 0 .. WordSize - 1
    BY <1>1
  <2>2. WordSize - 1 - (WordSize - 1 - k) = k
    BY <1>1
  <2> QED BY <1>2, <2>1, <2>2
<1>4. PICK m \in T : \A j \in T : m <= j
  BY <1>3, LeastNat
<1>5. WordSize - 1 - m \in 0 .. WordSize - 1 /\ Last(WordSize - 1 - m)
  <2>1. WordSize - 1 - m \in 0 .. WordSize - 1
    BY <1>1, <1>4
  <2>2. ASSUME NEW j \in WordSize - 1 - m + 1 .. WordSize - 1
        PROVE  x[j] = y[j]
    <3>1. WordSize - 1 - j \in 0 .. WordSize - 1 /\ WordSize - 1 - j < m
      BY <1>1, <2>1
    <3>2. WordSize - 1 - (WordSize - 1 - j) = j
      BY <1>1, <2>1
    <3>3. WordSize - 1 - j \notin T
      BY <1>4, <3>1
    <3> QED BY <3>1, <3>2, <3>3
  <2> QED BY <1>4, <2>1, <2>2
<1>6. highSame(x, y) = WordSize - 1 - CHOOSE j \in 0 .. WordSize - 1 : Last(j)
  BY DEF highSame
<1> DEFINE c == CHOOSE j \in 0 .. WordSize - 1 : Last(j)
<1>7. c \in 0 .. WordSize - 1 /\ Last(c)
  <2> HIDE DEF Last
  <2> QED BY <1>5
<1>8. highSame(x, y) = WordSize - 1 - c
  BY <1>6
<1> HIDE DEF c
<1>9. WordSize - 1 - highSame(x, y) = c
  BY <1>1, <1>7, <1>8
<1>10. /\ c \in 0 .. WordSize - 1 /\ x[c] # y[c]
       /\ \A j \in c + 1 .. WordSize - 1 : x[j] = y[j]
  BY <1>7
<1> QED BY <1>8, <1>9, <1>10

-----------------------------------------------------------------------------
\* A word that fits into what is left lies inside of both texts, and its bytes are the
\* next WordSize ones of the comparison.
LEMMA WordIs ==
    ASSUME TypeOK, Span, wordFits
    PROVE  /\ wordA \in [0 .. WordSize - 1 -> Nat] /\ wordB \in [0 .. WordSize - 1 -> Nat]
           /\ \A k \in 0 .. WordSize - 1 :
                 /\ forward => (Same(i + k) <=> wordA[k] = wordB[k])
                 /\ ~ forward => (Same(i + (WordSize - 1 - k)) <=> wordA[k] = wordB[k])
<1>1. a \in Seq(Nat) /\ b \in Seq(Nat) /\ WordSize \in Nat /\ WordSize > 0
  BY WordwiseAssumption DEF TypeOK
<1>2. i \in Nat /\ n \in Nat /\ i + WordSize <= n
  BY DEF TypeOK, wordFits
<1>3. /\ ai \in Nat /\ bi \in Nat /\ Len(a) \in Nat /\ Len(b) \in Nat
      /\ ai <= Len(a) /\ bi <= Len(b)
      /\ forward => ai + n <= Len(a) /\ bi + n <= Len(b)
      /\ ~ forward => n <= ai /\ n <= bi
  BY Ahead
<1>4. \A k \in 0 .. WordSize - 1 :
          wordAt(ai) + k + 1 \in 1 .. Len(a) /\ wordAt(bi) + k + 1 \in 1 .. Len(b)
  BY <1>1, <1>2, <1>3 DEF wordAt
<1>5. wordA \in [0 .. WordSize - 1 -> Nat] /\ wordB \in [0 .. WordSize - 1 -> Nat]
  BY <1>1, <1>4, SMTT(30) DEF wordA, wordB, load
<1>6. ASSUME NEW k \in 0 .. WordSize - 1, forward
      PROVE  Same(i + k) <=> wordA[k] = wordB[k]
  <2>1. ai + (i + k) + 1 = wordAt(ai) + k + 1 /\ bi + (i + k) + 1 = wordAt(bi) + k + 1
    BY <1>1, <1>2, <1>3, <1>6 DEF wordAt
  <2> QED BY <1>6, <2>1 DEF Same, wordA, wordB, load
<1>7. ASSUME NEW k \in 0 .. WordSize - 1, ~ forward
      PROVE  Same(i + (WordSize - 1 - k)) <=> wordA[k] = wordB[k]
  <2>1. /\ ai - (i + (WordSize - 1 - k)) = wordAt(ai) + k + 1
        /\ bi - (i + (WordSize - 1 - k)) = wordAt(bi) + k + 1
    BY <1>1, <1>2, <1>3, <1>7 DEF wordAt
  <2> QED BY <1>7, <2>1 DEF Same, wordA, wordB, load
<1> QED BY <1>5, <1>6, <1>7

-----------------------------------------------------------------------------
LEMMA MatchInit == Init => MatchInv
<1> SUFFICES ASSUME Init PROVE MatchInv
  OBVIOUS
<1>1. Len(a) \in Nat /\ Len(b) \in Nat
  BY WordwiseAssumption, SMTT(30) DEF Init
<1>2. TypeOK /\ Span
  BY <1>1 DEF Init, TypeOK, Span, forward, min
<1> QED BY <1>2 DEF Init, MatchInv

LEMMA MatchNext == MatchInv /\ [Next]_vars => MatchInv'
<1> SUFFICES ASSUME MatchInv, [Next]_vars PROVE MatchInv'
  OBVIOUS
<1> USE DEF MatchInv
<1>1. WordSize \in Nat /\ WordSize > 0 /\ i \in 0 .. n /\ n \in Nat
  BY WordwiseAssumption DEF TypeOK
\* The arguments, and what they say, stay.
<1>2. ASSUME UNCHANGED args
      PROVE  /\ \A j : Same(j)' <=> Same(j)
             /\ Span' /\ (forward' <=> forward)
             /\ TypeOK' <=> /\ pc' \in {"words", "bytes", "done"}
                            /\ i' \in 0 .. n /\ result' \in 0 .. n
  BY <1>2 DEF args, Same, Span, forward, TypeOK
<1>3. CASE WordSame
  <2>1. UNCHANGED <<args, pc, result>> /\ i' = i + WordSize /\ i + WordSize <= n
    BY <1>3 DEF WordSame, wordFits
  <2>2. TypeOK'
    BY <1>1, <1>2, <2>1 DEF TypeOK
  <2>3. ASSUME NEW j \in i .. i + WordSize - 1 PROVE Same(j)
    <3>1. wordA = wordB /\ wordFits
      BY <1>3 DEF WordSame
    <3>2. CASE forward
      <4>1. j - i \in 0 .. WordSize - 1 /\ i + (j - i) = j
        BY <1>1
      <4> QED BY <3>1, <3>2, <4>1, WordIs
    <3>3. CASE ~ forward
      <4>1. /\ WordSize - 1 - (j - i) \in 0 .. WordSize - 1
            /\ i + (WordSize - 1 - (WordSize - 1 - (j - i))) = j
        BY <1>1
      <4> QED BY <3>1, <3>3, <4>1, WordIs
    <3> QED BY <3>2, <3>3
  <2>4. \A j \in 0 .. i' - 1 : Same(j)
    <3>1. ASSUME NEW j \in 0 .. i' - 1
          PROVE  j \in 0 .. i - 1 \/ j \in i .. i + WordSize - 1
      BY <1>1, <2>1
    <3> QED BY <2>3, <3>1
  <2>5. pc' # "done"
    BY <1>3 DEF WordSame
  <2> QED BY <1>2, <2>1, <2>2, <2>4, <2>5
<1>4. CASE WordDiffers
  <2>1. UNCHANGED <<args, i>> /\ wordFits /\ wordA # wordB /\ pc' = "done" /\ i + WordSize <= n
    BY <1>4 DEF WordDiffers, wordFits
  <2>2. /\ wordA \in [0 .. WordSize - 1 -> Nat] /\ wordB \in [0 .. WordSize - 1 -> Nat]
        /\ \A k \in 0 .. WordSize - 1 :
              /\ forward => (Same(i + k) <=> wordA[k] = wordB[k])
              /\ ~ forward => (Same(i + (WordSize - 1 - k)) <=> wordA[k] = wordB[k])
    BY <2>1, WordIs
  <2>3. /\ result' \in i .. i + WordSize - 1 /\ ~ Same(result')
        /\ \A j \in i .. result' - 1 : Same(j)
    <3>1. CASE forward
      <4> DEFINE c == lowSame(wordA, wordB)
      <4>1. result' = i + c
        BY <1>4, <3>1 DEF WordDiffers
      <4>2. /\ c \in 0 .. WordSize - 1 /\ wordA[c] # wordB[c]
            /\ \A j \in 0 .. c - 1 : wordA[j] = wordB[j]
        <5>1. /\ wordA \in [0 .. WordSize - 1 -> Nat] /\ wordB \in [0 .. WordSize - 1 -> Nat]
              /\ wordA # wordB
          BY <2>1, <2>2
        <5> QED BY ONLY <5>1, FirstDifference
      <4> HIDE DEF c
      <4>3. ASSUME NEW j \in i .. result' - 1 PROVE Same(j)
        <5>1. j - i \in 0 .. c - 1 /\ j - i \in 0 .. WordSize - 1 /\ i + (j - i) = j
          BY <1>1, <4>1, <4>2
        <5> QED BY <2>2, <3>1, <4>2, <5>1
      <4> QED BY <1>1, <2>2, <3>1, <4>1, <4>2, <4>3
    <3>2. CASE ~ forward
      <4> DEFINE c == WordSize - 1 - highSame(wordA, wordB)
      <4>1. result' = i + (WordSize - 1 - c)
        BY <1>4, <2>1, <2>2, <3>2, LastDifference DEF WordDiffers
      <4>2. /\ c \in 0 .. WordSize - 1 /\ wordA[c] # wordB[c]
            /\ \A j \in c + 1 .. WordSize - 1 : wordA[j] = wordB[j]
        <5>1. /\ wordA \in [0 .. WordSize - 1 -> Nat] /\ wordB \in [0 .. WordSize - 1 -> Nat]
              /\ wordA # wordB
          BY <2>1, <2>2
        <5> QED BY ONLY <5>1, LastDifference
      <4> HIDE DEF c
      <4>3. ASSUME NEW j \in i .. result' - 1 PROVE Same(j)
        <5>1. /\ WordSize - 1 - (j - i) \in c + 1 .. WordSize - 1
              /\ WordSize - 1 - (j - i) \in 0 .. WordSize - 1
              /\ i + (WordSize - 1 - (WordSize - 1 - (j - i))) = j
          BY <1>1, <4>1, <4>2
        <5> QED BY <2>2, <3>2, <4>2, <5>1
      <4> QED BY <1>1, <2>2, <3>2, <4>1, <4>2, <4>3
    <3> QED BY <3>1, <3>2
  <2>4. TypeOK'
    BY <1>1, <1>2, <2>1, <2>3 DEF TypeOK
  <2>5. \A j \in 0 .. result' - 1 : Same(j)
    <3> DEFINE r == result'
    <3>1. r \in Int /\ i \in Int
      BY <1>1, <2>3
    <3>2. \A j \in i .. r - 1 : Same(j)
      BY <2>3
    <3> HIDE DEF r
    <3>3. \A j \in 0 .. r - 1 : j \in 0 .. i - 1 \/ j \in i .. r - 1
      BY ONLY <3>1
    <3> QED BY <3>2, <3>3 DEF r
  <2> QED BY <1>2, <2>1, <2>3, <2>4, <2>5 DEF Stops, args
<1>5. CASE WordsDone
  BY <1>2, <1>5 DEF WordsDone, TypeOK
<1>6. CASE ByteSame
  <2>1. UNCHANGED <<args, pc, result>> /\ i' = i + 1 /\ i < n /\ pc # "done"
    BY <1>6 DEF ByteSame
  <2>2. Same(i)
    <3>1. ai + i + 1 = byteAt(ai) + 1 \/ ~ forward
      BY <1>1, Ahead DEF byteAt
    <3> QED BY <1>1, <1>6, Ahead DEF ByteSame, byteA, byteB, byteAt, Same
  <2>3. \A j \in 0 .. i' - 1 : Same(j)
    BY <1>1, <2>1, <2>2
  <2> QED BY <1>1, <1>2, <2>1, <2>3 DEF TypeOK
<1>7. CASE ByteDiffers
  <2>1. UNCHANGED <<args, i>> /\ result' = i /\ i < n /\ pc' = "done"
    BY <1>7 DEF ByteDiffers
  <2>2. ~ Same(i)
    BY <1>1, <1>7, Ahead DEF ByteDiffers, byteA, byteB, byteAt, Same
  <2> QED BY <1>1, <1>2, <2>1, <2>2 DEF TypeOK, Stops, args
<1>8. CASE AllSame
  <2>1. UNCHANGED <<args, i>> /\ result' = n /\ i = n /\ pc' = "done"
    BY <1>1, <1>8 DEF AllSame
  <2> QED BY <1>1, <1>2, <2>1 DEF TypeOK, Stops, args
<1>9. CASE UNCHANGED vars
  BY <1>2, <1>9 DEF vars, args, TypeOK, Stops
<1> QED BY <1>3, <1>4, <1>5, <1>6, <1>7, <1>8, <1>9 DEF Next

LEMMA MatchInvariant == Spec => []MatchInv
<1> QED BY MatchInit, MatchNext, PTL DEF Spec

-----------------------------------------------------------------------------
\* The count stays within what there is to compare (create.go: commonPrefixLen,
\* commonSuffixLen).
THEOREM MatchTypes == Spec => []TypeOK
<1>1. MatchInv => TypeOK
  BY DEF MatchInv
<1> QED BY <1>1, MatchInvariant, PTL

\* Neither function reads outside of its texts, whichever word size it compares by
\* (create.go: the Uint64 loads of commonPrefixLen and commonSuffixLen).
THEOREM MatchReadsInBounds == Spec => []ReadsInBounds
<1>1. MatchInv => ReadsInBounds
  <2> SUFFICES ASSUME MatchInv PROVE ReadsInBounds
    OBVIOUS
  <2>1. TypeOK /\ Span /\ WordSize \in Nat /\ i \in Nat /\ n \in Nat
    BY WordwiseAssumption DEF MatchInv, TypeOK
  <2>2. wordFits =>
            Within(a, wordAt(ai), WordSize) /\ Within(b, wordAt(bi), WordSize)
    BY <2>1, Ahead, SMTT(30) DEF wordFits, wordAt, Within
  <2>3. i < n => Within(a, byteAt(ai), 1) /\ Within(b, byteAt(bi), 1)
    BY <2>1, Ahead, SMTT(30) DEF byteAt, Within
  <2> QED BY <2>2, <2>3 DEF ReadsInBounds
<1> QED BY <1>1, MatchInvariant, PTL

\* The first difference is found where it is, whichever byte of a word it falls in: the
\* result is the common prefix's or suffix's length (create.go: commonPrefixLen,
\* commonSuffixLen).
THEOREM MatchIsCommonLength == Spec => []ResultIsCommonLength
<1>1. MatchInv => ResultIsCommonLength
  <2> SUFFICES ASSUME MatchInv, pc = "done"
               PROVE  result = IF forward THEN commonPrefixLen(a, ai, b, bi)
                                          ELSE commonSuffixLen(a, ai, b, bi, n)
    BY DEF ResultIsCommonLength
  <2>1. TypeOK /\ Span /\ Stops(result) /\ n \in Nat /\ result \in 0 .. n
    BY DEF MatchInv, TypeOK
  <2>2. ASSUME NEW k \in 0 .. n, Stops(k) PROVE k = result
    <3>1. \A j \in 0 .. k - 1 : Same(j)
      BY <2>2 DEF Stops
    <3>2. \A j \in 0 .. result - 1 : Same(j)
      BY <2>1 DEF Stops
    <3>3. (k < n => ~ Same(k)) /\ (result < n => ~ Same(result))
      BY <2>1, <2>2 DEF Stops
    <3>4. ~ (k < result)
      <4>1. k < result => k \in 0 .. result - 1 /\ k < n
        BY <2>1
      <4> QED BY <3>2, <3>3, <4>1
    <3>5. ~ (result < k)
      <4>1. result < k => result \in 0 .. k - 1 /\ result < n
        BY <2>1
      <4> QED BY <3>1, <3>3, <4>1
    <3> QED BY <2>1, <3>4, <3>5
  <2>3. result = CHOOSE k \in 0 .. n : Stops(k)
    <3> HIDE DEF Stops
    <3> QED BY <2>1, <2>2
  <2>4. CASE forward
    <3>1. commonPrefixLen(a, ai, b, bi) = CHOOSE k \in 0 .. n : Stops(k)
      BY <2>1, <2>4 DEF commonPrefixLen, Stops, Same, Span
    <3> QED BY <2>3, <2>4, <3>1
  <2>5. CASE ~ forward
    <3>1. commonSuffixLen(a, ai, b, bi, n) = CHOOSE k \in 0 .. n : Stops(k)
      BY <2>1, <2>5 DEF commonSuffixLen, Stops, Same
    <3> QED BY <2>3, <2>5, <3>1
  <2> QED BY <2>4, <2>5
<1> QED BY <1>1, MatchInvariant, PTL
=============================================================================
