--------------------------- MODULE WordwiseMatch ---------------------------
(***************************************************************************)
(* One call of commonPrefixLen or commonSuffixLen (create.go).  Both       *)
(* compare whole words as long as one fits into what is left to compare,   *)
(* then single bytes; the first difference within a word is told from the  *)
(* bits in which the two words differ.                                     *)
(*                                                                         *)
(* An action is one iteration of one of the loops.  commonPrefixLen takes  *)
(* slices; a slice is a text and where it starts, as in the other call.    *)
(***************************************************************************)
EXTENDS MatchLength

CONSTANTS Texts,      \* the byte strings compared
          WordSize    \* bytes in a word (the program's 8)

ASSUME WordwiseAssumption ==
    /\ Texts \subseteq Seq(Nat)
    /\ WordSize \in Nat \ {0}

VARIABLES
    fn,               \* which of the two
    a, ai, b, bi, n,  \* the arguments; n is how many bytes there are to compare
    pc,
    i,                \* how many have been found the same
    result

args == <<fn, a, ai, b, bi, n>>
vars == <<args, pc, i, result>>

forward == fn = "commonPrefixLen"

\* AppendCreate calls neither function before it has seen the first byte agree, and
\* never lets a match reach back to the source's first byte.
Init ==
    /\ fn \in {"commonPrefixLen", "commonSuffixLen"}
    /\ a \in Texts /\ b \in Texts /\ ai \in 0 .. Len(a) /\ bi \in 0 .. Len(b)
    /\ \/ /\ forward /\ ai < Len(a) /\ bi < Len(b) /\ a[ai + 1] = b[bi + 1]
          /\ n = min(Len(a) - ai, Len(b) - bi)
       \/ /\ ~ forward /\ n \in 1 .. min(ai - 1, bi) /\ a[ai] = b[bi]
    /\ pc = "words" /\ i = 0 /\ result = 0

\* Where the next word, or the next byte, of a text is that is read from si on.
wordAt(si) == IF forward THEN si + i ELSE si - i - WordSize
byteAt(si) == IF forward THEN si + i ELSE si - i - 1

\* A little-endian word: byte k has weight 256^k.
load(s, p) == [k \in 0 .. WordSize - 1 |-> s[p + k + 1]]
wordA == load(a, wordAt(ai))
wordB == load(b, wordAt(bi))
byteA == a[byteAt(ai) + 1]
byteB == b[byteAt(bi) + 1]

\* TrailingZeros64(x ^ y) / 8: how many of the low bytes are the same.  Mutants: the
\* bits, and the word's other end.
lowSameBits(x, y) == 8 * CHOOSE k \in 0 .. WordSize - 1 :
                              x[k] # y[k] /\ \A j \in 0 .. k - 1 : x[j] = y[j]
lowSameHigh(x, y) == WordSize - 1 - CHOOSE k \in 0 .. WordSize - 1 :
                              x[k] # y[k] /\ \A j \in k + 1 .. WordSize - 1 : x[j] = y[j]
lowSame(x, y) == CHOOSE k \in 0 .. WordSize - 1 :
                     x[k] # y[k] /\ \A j \in 0 .. k - 1 : x[j] = y[j]

\* LeadingZeros64(x ^ y) / 8: how many of the high bytes are the same.
highSame(x, y) == WordSize - 1 - CHOOSE k \in 0 .. WordSize - 1 :
                      x[k] # y[k] /\ \A j \in k + 1 .. WordSize - 1 : x[j] = y[j]

\* A word fits into what is left to compare.  Mutant: it only starts there.
wordFitsStart == i < n
wordFits == i + WordSize <= n

WordSame ==
    /\ pc = "words" /\ wordFits /\ wordA = wordB
    /\ i' = i + WordSize
    /\ UNCHANGED <<args, pc, result>>

WordDiffers ==
    /\ pc = "words" /\ wordFits /\ wordA # wordB
    /\ result' = i + (IF forward THEN lowSame(wordA, wordB) ELSE highSame(wordA, wordB))
    /\ pc' = "done"
    /\ UNCHANGED <<args, i>>

WordsDone ==
    /\ pc = "words" /\ ~ wordFits
    /\ pc' = "bytes"
    /\ UNCHANGED <<args, i, result>>

ByteSame ==
    /\ pc = "bytes" /\ i < n /\ byteA = byteB
    /\ i' = i + 1
    /\ UNCHANGED <<args, pc, result>>

ByteDiffers ==
    /\ pc = "bytes" /\ i < n /\ byteA # byteB
    /\ result' = i
    /\ pc' = "done"
    /\ UNCHANGED <<args, i>>

AllSame ==
    /\ pc = "bytes" /\ i >= n
    /\ result' = n
    /\ pc' = "done"
    /\ UNCHANGED <<args, i>>

Next == WordSame \/ WordDiffers \/ WordsDone \/ ByteSame \/ ByteDiffers \/ AllSame

Spec == Init /\ [][Next]_vars

-----------------------------------------------------------------------------
TypeOK ==
    /\ fn \in {"commonPrefixLen", "commonSuffixLen"}
    /\ a \in Texts /\ b \in Texts /\ ai \in 0 .. Len(a) /\ bi \in 0 .. Len(b)
    /\ n \in Nat
    /\ pc \in {"words", "bytes", "done"}
    /\ i \in 0 .. n /\ result \in 0 .. n

\* No word and no byte is read from outside of either text, before its start or past its
\* end: Go would panic (create.go: commonPrefixLen, commonSuffixLen).
Within(s, p, len) == p >= 0 /\ p + len <= Len(s)

ReadsInBounds ==
    /\ pc = "words" /\ wordFits =>
        Within(a, wordAt(ai), WordSize) /\ Within(b, wordAt(bi), WordSize)
    /\ pc = "bytes" /\ i < n => Within(a, byteAt(ai), 1) /\ Within(b, byteAt(bi), 1)

\* What comes out is the length of the common prefix, or suffix, that comparing byte by
\* byte would give (create.go: "which byte the first difference falls in").
ResultIsCommonLength ==
    pc = "done" => result = IF forward THEN commonPrefixLen(a, ai, b, bi)
                                       ELSE commonSuffixLen(a, ai, b, bi, n)
=============================================================================
