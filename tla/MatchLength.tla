---------------------------- MODULE MatchLength ----------------------------
(***************************************************************************)
(* How far two byte strings agree: what commonPrefixLen and                *)
(* commonSuffixLen (create.go) return, whichever way they find out.        *)
(* WordwiseMatch is the way they do.                                       *)
(***************************************************************************)
EXTENDS Integers, Sequences

min(j, k) == IF j <= k THEN j ELSE k

\* How many bytes a from ai on and b from bi on have in common.
commonPrefixLen(a, ai, b, bi) ==
    LET n == min(Len(a) - ai, Len(b) - bi)
    IN  CHOOSE k \in 0 .. n :
            /\ \A j \in 0 .. k - 1 : a[ai + j + 1] = b[bi + j + 1]
            /\ k < n => a[ai + k + 1] # b[bi + k + 1]

\* How many of the n bytes before ai in a and before bi in b are the same,
\* counted backwards.
commonSuffixLen(a, ai, b, bi, n) ==
    CHOOSE k \in 0 .. n :
        /\ \A j \in 0 .. k - 1 : a[ai - j] = b[bi - j]
        /\ k < n => a[ai - k] # b[bi - k]
=============================================================================
