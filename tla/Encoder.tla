------------------------------ MODULE Encoder ------------------------------
(***************************************************************************)
(* One call of AppendCreate (create.go): from a source and a target to the *)
(* bytes of a delta.                                                       *)
(*                                                                         *)
(* The source's blocks are first filed by hash: landmark holds the newest  *)
(* block of each bucket, collide the one before it.  A window then slides  *)
(* over the target; wherever its hash leads to blocks of the source, every *)
(* such block is tried, the longest match that pays for itself becomes a   *)
(* copy command, and what lies before it a literal.                        *)
(*                                                                         *)
(* The tables come from a pool.  landmark has been cleared, collide has    *)
(* not: it holds what another call left there.                             *)
(*                                                                         *)
(* Each action is one iteration of one of the loops.                       *)
(***************************************************************************)
EXTENDS Hash, MatchLength

CONSTANTS Pairs,           \* the sources and targets: <<origin, target>>
          Leftover,        \* what a used collide table may hold, over and over
          maxCandidates    \* blocks tried per window (the program's 250)

ASSUME EncoderAssumption ==
    /\ Pairs \subseteq Seq(Byte) \X Seq(Byte)
    /\ Leftover \subseteq Seq(Nat) \ {<<>>}
    /\ maxCandidates \in Nat

VARIABLES
    origin, target,        \* the arguments
    dst,                   \* the delta so far
    pc,
    collide, landmark,     \* the scratch tables; block numbers are biased by one
    blk,                   \* the next block to file
    base,                  \* how much of target dst accounts for
    i, h,                  \* the window, relative to base, and its hash
    next, limit,           \* the next candidate, and how many may still be tried
    best                   \* the best candidate so far; cnt = 0 is none

tables == <<collide, landmark, blk>>
vars == <<origin, target, dst, pc, collide, landmark, blk, base, i, h, next, limit, best>>

lenSrc == Len(origin)
lenOut == Len(target)

NoMatch == [cnt |-> 0, ofst |-> 0, litsz |-> 0]
NoHash == [a |-> 0, b |-> 0, i |-> 0, z |-> [k \in 0 .. hashWindow - 1 |-> 0]]

maxFormatLen == Word - 1

\* Mutant: a length of exactly Word passes, and wraps to zero.
fitsFormatPlusOne(k) == k <= maxFormatLen + 1
fitsFormat(k) == k <= maxFormatLen

nBlocks == lenSrc \div hashWindow

\* The tables' length: 1 << bits.Len32(nBlocks - 1), a power of two.
nBuckets ==
    LET shifted[v \in 0 .. nBlocks - 1] == IF v = 0 THEN 1 ELSE 2 * shifted[v \div 2]
    IN  shifted[nBlocks - 1]

literal(d, from, to) == appendInt(d, to - from, Colon) \o SubSeq(target, from + 1, to)
trailer(d) == appendInt(d, checksum(target), Semi)

Init ==
    /\ \E p \in Pairs : origin = p[1] /\ target = p[2]
    /\ dst = <<>> /\ pc = "start"
    /\ collide = <<>> /\ landmark = <<>> /\ blk = 0
    /\ base = 0 /\ i = 0 /\ h = NoHash /\ next = 0 /\ limit = 0 /\ best = NoMatch

-----------------------------------------------------------------------------
(* Before the search.                                                      *)

\* An input the format cannot describe: a header and nothing after it.
Unrepresentable ==
    /\ pc = "start"
    /\ ~ fitsFormat(lenOut) \/ ~ fitsFormat(lenSrc)
    /\ dst' = appendInt(dst, 0, NewLine)
    /\ pc' = "done"
    /\ UNCHANGED <<origin, target, tables, base, i, h, next, limit, best>>

\* A source no copy out of which could pay: the target as one literal.
ShortSource ==
    /\ pc = "start"
    /\ fitsFormat(lenOut) /\ fitsFormat(lenSrc) /\ lenSrc <= hashWindow
    /\ dst' = trailer(literal(appendInt(dst, lenOut, NewLine), 0, lenOut))
    /\ base' = lenOut
    /\ pc' = "done"
    /\ UNCHANGED <<origin, target, tables, i, h, next, limit, best>>

\* A landmark table of n entries with nothing filed.  Mutant: it is not cleared.
clearedKept(n) ==
    LET q == CHOOSE q \in Leftover : \E k \in 1 .. Len(q) : q[k] # 0
    IN  [b \in 0 .. n - 1 |-> q[(b % Len(q)) + 1]]
cleared(n) == [b \in 0 .. n - 1 |-> 0]

\* A collide table of n entries, filled with q time and again.
used(q, n) == [b \in 0 .. n - 1 |-> q[(b % Len(q)) + 1]]

\* getScratch: a cleared landmark, and a collide that is not.
Start ==
    /\ pc = "start"
    /\ fitsFormat(lenOut) /\ fitsFormat(lenSrc) /\ lenSrc > hashWindow
    /\ dst' = appendInt(dst, lenOut, NewLine)
    /\ landmark' = cleared(nBuckets)
    /\ \E q \in Leftover : collide' = used(q, nBuckets)
    /\ blk' = 0
    /\ pc' = "index"
    /\ UNCHANGED <<origin, target, base, i, h, next, limit, best>>

\* Mutant: the bucket's head is replaced before the chain takes the old one over.
IndexBlockSwapped ==
    /\ pc = "index" /\ blk * hashWindow < lenSrc - hashWindow
    /\ LET hv == bucketIndex(blockHash(origin, blk * hashWindow), nBuckets)
       IN  /\ collide' = [collide EXCEPT ![blk] = blk + 1]
           /\ landmark' = [landmark EXCEPT ![hv] = blk + 1]
    /\ blk' = blk + 1
    /\ UNCHANGED <<origin, target, dst, pc, base, i, h, next, limit, best>>

\* One block of the source is filed under its hash.  The last full block is not,
\* when the source ends with it.
IndexBlock ==
    /\ pc = "index" /\ blk * hashWindow < lenSrc - hashWindow
    /\ LET hv == bucketIndex(blockHash(origin, blk * hashWindow), nBuckets)
       IN  /\ collide' = [collide EXCEPT ![blk] = landmark[hv]]
           /\ landmark' = [landmark EXCEPT ![hv] = blk + 1]
    /\ blk' = blk + 1
    /\ UNCHANGED <<origin, target, dst, pc, base, i, h, next, limit, best>>

IndexDone ==
    /\ pc = "index" /\ blk * hashWindow >= lenSrc - hashWindow
    /\ pc' = "outer"
    /\ UNCHANGED <<origin, target, dst, tables, base, i, h, next, limit, best>>

-----------------------------------------------------------------------------
(* The search.                                                             *)

\* The window is at base + i and its hash is hash: its bucket's chain is next.
Look(hash) ==
    /\ next' = landmark[bucketIndex(rollValue(hash), nBuckets)]
    /\ limit' = maxCandidates
    /\ pc' = "probe"

\* What is left is longer than a window: look for a match from base on.
Outer ==
    /\ pc = "outer" /\ base + hashWindow < lenOut
    /\ best' = NoMatch
    /\ i' = 0
    /\ h' = rollInit(target, base)
    /\ Look(h')
    /\ UNCHANGED <<origin, target, dst, tables, base>>

\* How far back a match may reach: into the literal, and short of the source's
\* first byte.  Mutant: into what is already accounted for.
backLimitBase(iSrc) == IF iSrc = 0 THEN 0 ELSE min(iSrc - 1, base + i)
backLimit(iSrc) == IF iSrc = 0 THEN 0 ELSE min(iSrc - 1, i)

\* The match around block b of the source and the window.
candidate(b) ==
    LET iSrc == b * hashWindow
        fwd == commonPrefixLen(origin, iSrc, target, base + i)
        k == commonSuffixLen(origin, iSrc, target, base + i, backLimit(iSrc))
    IN  [cnt |-> fwd + k, ofst |-> iSrc - k, litsz |-> i - k]

\* What a copy must be worth.  Mutant: the offset's digits are not counted.
priceNoOffset(m) == digitCount(m.litsz) + digitCount(m.cnt)
price(m) == digitCount(m.litsz) + digitCount(m.cnt) + digitCount(m.ofst) + 3

\* One candidate is tried, and the chain followed.
Probe ==
    /\ pc = "probe" /\ next # 0 /\ limit > 0
    /\ LET m == candidate(next - 1)
       IN  best' = IF m.cnt > best.cnt /\ m.cnt >= price(m) THEN m ELSE best
    /\ next' = collide[next - 1]
    /\ limit' = limit - 1
    /\ UNCHANGED <<origin, target, dst, pc, tables, base, i, h>>

Tried == pc = "probe" /\ (next = 0 \/ limit = 0)

\* A copy command.  Mutant: it says where before it says how much.
copySwapped(d, m) == appendInt(appendInt(d, m.ofst, At), m.cnt, Comma)
copy(d, m) == appendInt(appendInt(d, m.cnt, At), m.ofst, Comma)

\* The best match becomes a copy, after a literal of what lies before it.
EmitCopy ==
    /\ Tried /\ best.cnt > 0
    /\ LET d == IF best.litsz > 0 THEN literal(dst, base, base + best.litsz) ELSE dst
       IN  dst' = copy(d, best)
    /\ base' = base + best.litsz + best.cnt
    /\ pc' = "outer"
    /\ UNCHANGED <<origin, target, tables, i, h, next, limit, best>>

\* The window has reached the end of the target: the rest is literal.
EmitRest ==
    /\ Tried /\ best.cnt = 0 /\ base + i + hashWindow >= lenOut
    /\ dst' = literal(dst, base, lenOut)
    /\ base' = lenOut
    /\ pc' = "outer"
    /\ UNCHANGED <<origin, target, tables, i, h, next, limit, best>>

\* Mutant: the window's position stays behind its hash.
SlideStays ==
    /\ Tried /\ best.cnt = 0 /\ base + i + hashWindow < lenOut
    /\ h' = rollNext(h, target[base + i + hashWindow + 1])
    /\ Look(h')
    /\ UNCHANGED <<origin, target, dst, tables, base, i, best>>

\* The window moves on by one byte.
Slide ==
    /\ Tried /\ best.cnt = 0 /\ base + i + hashWindow < lenOut
    /\ h' = rollNext(h, target[base + i + hashWindow + 1])
    /\ i' = i + 1
    /\ Look(h')
    /\ UNCHANGED <<origin, target, dst, tables, base, best>>

\* Too little is left to search: it is literal, and the checksum ends the delta.
Finish ==
    /\ pc = "outer" /\ base + hashWindow >= lenOut
    /\ dst' = trailer(IF base < lenOut THEN literal(dst, base, lenOut) ELSE dst)
    /\ base' = lenOut
    /\ pc' = "done"
    /\ UNCHANGED <<origin, target, tables, i, h, next, limit, best>>

Next ==
    \/ Unrepresentable \/ ShortSource \/ Start
    \/ IndexBlock \/ IndexDone
    \/ Outer \/ Probe \/ EmitCopy \/ EmitRest \/ Slide
    \/ Finish

Spec == Init /\ [][Next]_vars

\* The call runs on until it returns: nothing it does can block.
FairSpec == Spec /\ WF_vars(Next)

-----------------------------------------------------------------------------
(* What must hold.                                                         *)

Table == [0 .. nBuckets - 1 -> Nat]

TypeOK ==
    /\ origin \in Seq(Byte) /\ target \in Seq(Byte) /\ dst \in Seq(Byte)
    /\ pc \in {"start", "index", "outer", "probe", "done"}
    /\ pc \in {"index", "outer", "probe"} => collide \in Table /\ landmark \in Table
    /\ blk \in 0 .. nBlocks /\ base \in 0 .. lenOut /\ i \in 0 .. lenOut
    /\ next \in Nat /\ limit \in 0 .. maxCandidates
    /\ best \in [cnt : 0 .. lenOut, ofst : 0 .. lenSrc, litsz : 0 .. lenOut]

\* The hash that has been carried along is the hash of the window it stands for,
\* however far it has slid (hash.go: rollingHash).
RollingHashIsBlockHash ==
    pc = "probe" => rollValue(h) = blockHash(target, base + i)

\* "Every entry reachable along a chain was written by the same call that reads it"
\* (create.go, scratch): a candidate is a block this call has filed, in the window's
\* bucket, whatever the pool's table held.
CandidatesAreOwnBlocks ==
    pc = "probe" /\ next # 0 =>
        /\ next <= blk
        /\ bucketIndex(blockHash(origin, (next - 1) * hashWindow), nBuckets)
               = bucketIndex(rollValue(h), nBuckets)

\* A chain leads from newer blocks to older ones only: it cannot go round
\* (create.go: AppendCreate).
ChainsDescend == [][Probe => next' < next]_vars

\* A copy is taken only where it pays, so searching never makes the delta longer than
\* the one that is all literal (create.go: "long enough to be worth a copy command").
NeverLongerThanLiteral ==
    pc = "done" /\ fitsFormat(lenOut) /\ fitsFormat(lenSrc) =>
        Len(dst) <= Len(trailer(literal(appendInt(<<>>, lenOut, NewLine), 0, lenOut)))

\* Every call returns.
Returns == <>(pc = "done")
=============================================================================
