---------------------------- MODULE ScratchPool ----------------------------
(***************************************************************************)
(* Calls of AppendCreate in several goroutines, which share nothing but    *)
(* scratchPool (create.go: scratch, getScratch, putScratch).               *)
(*                                                                         *)
(* A call takes a pair of tables out of the pool, files the blocks of its  *)
(* source in them, follows the chains while it searches, and puts the      *)
(* tables back, with all that is in them.  Encoder models one such call    *)
(* in full; here a call is what it reads and writes of the tables, a block *)
(* filed or a link followed at a time, and what decides about them, the    *)
(* hashes of its source and target, is arbitrary.                          *)
(*                                                                         *)
(* sync.Pool is not part of the program: Get removes and returns any       *)
(* element, or nothing although there is one, and elements vanish.         *)
(***************************************************************************)
EXTENDS Integers, Sequences

CONSTANTS Callers,         \* the goroutines
          Scratches,       \* bound: the identities of scratch objects
          Sizes,           \* the table lengths calls ask for
          MaxBlocks,       \* bound: blocks a call files
          maxPooledHash    \* the longest tables the pool is given

ASSUME ScratchPoolAssumption ==
    /\ Scratches # {}
    /\ Sizes \subseteq Nat \ {0} /\ Sizes # {}
    /\ MaxBlocks \in Nat /\ maxPooledHash \in Nat

VARIABLES
    pool,       \* scratchPool's elements
    collide, landmark,    \* [Scratches -> table]: a table's length is its capacity
    pc,         \* [Callers -> where the call is]
    s, n,       \* [Callers -> its scratch, and the length it asked for]
    filed,      \* [Callers -> the bucket of each block filed so far, in order]
    bucket,     \* [Callers -> the bucket being looked at]
    next,       \* [Callers -> the candidate the chain has led to]
    last        \* history: [Callers -> the candidate before it; Len(filed) + 1 if none]

calls == <<s, n, filed, bucket, next, last>>
vars == <<pool, collide, landmark, pc, calls>>

Table == UNION {[0 .. k - 1 -> 0 .. MaxBlocks] : k \in Sizes \cup {0}}
cap(t) == CHOOSE k \in Sizes \cup {0} : DOMAIN t = 0 .. k - 1
fresh(k) == [b \in 0 .. k - 1 |-> 0]

\* What an idle call's s and n are.
anyScratch == CHOOSE x \in Scratches : TRUE
anySize == CHOOSE k \in Sizes : TRUE

Held == {s[c] : c \in {d \in Callers : pc[d] # "idle"}}

TypeOK ==
    /\ pool \subseteq Scratches
    /\ collide \in [Scratches -> Table] /\ landmark \in [Scratches -> Table]
    /\ \A x \in Scratches : DOMAIN collide[x] = DOMAIN landmark[x]
    /\ pc \in [Callers -> {"idle", "index", "search", "walk"}]
    /\ s \in [Callers -> Scratches] /\ n \in [Callers -> Sizes]
    /\ filed \in [Callers -> Seq(Nat)]
    /\ \A c \in Callers :
          /\ Len(filed[c]) <= MaxBlocks /\ Len(filed[c]) <= n[c]
          /\ \A k \in 1 .. Len(filed[c]) : filed[c][k] < n[c]
          /\ pc[c] = "walk" => bucket[c] < n[c]
    /\ bucket \in [Callers -> Nat]
    /\ next \in [Callers -> 0 .. MaxBlocks] /\ last \in [Callers -> 0 .. MaxBlocks + 1]

Init ==
    /\ pool = {}
    /\ collide = [x \in Scratches |-> fresh(0)] /\ landmark = [x \in Scratches |-> fresh(0)]
    /\ pc = [c \in Callers |-> "idle"]
    /\ s = [c \in Callers |-> anyScratch] /\ n = [c \in Callers |-> anySize]
    /\ filed = [c \in Callers |-> <<>>]
    /\ bucket = [c \in Callers |-> 0] /\ next = [c \in Callers |-> 0]
    /\ last = [c \in Callers |-> 0]

-----------------------------------------------------------------------------
(* getScratch(k), called by c.                                             *)

\* What nobody refers to any more is gone, contents and all.
Collected(t, xs) == [x \in Scratches |-> IF x \in xs THEN fresh(0) ELSE t[x]]

Begin(c, k, x) ==
    /\ pc[c] = "idle" /\ pc' = [pc EXCEPT ![c] = "index"]
    /\ s' = [s EXCEPT ![c] = x] /\ n' = [n EXCEPT ![c] = k]
    /\ UNCHANGED <<filed, bucket, next, last>>

\* A table's first k entries cleared; the others are out of the slice's reach.
clearTo(t, k) == [b \in DOMAIN t |-> IF b < k THEN 0 ELSE t[b]]

\* Mutant: only as many entries are cleared as the table is longer than asked for.
clearedLandmarkRest(x, k) == clearTo(landmark[x], cap(landmark[x]) - k)
clearedLandmark(x, k) == clearTo(landmark[x], k)

\* Mutant: one entry too few is enough.
longEnoughLess(x, k) == cap(collide[x]) >= k - 1
longEnough(x, k) == cap(collide[x]) >= k

\* Pooled tables that are long enough: landmark is cleared, collide is not.
Reuse(c, k, x) ==
    /\ Begin(c, k, x)
    /\ x \in pool /\ pool' = pool \ {x}
    /\ longEnough(x, k)
    /\ landmark' = [landmark EXCEPT ![x] = clearedLandmark(x, k)]
    /\ UNCHANGED collide

\* Mutant: only one of the two is replaced.
ReplaceCollide(c, k, x) ==
    /\ Begin(c, k, x)
    /\ x \in pool /\ pool' = pool \ {x}
    /\ ~ longEnough(x, k) /\ k <= maxPooledHash
    /\ collide' = [collide EXCEPT ![x] = fresh(k)]
    /\ UNCHANGED landmark

\* Pooled tables that are too short are replaced, when the new ones may be pooled.
Replace(c, k, x) ==
    /\ Begin(c, k, x)
    /\ x \in pool /\ pool' = pool \ {x}
    /\ ~ longEnough(x, k) /\ k <= maxPooledHash
    /\ collide' = [collide EXCEPT ![x] = fresh(k)]
    /\ landmark' = [landmark EXCEPT ![x] = fresh(k)]

\* The identity of new tables: any that is free would do.
free == Scratches \ (pool \cup Held)

\* New tables, because the pool gave none, or gave ones (dropped) that are too short
\* while the new ones are too long to pool.
Allocate(c, k, dropped) ==
    /\ free # {}
    /\ LET x == CHOOSE y \in free : TRUE
       IN  /\ Begin(c, k, x)
           /\ collide' = [Collected(collide, dropped) EXCEPT ![x] = fresh(k)]
           /\ landmark' = [Collected(landmark, dropped) EXCEPT ![x] = fresh(k)]
    /\ pool' = pool \ dropped
    /\ \/ dropped = {}
       \/ \E y \in pool : dropped = {y} /\ ~ longEnough(y, k) /\ k > maxPooledHash

-----------------------------------------------------------------------------
(* The call's use of its tables.                                           *)

\* A block with the hash b is filed.
File(c, b) ==
    /\ pc[c] = "index" /\ Len(filed[c]) < MaxBlocks /\ Len(filed[c]) < n[c]
    /\ b < n[c]
    /\ LET blk == Len(filed[c])
       IN  /\ collide' = [collide EXCEPT ![s[c]][blk] = landmark[s[c]][b]]
           /\ landmark' = [landmark EXCEPT ![s[c]][b] = blk + 1]
    /\ filed' = [filed EXCEPT ![c] = Append(@, b)]
    /\ UNCHANGED <<pool, pc, s, n, bucket, next, last>>

Indexed(c) ==
    /\ pc[c] = "index" /\ filed[c] # <<>>
    /\ pc' = [pc EXCEPT ![c] = "search"]
    /\ UNCHANGED <<pool, collide, landmark, calls>>

\* A window of the target has the hash b.
Look(c, b) ==
    /\ pc[c] = "search" /\ b < n[c]
    /\ pc' = [pc EXCEPT ![c] = "walk"]
    /\ bucket' = [bucket EXCEPT ![c] = b]
    /\ next' = [next EXCEPT ![c] = landmark[s[c]][b]]
    /\ last' = [last EXCEPT ![c] = Len(filed[c]) + 1]
    /\ UNCHANGED <<pool, collide, landmark, s, n, filed>>

Follow(c) ==
    /\ pc[c] = "walk" /\ next[c] # 0
    /\ next' = [next EXCEPT ![c] = collide[s[c]][next[c] - 1]]
    /\ last' = [last EXCEPT ![c] = next[c]]
    /\ UNCHANGED <<pool, collide, landmark, pc, s, n, filed, bucket>>

\* The chain has ended, or enough of it has been tried.
StopWalk(c) ==
    /\ pc[c] = "walk"
    /\ pc' = [pc EXCEPT ![c] = "search"]
    /\ bucket' = [bucket EXCEPT ![c] = 0] /\ next' = [next EXCEPT ![c] = 0]
    /\ last' = [last EXCEPT ![c] = 0]
    /\ UNCHANGED <<pool, collide, landmark, s, n, filed>>

\* Which tables are kept.  Mutant: all of them.
poolableAll(x) == TRUE
poolable(x) == cap(collide[x]) <= maxPooledHash

\* Mutant: the tables are put back when the index is built, and used on.
PutWhileSearching(c) ==
    /\ pc[c] = "search"
    /\ pool' = pool \cup (IF poolable(s[c]) THEN {s[c]} ELSE {})
    /\ UNCHANGED <<collide, landmark, pc, calls>>

\* putScratch, at the end of the search.
Put(c) ==
    /\ pc[c] = "search"
    /\ pc' = [pc EXCEPT ![c] = "idle"]
    /\ filed' = [filed EXCEPT ![c] = <<>>] /\ n' = [n EXCEPT ![c] = anySize]
    /\ s' = [s EXCEPT ![c] = anyScratch]
    /\ LET lost == IF poolable(s[c]) THEN {} ELSE {s[c]}
       IN  /\ pool' = pool \cup ({s[c]} \ lost)
           /\ collide' = Collected(collide, lost)
           /\ landmark' = Collected(landmark, lost)
    /\ UNCHANGED <<bucket, next, last>>

\* The garbage collector empties pools.
Vanish(x) ==
    /\ x \in pool /\ pool' = pool \ {x}
    /\ collide' = Collected(collide, {x}) /\ landmark' = Collected(landmark, {x})
    /\ UNCHANGED <<pc, calls>>

Next ==
    \/ \E c \in Callers, k \in Sizes, x \in Scratches :
          Reuse(c, k, x) \/ Replace(c, k, x)
    \/ \E c \in Callers, k \in Sizes :
          \E dropped \in {{}} \cup {{y} : y \in pool} : Allocate(c, k, dropped)
    \/ \E c \in Callers :
          \/ \E b \in 0 .. n[c] - 1 : File(c, b) \/ Look(c, b)
          \/ Indexed(c) \/ Follow(c) \/ StopWalk(c) \/ Put(c)
    \/ \E x \in Scratches : Vanish(x)

Spec == Init /\ [][Next]_vars

-----------------------------------------------------------------------------
(* What must hold.                                                         *)

\* "All functions are safe for concurrent use" (doc.go): tables in use are in nobody
\* else's use, and not in the pool for anyone to take.
TablesAreExclusive ==
    \A c \in Callers : pc[c] # "idle" =>
        /\ s[c] \notin pool
        /\ \A d \in Callers \ {c} : pc[d] # "idle" => s[d] # s[c]

\* v is the newest of the blocks in f before k whose bucket is b; 0 if there is none.
newestBefore(v, f, b, k) ==
    /\ v = 0 \/ (v \in 1 .. Len(f) /\ v < k /\ f[v] = b)
    /\ \A j \in 1 .. Len(f) : j < k /\ f[j] = b => j <= v

\* A walk visits the blocks of its bucket that this very call filed, the newest first
\* and none left out, whatever the tables held before and whoever else is at work
\* (create.go: "every entry reachable along a chain was written by the same call").
WalkFindsOwnBlocks ==
    \A c \in Callers : pc[c] = "walk" =>
        newestBefore(next[c], filed[c], bucket[c], last[c])

\* Both tables are as long as the call asked for, so that neither a bucket nor a block
\* is out of range (create.go: getScratch).
TablesLongEnough ==
    \A c \in Callers : pc[c] # "idle" =>
        cap(collide[s[c]]) >= n[c] /\ cap(landmark[s[c]]) >= n[c]

\* One large source does not make the pool keep large tables (create.go: maxPooledHash).
PoolStaysSmall == \A x \in pool : cap(collide[x]) <= maxPooledHash
=============================================================================
