---------------------------- MODULE ScratchProofs ----------------------------
(***************************************************************************)
(* Theorems about ScratchPool, for any number of goroutines, tables and    *)
(* table lengths.                                                          *)
(***************************************************************************)
EXTENDS ScratchPool, SequenceTheorems, TLAPS

-----------------------------------------------------------------------------
(* Tables and their lengths.                                               *)

\* Lengths are natural numbers.
LEMMA SizesAreNat == \A k \in Sizes \cup {0} : k \in Nat
<1> SUFFICES ASSUME NEW k \in Sizes \cup {0} PROVE k \in Nat
  OBVIOUS
<1>1. CASE k \in Sizes
  BY <1>1, ScratchPoolAssumption
<1>2. CASE k = 0
  BY <1>2
<1> QED
  BY <1>1, <1>2

\* A table's domain says how long it is.
LEMMA CapIs ==
    ASSUME NEW t, NEW k \in Sizes \cup {0}, DOMAIN t = 0 .. k - 1
    PROVE  cap(t) = k
<1>1. cap(t) \in Sizes \cup {0} /\ DOMAIN t = 0 .. cap(t) - 1
  BY DEF cap
<1>2. k \in Nat /\ cap(t) \in Nat
  BY <1>1, SizesAreNat
<1>3. 0 .. k - 1 = 0 .. cap(t) - 1
  BY <1>1
<1> QED
  BY <1>2, <1>3

\* A table is a function from 0 .. cap - 1 to biased block numbers.
LEMMA TableIs ==
    ASSUME NEW t \in Table
    PROVE  /\ cap(t) \in Sizes \cup {0} /\ cap(t) \in Nat
           /\ t \in [0 .. cap(t) - 1 -> 0 .. MaxBlocks]
<1>1. PICK k \in Sizes \cup {0} : t \in [0 .. k - 1 -> 0 .. MaxBlocks]
  BY DEF Table
<1>2. cap(t) = k
  BY <1>1, CapIs
<1> QED
  BY <1>1, <1>2, SizesAreNat

LEMMA IsTable ==
    ASSUME NEW k \in Sizes \cup {0}, NEW t \in [0 .. k - 1 -> 0 .. MaxBlocks]
    PROVE  t \in Table /\ cap(t) = k
<1>1. t \in Table
  BY DEF Table
<1>2. DOMAIN t = 0 .. k - 1
  OBVIOUS
<1> QED
  BY <1>1, <1>2, CapIs

LEMMA FreshIsTable ==
    ASSUME NEW k \in Sizes \cup {0}
    PROVE  fresh(k) \in Table /\ cap(fresh(k)) = k /\ DOMAIN fresh(k) = 0 .. k - 1
<1>1. fresh(k) \in [0 .. k - 1 -> 0 .. MaxBlocks]
  BY ScratchPoolAssumption DEF fresh
<1> QED
  BY <1>1, IsTable

\* Writing an entry changes neither a table's type nor its length.
LEMMA UpdateIsTable ==
    ASSUME NEW t \in Table, NEW b, NEW v \in 0 .. MaxBlocks
    PROVE  /\ [t EXCEPT ![b] = v] \in Table
           /\ cap([t EXCEPT ![b] = v]) = cap(t)
           /\ DOMAIN [t EXCEPT ![b] = v] = DOMAIN t
<1>1. cap(t) \in Sizes \cup {0} /\ t \in [0 .. cap(t) - 1 -> 0 .. MaxBlocks]
  BY TableIs
<1>2. [t EXCEPT ![b] = v] \in [0 .. cap(t) - 1 -> 0 .. MaxBlocks]
  BY <1>1
<1> QED
  BY <1>1, <1>2, IsTable

\* Nor does clearing.
LEMMA ClearIsTable ==
    ASSUME NEW t \in Table, NEW k
    PROVE  /\ clearTo(t, k) \in Table
           /\ cap(clearTo(t, k)) = cap(t)
           /\ DOMAIN clearTo(t, k) = DOMAIN t
<1>1. cap(t) \in Sizes \cup {0} /\ t \in [0 .. cap(t) - 1 -> 0 .. MaxBlocks]
  BY TableIs
<1>2. clearTo(t, k) \in [0 .. cap(t) - 1 -> 0 .. MaxBlocks]
  BY <1>1, ScratchPoolAssumption DEF clearTo
<1> QED
  BY <1>1, <1>2, IsTable

\* Tables of the same domain are of the same length.
LEMMA SameCap ==
    ASSUME NEW t, NEW u, DOMAIN t = DOMAIN u
    PROVE  cap(t) = cap(u)
BY DEF cap

\* What is collected is a table of no entries; the rest is as it was.
LEMMA CollectedIs ==
    ASSUME NEW t \in [Scratches -> Table], NEW xs
    PROVE  /\ Collected(t, xs) \in [Scratches -> Table]
           /\ \A x \in Scratches : x \notin xs => Collected(t, xs)[x] = t[x]
           /\ \A x \in Scratches : x \in xs => Collected(t, xs)[x] = fresh(0)
<1>1. fresh(0) \in Table
  BY FreshIsTable
<1> QED
  BY <1>1 DEF Collected

-----------------------------------------------------------------------------
(* Who has which tables, and how long they are.                            *)

\* The types of the pool and its tables, and those of the calls.
TablesOK ==
    /\ pool \subseteq Scratches
    /\ collide \in [Scratches -> Table] /\ landmark \in [Scratches -> Table]
    /\ \A x \in Scratches : DOMAIN collide[x] = DOMAIN landmark[x]

CallOK(c) ==
    /\ filed[c] \in Seq(Nat) /\ Len(filed[c]) <= MaxBlocks /\ Len(filed[c]) <= n[c]
    /\ \A k \in 1 .. Len(filed[c]) : filed[c][k] < n[c]
    /\ pc[c] = "idle" => filed[c] = <<>>
    /\ pc[c] = "walk" => bucket[c] < n[c]

CallsOK ==
    /\ pc \in [Callers -> {"idle", "index", "search", "walk"}]
    /\ s \in [Callers -> Scratches] /\ n \in [Callers -> Sizes]
    /\ filed \in [Callers -> Seq(Nat)] /\ bucket \in [Callers -> Nat]
    /\ next \in [Callers -> 0 .. MaxBlocks] /\ last \in [Callers -> 0 .. MaxBlocks + 1]
    /\ \A c \in Callers : CallOK(c)

\* A call at work has tables of its own, long enough for it.
HasTables(c) ==
    /\ s[c] \notin pool
    /\ \A d \in Callers \ {c} : pc[d] # "idle" => s[d] # s[c]
    /\ cap(collide[s[c]]) >= n[c]

Inv ==
    /\ TablesOK /\ CallsOK
    /\ \A c \in Callers : pc[c] # "idle" => HasTables(c)
    /\ \A x \in pool : cap(collide[x]) <= maxPooledHash

LEMMA InvInit == Init => Inv
<1> SUFFICES ASSUME Init PROVE Inv
  OBVIOUS
<1>1. anyScratch \in Scratches
  BY ScratchPoolAssumption DEF anyScratch
<1>2. anySize \in Sizes /\ anySize \in Nat
  BY ScratchPoolAssumption DEF anySize
<1>3. <<>> \in Seq(Nat) /\ Len(<<>>) = 0
  OBVIOUS
<1>4. fresh(0) \in Table
  BY FreshIsTable
<1>5. TablesOK
  BY <1>4 DEF Init, TablesOK
<1>6. ASSUME NEW c \in Callers PROVE CallOK(c)
  <2>1. filed[c] = <<>> /\ pc[c] = "idle" /\ n[c] = anySize
    BY DEF Init
  <2>2. 0 <= MaxBlocks /\ 0 <= n[c]
    BY <2>1, <1>2, ScratchPoolAssumption
  <2>3. \A k \in 1 .. 0 : filed[c][k] < n[c]
    OBVIOUS
  <2> QED
    BY <2>1, <2>2, <2>3, <1>3 DEF CallOK
<1>7. CallsOK
  BY <1>1, <1>2, <1>3, <1>6, ScratchPoolAssumption DEF Init, CallsOK
<1> QED
  BY <1>5, <1>7 DEF Init, Inv

\* How a call that begins changes the calls' types: not at all.
LEMMA BeginKeepsCalls ==
    ASSUME CallsOK, NEW c \in Callers, NEW k \in Sizes, NEW x \in Scratches, Begin(c, k, x)
    PROVE  CallsOK'
<1>1. filed[c] = <<>> /\ Len(filed[c]) = 0 /\ k \in Nat
  BY SizesAreNat DEF CallsOK, CallOK, Begin
<1>2. ASSUME NEW d \in Callers PROVE CallOK(d)'
  <2>1. CASE d = c
    <3>1. n'[c] = k /\ filed'[c] = filed[c] /\ pc'[c] = "index"
      BY DEF Begin, CallsOK
    <3>2. 0 <= k /\ 0 <= MaxBlocks
      BY <1>1, ScratchPoolAssumption
    <3>3. \A j \in 1 .. 0 : filed[c][j] < k
      OBVIOUS
    <3>4. filed[c] \in Seq(Nat)
      BY DEF CallsOK
    <3> QED
      BY <1>1, <2>1, <3>1, <3>2, <3>3, <3>4 DEF CallOK
  <2>2. CASE d # c
    <3>1. n'[d] = n[d] /\ filed'[d] = filed[d] /\ pc'[d] = pc[d] /\ bucket'[d] = bucket[d]
      BY <2>2 DEF Begin, CallsOK
    <3> QED
      BY <3>1 DEF CallOK, CallsOK
  <2> QED
    BY <2>1, <2>2
<1> QED
  BY <1>2 DEF CallsOK, Begin

\* A call that begins with tables nobody else has, and long enough for it, and leaves
\* those of others alone, keeps the invariant.
LEMMA BeginKeepsInv ==
    ASSUME Inv, NEW c \in Callers, NEW k \in Sizes, NEW x \in Scratches, Begin(c, k, x),
           TablesOK',
           x \notin pool', pool' \subseteq pool,
           \A d \in Callers : pc[d] # "idle" => s[d] # x,
           \A y \in Scratches : (y \in pool' \/ \E d \in Callers : pc[d] # "idle" /\ s[d] = y)
                                    => collide'[y] = collide[y],
           cap(collide'[x]) >= k
    PROVE  Inv'
<1>1. CallsOK'
  BY BeginKeepsCalls DEF Inv
<1>2. /\ pc'[c] = "index" /\ s'[c] = x /\ n'[c] = k /\ pc[c] = "idle"
      /\ \A d \in Callers \ {c} : pc'[d] = pc[d] /\ s'[d] = s[d] /\ n'[d] = n[d]
  BY DEF Begin, Inv, CallsOK
<1>3. ASSUME NEW d \in Callers, pc'[d] # "idle" PROVE HasTables(d)'
  <2>1. CASE d = c
    BY <2>1, <1>2 DEF HasTables
  <2>2. CASE d # c
    <3>1. HasTables(d) /\ pc[d] # "idle" /\ s[d] \in Scratches
      BY <2>2, <1>2, <1>3 DEF Inv, CallsOK
    <3>2. collide'[s[d]] = collide[s[d]]
      BY <3>1
    <3> QED
      BY <2>2, <3>1, <3>2, <1>2 DEF HasTables
  <2> QED
    BY <2>1, <2>2
<1>4. ASSUME NEW y \in pool' PROVE cap(collide'[y]) <= maxPooledHash
  BY <1>4 DEF Inv, TablesOK
<1> QED
  BY <1>1, <1>3, <1>4 DEF Inv

-----------------------------------------------------------------------------
(* The actions, one by one.                                                *)

LEMMA ReuseKeepsInv ==
    ASSUME Inv, NEW c \in Callers, NEW k \in Sizes, NEW x \in Scratches, Reuse(c, k, x)
    PROVE  Inv'
<1> DEFINE t == clearTo(landmark[x], k)
<1>1. landmark[x] \in Table /\ collide[x] \in Table /\ x \in pool
  BY DEF Inv, TablesOK, Reuse
<1>2. t \in Table /\ DOMAIN t = DOMAIN landmark[x]
  BY <1>1, ClearIsTable
<1>3. collide' = collide /\ landmark' = [landmark EXCEPT ![x] = t] /\ pool' = pool \ {x}
  BY DEF Reuse, clearedLandmark
<1>4. TablesOK'
  BY <1>2, <1>3 DEF Inv, TablesOK
<1>5. \A d \in Callers : pc[d] # "idle" => s[d] # x
  BY <1>1 DEF Inv, HasTables
<1>6. cap(collide'[x]) >= k
  BY <1>3 DEF Reuse, longEnough
<1> QED
  BY <1>3, <1>4, <1>5, <1>6, BeginKeepsInv DEF Reuse

LEMMA ReplaceKeepsInv ==
    ASSUME Inv, NEW c \in Callers, NEW k \in Sizes, NEW x \in Scratches, Replace(c, k, x)
    PROVE  Inv'
<1>1. x \in pool /\ k \in Nat
  BY SizesAreNat DEF Replace
<1>2. fresh(k) \in Table /\ cap(fresh(k)) = k
  BY FreshIsTable
<1>3. /\ collide' = [collide EXCEPT ![x] = fresh(k)]
      /\ landmark' = [landmark EXCEPT ![x] = fresh(k)] /\ pool' = pool \ {x}
  BY DEF Replace
<1>4. TablesOK'
  BY <1>2, <1>3 DEF Inv, TablesOK
<1>5. \A d \in Callers : pc[d] # "idle" => s[d] # x
  BY <1>1 DEF Inv, HasTables
<1>6. collide'[x] = fresh(k) /\ \A y \in Scratches : y # x => collide'[y] = collide[y]
  BY <1>3 DEF Inv, TablesOK
<1>7. cap(collide'[x]) >= k
  BY <1>1, <1>2, <1>6
<1>8. \A y \in Scratches : (y \in pool' \/ \E d \in Callers : pc[d] # "idle" /\ s[d] = y)
                               => collide'[y] = collide[y]
  BY <1>3, <1>5, <1>6
<1> QED
  BY <1>3, <1>4, <1>5, <1>7, <1>8, BeginKeepsInv DEF Replace

LEMMA AllocateKeepsInv ==
    ASSUME Inv, NEW c \in Callers, NEW k \in Sizes, NEW dropped \in SUBSET pool,
           Allocate(c, k, dropped)
    PROVE  Inv'
<1> DEFINE x == CHOOSE y \in free : TRUE
<1>1. x \in Scratches /\ x \notin pool /\ x \notin Held /\ k \in Nat
  BY SizesAreNat DEF Allocate, free
<1>2. /\ Begin(c, k, x)
      /\ collide' = [Collected(collide, dropped) EXCEPT ![x] = fresh(k)]
      /\ landmark' = [Collected(landmark, dropped) EXCEPT ![x] = fresh(k)]
      /\ pool' = pool \ dropped
  BY DEF Allocate
<1>3. fresh(k) \in Table /\ cap(fresh(k)) = k
  BY FreshIsTable
<1>4. collide \in [Scratches -> Table] /\ landmark \in [Scratches -> Table]
  BY DEF Inv, TablesOK
<1>5. /\ Collected(collide, dropped) \in [Scratches -> Table]
      /\ \A y \in Scratches : y \notin dropped => Collected(collide, dropped)[y] = collide[y]
      /\ \A y \in Scratches : y \in dropped => Collected(collide, dropped)[y] = fresh(0)
  BY <1>4, CollectedIs
<1>6. /\ Collected(landmark, dropped) \in [Scratches -> Table]
      /\ \A y \in Scratches : y \notin dropped => Collected(landmark, dropped)[y] = landmark[y]
      /\ \A y \in Scratches : y \in dropped => Collected(landmark, dropped)[y] = fresh(0)
  BY <1>4, CollectedIs
<1>7. collide' \in [Scratches -> Table] /\ landmark' \in [Scratches -> Table]
  BY <1>2, <1>3, <1>5, <1>6
<1>8. ASSUME NEW y \in Scratches PROVE DOMAIN collide'[y] = DOMAIN landmark'[y]
  <2>1. CASE y = x
    BY <2>1, <1>1, <1>2, <1>5, <1>6
  <2>2. CASE y # x
    <3>1. collide'[y] = Collected(collide, dropped)[y] /\ landmark'[y] = Collected(landmark, dropped)[y]
      BY <2>2, <1>1, <1>2, <1>5, <1>6
    <3>2. CASE y \in dropped
      BY <3>1, <3>2, <1>5, <1>6
    <3>3. CASE y \notin dropped
      BY <3>1, <3>3, <1>5, <1>6 DEF Inv, TablesOK
    <3> QED
      BY <3>2, <3>3
  <2> QED
    BY <2>1, <2>2
<1>9. TablesOK'
  BY <1>2, <1>7, <1>8 DEF Inv, TablesOK
<1>10. \A d \in Callers : pc[d] # "idle" => s[d] # x /\ s[d] \notin pool
  BY <1>1 DEF Inv, HasTables, Held
<1>11. \A y \in Scratches : (y \in pool' \/ \E d \in Callers : pc[d] # "idle" /\ s[d] = y)
                                => y \notin dropped /\ y # x
  BY <1>1, <1>2, <1>10
<1>12. \A y \in Scratches : y \notin dropped /\ y # x => collide'[y] = collide[y]
  BY <1>1, <1>2, <1>5
<1>13. collide'[x] = fresh(k)
  BY <1>1, <1>2, <1>5
<1>14. cap(collide'[x]) >= k
  BY <1>1, <1>3, <1>13
<1>15. x \notin pool' /\ pool' \subseteq pool
  BY <1>1, <1>2
<1> HIDE DEF x
<1> QED
  BY <1>1, <1>2, <1>9, <1>10, <1>11, <1>12, <1>14, <1>15, BeginKeepsInv

\* A step that leaves the pool alone, and the lengths of all tables, keeps the invariant
\* if it is within a call at work.
LEMMA WithinKeepsInv ==
    ASSUME Inv, TablesOK', CallsOK', UNCHANGED <<pool, s, n>>,
           \A d \in Callers : (pc'[d] = "idle") = (pc[d] = "idle"),
           \A y \in Scratches : cap(collide'[y]) = cap(collide[y])
    PROVE  Inv'
<1>1. ASSUME NEW d \in Callers, pc'[d] # "idle" PROVE HasTables(d)'
  <2>1. HasTables(d) /\ s[d] \in Scratches
    BY <1>1 DEF Inv, CallsOK
  <2> QED
    BY <2>1 DEF HasTables
<1>2. ASSUME NEW y \in pool' PROVE cap(collide'[y]) <= maxPooledHash
  BY <1>2 DEF Inv, TablesOK
<1> QED
  BY <1>1, <1>2 DEF Inv

LEMMA FileKeepsInv ==
    ASSUME Inv, NEW c \in Callers, NEW b \in 0 .. n[c] - 1, File(c, b)
    PROVE  Inv'
<1> DEFINE x == s[c]
           blk == Len(filed[c])
<1>1. /\ collide[x] \in Table /\ landmark[x] \in Table /\ x \in Scratches
      /\ n[c] \in Nat /\ filed[c] \in Seq(Nat) /\ MaxBlocks \in Nat
      /\ DOMAIN collide[x] = DOMAIN landmark[x]
  BY SizesAreNat, ScratchPoolAssumption DEF Inv, TablesOK, CallsOK
<1>2. cap(landmark[x]) >= n[c]
  <2>1. cap(collide[x]) >= n[c]
    BY DEF Inv, HasTables, File
  <2> QED
    BY <2>1, <1>1, SameCap
<1>3. landmark[x][b] \in 0 .. MaxBlocks
  <2>1. cap(landmark[x]) \in Nat /\ landmark[x] \in [0 .. cap(landmark[x]) - 1 -> 0 .. MaxBlocks]
    BY <1>1, TableIs
  <2>2. b \in 0 .. cap(landmark[x]) - 1
    BY <2>1, <1>1, <1>2
  <2> QED
    BY <2>1, <2>2
<1>4. blk \in Nat /\ blk < MaxBlocks /\ blk < n[c] /\ blk + 1 \in 0 .. MaxBlocks
  BY <1>1, LenProperties DEF File
<1>5. /\ [collide[x] EXCEPT ![blk] = landmark[x][b]] \in Table
      /\ cap([collide[x] EXCEPT ![blk] = landmark[x][b]]) = cap(collide[x])
      /\ DOMAIN [collide[x] EXCEPT ![blk] = landmark[x][b]] = DOMAIN collide[x]
  BY <1>1, <1>3, UpdateIsTable
<1>6. /\ [landmark[x] EXCEPT ![b] = blk + 1] \in Table
      /\ DOMAIN [landmark[x] EXCEPT ![b] = blk + 1] = DOMAIN landmark[x]
  BY <1>1, <1>4, UpdateIsTable
<1>7. /\ collide' = [collide EXCEPT ![x] = [collide[x] EXCEPT ![blk] = landmark[x][b]]]
      /\ landmark' = [landmark EXCEPT ![x] = [landmark[x] EXCEPT ![b] = blk + 1]]
      /\ pool' = pool /\ pc' = pc /\ s' = s /\ n' = n /\ bucket' = bucket /\ next' = next
      /\ last' = last /\ filed' = [filed EXCEPT ![c] = Append(filed[c], b)]
  BY DEF File
<1>8. TablesOK'
  BY <1>1, <1>5, <1>6, <1>7 DEF Inv, TablesOK
<1>9. CallsOK'
  <2>1. Append(filed[c], b) \in Seq(Nat) /\ Len(Append(filed[c], b)) = blk + 1
    BY <1>1, AppendProperties
  <2>2. ASSUME NEW j \in 1 .. blk + 1 PROVE Append(filed[c], b)[j] < n[c]
    <3>1. CASE j \in 1 .. blk
      BY <3>1, <1>1, AppendProperties DEF Inv, CallsOK, CallOK
    <3>2. CASE j = blk + 1
      BY <3>2, <1>1, AppendProperties
    <3> QED
      BY <3>1, <3>2, <1>4
  <2>3. ASSUME NEW d \in Callers PROVE CallOK(d)'
    <3>1. CASE d = c
      <4>1. filed'[c] = Append(filed[c], b) /\ pc'[c] = "index" /\ n'[c] = n[c]
        BY <1>7 DEF Inv, CallsOK, File
      <4>2. blk + 1 <= MaxBlocks /\ blk + 1 <= n[c]
        BY <1>1, <1>4
      <4> HIDE DEF blk
      <4> QED
        BY <2>1, <2>2, <3>1, <4>1, <4>2 DEF CallOK
    <3>2. CASE d # c
      <4>1. filed'[d] = filed[d] /\ CallOK(d)
        BY <1>7, <3>2 DEF Inv, CallsOK
      <4> QED
        BY <4>1, <1>7 DEF CallOK
    <3> QED
      BY <3>1, <3>2
  <2> QED
    BY <2>1, <2>3, <1>7 DEF Inv, CallsOK
<1>10. \A y \in Scratches : cap(collide'[y]) = cap(collide[y])
  BY <1>1, <1>5, <1>7 DEF Inv, TablesOK
<1> QED
  BY <1>7, <1>8, <1>9, <1>10, WithinKeepsInv

LEMMA IndexedKeepsInv ==
    ASSUME Inv, NEW c \in Callers, Indexed(c)
    PROVE  Inv'
<1>1. TablesOK'
  BY DEF Inv, TablesOK, Indexed
<1>2. \A d \in Callers : CallOK(d)'
  BY DEF Inv, CallsOK, CallOK, Indexed, calls
<1>3. CallsOK'
  BY <1>2 DEF Inv, CallsOK, Indexed, calls
<1>4. \A d \in Callers : (pc'[d] = "idle") = (pc[d] = "idle")
  BY DEF Inv, CallsOK, Indexed
<1> QED
  BY <1>1, <1>3, <1>4, WithinKeepsInv DEF Indexed, calls

LEMMA LookKeepsInv ==
    ASSUME Inv, NEW c \in Callers, NEW b \in 0 .. n[c] - 1, Look(c, b)
    PROVE  Inv'
<1>1. /\ landmark[s[c]] \in Table /\ collide[s[c]] \in Table /\ n[c] \in Nat
      /\ DOMAIN collide[s[c]] = DOMAIN landmark[s[c]]
  BY SizesAreNat DEF Inv, TablesOK, CallsOK
<1>2. landmark[s[c]][b] \in 0 .. MaxBlocks
  <2>1. cap(collide[s[c]]) >= n[c]
    BY DEF Inv, HasTables, Look
  <2>2. cap(landmark[s[c]]) >= n[c]
    BY <2>1, <1>1, SameCap
  <2>3. /\ cap(landmark[s[c]]) \in Nat
        /\ landmark[s[c]] \in [0 .. cap(landmark[s[c]]) - 1 -> 0 .. MaxBlocks]
    BY <1>1, TableIs
  <2>4. b \in 0 .. cap(landmark[s[c]]) - 1
    BY <1>1, <2>2, <2>3
  <2> QED
    BY <2>3, <2>4
<1>3. TablesOK'
  BY DEF Inv, TablesOK, Look
<1>4. Len(filed[c]) + 1 \in 0 .. MaxBlocks + 1
  <2>1. filed[c] \in Seq(Nat) /\ Len(filed[c]) <= MaxBlocks /\ MaxBlocks \in Nat
    BY ScratchPoolAssumption DEF Inv, CallsOK, CallOK
  <2>2. Len(filed[c]) \in Nat
    BY <2>1, LenProperties
  <2> QED
    BY <2>1, <2>2
<1>5. ASSUME NEW d \in Callers PROVE CallOK(d)'
  <2>1. CASE d = c
    <3>1. bucket'[c] = b /\ pc'[c] = "walk" /\ b < n[c] /\ UNCHANGED <<filed, n>>
      BY <1>1 DEF Look, Inv, CallsOK
    <3> QED
      BY <2>1, <3>1 DEF Inv, CallsOK, CallOK
  <2>2. CASE d # c
    <3>1. bucket'[d] = bucket[d] /\ pc'[d] = pc[d] /\ UNCHANGED <<filed, n>>
      BY <2>2 DEF Look, Inv, CallsOK
    <3> QED
      BY <3>1 DEF Inv, CallsOK, CallOK
  <2> QED
    BY <2>1, <2>2
<1>6. CallsOK'
  <2>1. b \in Nat
    BY <1>1
  <2> QED
    BY <2>1, <1>2, <1>4, <1>5 DEF Look, Inv, CallsOK
<1>7. \A d \in Callers : (pc'[d] = "idle") = (pc[d] = "idle")
  BY DEF Inv, CallsOK, Look
<1> QED
  BY <1>3, <1>6, <1>7, WithinKeepsInv DEF Look

LEMMA StopWalkKeepsInv ==
    ASSUME Inv, NEW c \in Callers, StopWalk(c)
    PROVE  Inv'
<1>1. TablesOK'
  BY DEF Inv, TablesOK, StopWalk
<1>2. ASSUME NEW d \in Callers PROVE CallOK(d)'
  <2>1. CASE d = c
    <3>1. pc'[c] = "search" /\ UNCHANGED <<filed, n>>
      BY DEF StopWalk, Inv, CallsOK
    <3> QED
      BY <2>1, <3>1 DEF Inv, CallsOK, CallOK
  <2>2. CASE d # c
    <3>1. bucket'[d] = bucket[d] /\ pc'[d] = pc[d] /\ UNCHANGED <<filed, n>>
      BY <2>2 DEF StopWalk, Inv, CallsOK
    <3> QED
      BY <3>1 DEF Inv, CallsOK, CallOK
  <2> QED
    BY <2>1, <2>2
<1>3. CallsOK'
  BY <1>2, ScratchPoolAssumption DEF StopWalk, Inv, CallsOK
<1>4. \A d \in Callers : (pc'[d] = "idle") = (pc[d] = "idle")
  BY DEF Inv, CallsOK, StopWalk
<1> QED
  BY <1>1, <1>3, <1>4, WithinKeepsInv DEF StopWalk

\* The candidate a chain is followed from is a block the call has filed.
LEMMA FollowKeepsInv ==
    ASSUME Inv, NEW c \in Callers, Follow(c), next[c] \in 1 .. Len(filed[c])
    PROVE  Inv'
<1>1. /\ collide[s[c]] \in Table /\ n[c] \in Nat /\ MaxBlocks \in Nat
      /\ filed[c] \in Seq(Nat) /\ Len(filed[c]) \in Nat /\ Len(filed[c]) <= n[c]
  BY SizesAreNat, ScratchPoolAssumption, LenProperties DEF Inv, TablesOK, CallsOK, CallOK
<1>2. collide[s[c]][next[c] - 1] \in 0 .. MaxBlocks
  <2>1. cap(collide[s[c]]) >= n[c]
    BY DEF Inv, HasTables, Follow
  <2>2. /\ cap(collide[s[c]]) \in Nat
        /\ collide[s[c]] \in [0 .. cap(collide[s[c]]) - 1 -> 0 .. MaxBlocks]
    BY <1>1, TableIs
  <2>3. next[c] - 1 \in 0 .. cap(collide[s[c]]) - 1
    BY <1>1, <2>1, <2>2
  <2> QED
    BY <2>2, <2>3
<1>3. TablesOK'
  BY DEF Inv, TablesOK, Follow
<1>4. \A d \in Callers : CallOK(d)'
  BY DEF Inv, CallsOK, CallOK, Follow
<1>5. next[c] \in 0 .. MaxBlocks + 1
  BY <1>1 DEF Inv, CallsOK
<1>6. CallsOK'
  BY <1>2, <1>4, <1>5 DEF Inv, CallsOK, Follow
<1>7. \A d \in Callers : (pc'[d] = "idle") = (pc[d] = "idle")
  BY DEF Follow
<1> QED
  BY <1>3, <1>6, <1>7, WithinKeepsInv DEF Follow

\* What is collected were tables nobody had.
LEMMA CollectedKeepsTables ==
    ASSUME TablesOK, NEW xs, NEW p \in SUBSET Scratches, pool' = p,
           collide' = Collected(collide, xs), landmark' = Collected(landmark, xs)
    PROVE  TablesOK' /\ \A y \in Scratches : y \notin xs => collide'[y] = collide[y]
                                                  /\ landmark'[y] = landmark[y]
<1>1. collide \in [Scratches -> Table] /\ landmark \in [Scratches -> Table]
  BY DEF TablesOK
<1>2. /\ Collected(collide, xs) \in [Scratches -> Table]
      /\ \A x \in Scratches : x \notin xs => Collected(collide, xs)[x] = collide[x]
      /\ \A x \in Scratches : x \in xs => Collected(collide, xs)[x] = fresh(0)
  BY <1>1, CollectedIs
<1>3. /\ Collected(landmark, xs) \in [Scratches -> Table]
      /\ \A x \in Scratches : x \notin xs => Collected(landmark, xs)[x] = landmark[x]
      /\ \A x \in Scratches : x \in xs => Collected(landmark, xs)[x] = fresh(0)
  BY <1>1, CollectedIs
<1>4. \A x \in Scratches : DOMAIN collide'[x] = DOMAIN landmark'[x]
  BY <1>2, <1>3 DEF TablesOK
<1> QED
  BY <1>2, <1>3, <1>4 DEF TablesOK

LEMMA PutKeepsInv ==
    ASSUME Inv, NEW c \in Callers, Put(c)
    PROVE  Inv'
<1> DEFINE lost == IF poolable(s[c]) THEN {} ELSE {s[c]}
<1>1. /\ pool' = pool \cup ({s[c]} \ lost)
      /\ collide' = Collected(collide, lost) /\ landmark' = Collected(landmark, lost)
  BY DEF Put
<1>2. s[c] \in Scratches /\ HasTables(c)
  BY DEF Put, Inv, CallsOK
<1>3. pool \cup ({s[c]} \ lost) \in SUBSET Scratches
  BY <1>2 DEF Inv, TablesOK
<1>4. /\ TablesOK'
      /\ \A y \in Scratches : y \notin lost => collide'[y] = collide[y]
  BY <1>1, <1>3, CollectedKeepsTables DEF Inv
<1>5. anyScratch \in Scratches /\ anySize \in Sizes /\ anySize \in Nat /\ MaxBlocks \in Nat
  BY ScratchPoolAssumption DEF anyScratch, anySize
<1>6. /\ pc'[c] = "idle" /\ filed'[c] = <<>> /\ n'[c] = anySize
      /\ \A d \in Callers \ {c} : /\ pc'[d] = pc[d] /\ s'[d] = s[d] /\ n'[d] = n[d]
                                  /\ filed'[d] = filed[d] /\ bucket'[d] = bucket[d]
  BY DEF Put, Inv, CallsOK
<1>7. ASSUME NEW d \in Callers PROVE CallOK(d)'
  <2>1. CASE d = c
    <3>1. <<>> \in Seq(Nat) /\ Len(<<>>) = 0
      OBVIOUS
    <3>2. \A k \in 1 .. 0 : <<>>[k] < n'[c]
      OBVIOUS
    <3>3. 0 <= anySize /\ 0 <= MaxBlocks
      BY <1>5
    <3> QED
      BY <2>1, <1>6, <3>1, <3>2, <3>3 DEF CallOK
  <2>2. CASE d # c
    BY <2>2, <1>6 DEF Inv, CallsOK, CallOK
  <2> QED
    BY <2>1, <2>2
<1>8. CallsOK'
  <2>1. <<>> \in Seq(Nat)
    OBVIOUS
  <2> QED
    BY <2>1, <1>5, <1>7 DEF Put, Inv, CallsOK
<1>9. ASSUME NEW d \in Callers, pc'[d] # "idle" PROVE HasTables(d)'
  <2>1. d # c /\ pc[d] # "idle"
    BY <1>6, <1>9
  <2>2. HasTables(d) /\ s[d] \in Scratches /\ s[d] # s[c]
    BY <2>1, <1>2 DEF Inv, HasTables, CallsOK
  <2>3. collide'[s[d]] = collide[s[d]]
    BY <2>2, <1>4
  <2>4. s'[d] = s[d] /\ n'[d] = n[d] /\ s[d] \notin pool'
    BY <1>1, <1>6, <2>1, <2>2 DEF HasTables
  <2>5. \A e \in Callers \ {d} : pc'[e] # "idle" => e # c /\ s'[e] = s[e] /\ pc[e] # "idle"
    BY <1>6
  <2> QED
    BY <2>2, <2>3, <2>4, <2>5 DEF HasTables
<1>10. ASSUME NEW y \in pool' PROVE cap(collide'[y]) <= maxPooledHash
  <2>1. CASE y \in pool
    <3>1. y \in Scratches /\ y \notin lost /\ cap(collide[y]) <= maxPooledHash
      BY <2>1, <1>2 DEF Inv, TablesOK, HasTables
    <3> QED
      BY <3>1, <1>4
  <2>2. CASE y \notin pool
    <3>1. y = s[c] /\ y \notin lost /\ poolable(y)
      BY <2>2, <1>1
    <3> QED
      BY <3>1, <1>2, <1>4 DEF poolable
  <2> QED
    BY <2>1, <2>2
<1> QED
  BY <1>4, <1>8, <1>9, <1>10 DEF Inv

LEMMA VanishKeepsInv ==
    ASSUME Inv, NEW x \in Scratches, Vanish(x)
    PROVE  Inv'
<1>1. /\ x \in pool /\ pool' = pool \ {x} /\ UNCHANGED <<pc, s, n, filed, bucket, next, last>>
      /\ collide' = Collected(collide, {x}) /\ landmark' = Collected(landmark, {x})
  BY DEF Vanish, calls
<1>2. pool \ {x} \in SUBSET Scratches
  BY DEF Inv, TablesOK
<1>3. /\ TablesOK'
      /\ \A y \in Scratches : y # x => collide'[y] = collide[y]
  BY <1>1, <1>2, CollectedKeepsTables DEF Inv
<1>4. CallsOK'
  BY <1>1 DEF Inv, CallsOK, CallOK
<1>5. ASSUME NEW d \in Callers, pc'[d] # "idle" PROVE HasTables(d)'
  <2>1. HasTables(d) /\ s[d] \in Scratches /\ s[d] # x
    BY <1>1, <1>5 DEF Inv, HasTables, CallsOK
  <2> QED
    BY <2>1, <1>1, <1>3 DEF HasTables
<1>6. ASSUME NEW y \in pool' PROVE cap(collide'[y]) <= maxPooledHash
  BY <1>1, <1>3, <1>6 DEF Inv, TablesOK
<1> QED
  BY <1>3, <1>4, <1>5, <1>6 DEF Inv

-----------------------------------------------------------------------------
(* What the chains lead to.                                                *)

\* In the tables of the call c, each bucket below its length starts with the newest of
\* the blocks it has filed there, and each of these leads to the one before it.
Filed(c) ==
    /\ \A b \in 0 .. n[c] - 1 :
          newestBefore(landmark[s[c]][b], filed[c], b, Len(filed[c]) + 1)
    /\ \A k \in 1 .. Len(filed[c]) :
          newestBefore(collide[s[c]][k - 1], filed[c], filed[c][k], k)

Walks(c) == pc[c] = "walk" => newestBefore(next[c], filed[c], bucket[c], last[c])

Chains == \A c \in Callers : (pc[c] # "idle" => Filed(c)) /\ Walks(c)

\* A call whose tables and blocks stay as they are, and which is not walking or goes on
\* as it was, keeps its chains.
LEMMA ChainsStay ==
    ASSUME Chains, NEW d \in Callers, pc[d] # "idle",
           s'[d] = s[d], n'[d] = n[d], filed'[d] = filed[d],
           collide'[s[d]] = collide[s[d]], landmark'[s[d]] = landmark[s[d]]
    PROVE  Filed(d)'
BY DEF Chains, Filed

LEMMA BeginKeepsChains ==
    ASSUME Inv, Chains, NEW c \in Callers, NEW k \in Sizes, NEW x \in Scratches,
           Begin(c, k, x),
           \A d \in Callers : pc[d] # "idle" => s[d] # x,
           \A d \in Callers : pc[d] # "idle" => /\ collide'[s[d]] = collide[s[d]]
                                               /\ landmark'[s[d]] = landmark[s[d]],
           \A b \in 0 .. k - 1 : landmark'[x][b] = 0
    PROVE  Chains'
<1>1. /\ pc'[c] = "index" /\ s'[c] = x /\ n'[c] = k /\ pc[c] = "idle"
      /\ filed' = filed /\ bucket' = bucket /\ next' = next /\ last' = last
      /\ \A d \in Callers \ {c} : pc'[d] = pc[d] /\ s'[d] = s[d] /\ n'[d] = n[d]
  BY DEF Begin, Inv, CallsOK
<1>2. filed[c] = <<>>
  BY <1>1 DEF Inv, CallsOK, CallOK
<1>3. Filed(c)'
  <2>1. Len(<<>>) = 0
    OBVIOUS
  <2>2. \A b \in 0 .. k - 1 : newestBefore(0, <<>>, b, 1)
    BY <2>1 DEF newestBefore
  <2>3. \A j \in 1 .. 0 : newestBefore(collide'[x][j - 1], filed'[c], filed'[c][j], j)
    OBVIOUS
  <2> QED
    BY <1>1, <1>2, <2>1, <2>2, <2>3 DEF Filed
<1>4. ASSUME NEW d \in Callers \ {c}, pc'[d] # "idle" PROVE Filed(d)'
  <2>1. pc[d] # "idle"
    BY <1>1, <1>4
  <2> QED
    BY <2>1, <1>1, ChainsStay
<1>5. ASSUME NEW d \in Callers PROVE Walks(d)'
  BY <1>1 DEF Chains, Walks
<1> QED
  BY <1>3, <1>4, <1>5 DEF Chains

LEMMA ReuseKeepsChains ==
    ASSUME Inv, Chains, NEW c \in Callers, NEW k \in Sizes, NEW x \in Scratches,
           Reuse(c, k, x)
    PROVE  Chains'
<1> DEFINE t == clearTo(landmark[x], k)
<1>1. landmark[x] \in Table /\ collide[x] \in Table /\ x \in pool /\ k \in Nat
  BY SizesAreNat DEF Inv, TablesOK, Reuse
<1>2. collide' = collide /\ landmark' = [landmark EXCEPT ![x] = t]
  BY DEF Reuse, clearedLandmark
<1>3. \A d \in Callers : pc[d] # "idle" => s[d] # x
  BY <1>1 DEF Inv, HasTables
<1>4. \A d \in Callers : pc[d] # "idle" => /\ collide'[s[d]] = collide[s[d]]
                                          /\ landmark'[s[d]] = landmark[s[d]]
  BY <1>2, <1>3 DEF Inv, TablesOK, CallsOK
<1>5. ASSUME NEW b \in 0 .. k - 1 PROVE landmark'[x][b] = 0
  <2>1. cap(landmark[x]) >= k
    <3>1. cap(collide[x]) >= k
      BY DEF Reuse, longEnough
    <3> QED
      BY <3>1, SameCap DEF Inv, TablesOK
  <2>2. /\ cap(landmark[x]) \in Nat
        /\ landmark[x] \in [0 .. cap(landmark[x]) - 1 -> 0 .. MaxBlocks]
    BY <1>1, TableIs
  <2>3. b \in DOMAIN landmark[x] /\ b < k
    BY <1>1, <2>1, <2>2
  <2>4. t[b] = 0
    BY <2>3 DEF clearTo
  <2> QED
    BY <1>2, <2>4 DEF Inv, TablesOK
<1> QED
  BY <1>3, <1>4, <1>5, BeginKeepsChains DEF Reuse

LEMMA ReplaceKeepsChains ==
    ASSUME Inv, Chains, NEW c \in Callers, NEW k \in Sizes, NEW x \in Scratches,
           Replace(c, k, x)
    PROVE  Chains'
<1>1. x \in pool
  BY DEF Replace
<1>2. /\ collide' = [collide EXCEPT ![x] = fresh(k)]
      /\ landmark' = [landmark EXCEPT ![x] = fresh(k)]
  BY DEF Replace
<1>3. \A d \in Callers : pc[d] # "idle" => s[d] # x
  BY <1>1 DEF Inv, HasTables
<1>4. \A d \in Callers : pc[d] # "idle" => /\ collide'[s[d]] = collide[s[d]]
                                          /\ landmark'[s[d]] = landmark[s[d]]
  BY <1>2, <1>3 DEF Inv, TablesOK, CallsOK
<1>5. \A b \in 0 .. k - 1 : landmark'[x][b] = 0
  BY <1>2 DEF Inv, TablesOK, fresh
<1> QED
  BY <1>3, <1>4, <1>5, BeginKeepsChains DEF Replace

LEMMA AllocateKeepsChains ==
    ASSUME Inv, Chains, NEW c \in Callers, NEW k \in Sizes, NEW dropped \in SUBSET pool,
           Allocate(c, k, dropped)
    PROVE  Chains'
<1> DEFINE x == CHOOSE y \in free : TRUE
<1>1. x \in Scratches /\ x \notin Held
  BY DEF Allocate, free
<1>2. /\ Begin(c, k, x)
      /\ collide' = [Collected(collide, dropped) EXCEPT ![x] = fresh(k)]
      /\ landmark' = [Collected(landmark, dropped) EXCEPT ![x] = fresh(k)]
  BY DEF Allocate
<1>3. collide \in [Scratches -> Table] /\ landmark \in [Scratches -> Table]
  BY DEF Inv, TablesOK
<1>4. /\ Collected(collide, dropped) \in [Scratches -> Table]
      /\ \A y \in Scratches : y \notin dropped => Collected(collide, dropped)[y] = collide[y]
  BY <1>3, CollectedIs
<1>5. /\ Collected(landmark, dropped) \in [Scratches -> Table]
      /\ \A y \in Scratches : y \notin dropped => Collected(landmark, dropped)[y] = landmark[y]
  BY <1>3, CollectedIs
<1>6. \A d \in Callers : pc[d] # "idle" => s[d] # x /\ s[d] \notin dropped /\ s[d] \in Scratches
  BY <1>1 DEF Inv, HasTables, Held, CallsOK
<1>7. landmark'[x] = fresh(k)
  BY <1>1, <1>2, <1>5
<1>8. \A b \in 0 .. k - 1 : landmark'[x][b] = 0
  BY <1>7 DEF fresh
<1>9. \A y \in Scratches : y # x /\ y \notin dropped => collide'[y] = collide[y]
                                                    /\ landmark'[y] = landmark[y]
  BY <1>1, <1>2, <1>4, <1>5
<1> HIDE DEF x
<1> QED
  BY <1>1, <1>2, <1>6, <1>8, <1>9, BeginKeepsChains

\* One more block filed changes nothing about the ones before it.
LEMMA NewestAppend ==
    ASSUME NEW f \in Seq(Nat), NEW e \in Nat, NEW v \in Nat, NEW b, NEW k \in Nat,
           k <= Len(f) + 1, newestBefore(v, f, b, k)
    PROVE  newestBefore(v, Append(f, e), b, k)
<1>1. /\ Len(f) \in Nat /\ Len(Append(f, e)) = Len(f) + 1
      /\ \A j \in 1 .. Len(f) : Append(f, e)[j] = f[j]
  BY AppendProperties, LenProperties
<1>2. v = 0 \/ (v \in 1 .. Len(Append(f, e)) /\ v < k /\ Append(f, e)[v] = b)
  BY <1>1 DEF newestBefore
<1>3. ASSUME NEW j \in 1 .. Len(Append(f, e)), j < k, Append(f, e)[j] = b PROVE j <= v
  <2>1. j \in 1 .. Len(f) /\ f[j] = b
    BY <1>1, <1>3
  <2> QED
    BY <2>1, <1>3 DEF newestBefore
<1> QED
  BY <1>2, <1>3 DEF newestBefore

LEMMA FileKeepsChains ==
    ASSUME Inv, Chains, NEW c \in Callers, NEW b \in 0 .. n[c] - 1, File(c, b)
    PROVE  Chains'
<1> DEFINE x == s[c]
           f == filed[c]
           blk == Len(f)
           g == Append(f, b)
<1>1. /\ collide[x] \in Table /\ landmark[x] \in Table /\ x \in Scratches
      /\ n[c] \in Nat /\ f \in Seq(Nat) /\ blk \in Nat /\ blk < n[c] /\ b \in Nat
      /\ DOMAIN collide[x] = DOMAIN landmark[x] /\ pc[c] = "index" /\ HasTables(c)
  BY SizesAreNat, LenProperties DEF Inv, TablesOK, CallsOK, File
<1>2. /\ collide' = [collide EXCEPT ![x] = [collide[x] EXCEPT ![blk] = landmark[x][b]]]
      /\ landmark' = [landmark EXCEPT ![x] = [landmark[x] EXCEPT ![b] = blk + 1]]
      /\ pc' = pc /\ s' = s /\ n' = n /\ bucket' = bucket /\ next' = next
      /\ last' = last /\ filed' = [filed EXCEPT ![c] = g]
  BY DEF File
<1>3. /\ cap(collide[x]) \in Nat /\ cap(collide[x]) >= n[c] /\ cap(landmark[x]) = cap(collide[x])
      /\ collide[x] \in [0 .. cap(collide[x]) - 1 -> 0 .. MaxBlocks]
      /\ landmark[x] \in [0 .. cap(collide[x]) - 1 -> 0 .. MaxBlocks]
  <2>1. cap(landmark[x]) = cap(collide[x])
    BY <1>1, SameCap
  <2> QED
    BY <2>1, <1>1, TableIs DEF HasTables
<1>4. /\ filed'[c] = g /\ Len(g) = blk + 1 /\ g[blk + 1] = b
      /\ \A k \in 1 .. blk : g[k] = f[k]
  BY <1>1, <1>2, AppendProperties DEF Inv, CallsOK
<1>5. /\ collide'[x] = [collide[x] EXCEPT ![blk] = landmark[x][b]]
      /\ landmark'[x] = [landmark[x] EXCEPT ![b] = blk + 1]
  BY <1>1, <1>2 DEF Inv, TablesOK
<1>6. Filed(c)
  BY <1>1 DEF Chains
<1>7. MaxBlocks \in Nat
  BY ScratchPoolAssumption
<1>8. ASSUME NEW e \in 0 .. n[c] - 1
      PROVE  newestBefore(landmark'[x][e], g, e, blk + 2)
  <2>1. e \in DOMAIN landmark[x] /\ b \in DOMAIN landmark[x] /\ landmark[x][e] \in Nat
    BY <1>1, <1>3, <1>7
  <2>2. CASE e = b
    <3>1. landmark'[x][e] = blk + 1
      BY <2>1, <2>2, <1>5
    <3> HIDE DEF g, blk
    <3> QED
      BY <3>1, <2>2, <1>1, <1>4 DEF newestBefore
  <2>3. CASE e # b
    <3>1. landmark'[x][e] = landmark[x][e]
      BY <2>1, <2>3, <1>5
    <3>2. newestBefore(landmark[x][e], f, e, blk + 1)
      BY <1>6 DEF Filed
    <3>3. newestBefore(landmark[x][e], g, e, blk + 1)
      BY <3>2, <2>1, <1>1, NewestAppend
    <3> HIDE DEF g, blk
    <3> QED
      BY <3>1, <3>3, <2>1, <2>3, <1>1, <1>4 DEF newestBefore
  <2> QED
    BY <2>2, <2>3
<1>9. ASSUME NEW k \in 1 .. blk + 1
      PROVE  newestBefore(collide'[x][k - 1], g, g[k], k)
  <2>1. CASE k = blk + 1
    <3>1. collide'[x][k - 1] = landmark[x][b] /\ landmark[x][b] \in Nat
      <4>1. k - 1 = blk /\ blk \in DOMAIN collide[x] /\ b \in DOMAIN landmark[x]
        BY <2>1, <1>1, <1>3
      <4>2. landmark[x][b] \in Nat
        BY <4>1, <1>3, <1>7
      <4> HIDE DEF x, blk
      <4> QED
        BY <4>1, <4>2, <1>5
    <3>2. newestBefore(landmark[x][b], f, b, blk + 1)
      BY <1>6 DEF Filed
    <3>3. newestBefore(landmark[x][b], g, b, blk + 1)
      BY <3>1, <3>2, <1>1, NewestAppend
    <3> QED
      BY <2>1, <3>1, <3>3, <1>4
  <2>2. CASE k \in 1 .. blk
    <3>1. k - 1 # blk /\ k - 1 \in DOMAIN collide[x] /\ k \in Nat /\ k <= blk + 1
      BY <2>2, <1>1, <1>3, SMTT(30)
    <3>2. collide'[x][k - 1] = collide[x][k - 1] /\ collide[x][k - 1] \in Nat
      BY <3>1, <1>3, <1>5, <1>7, SMTT(30)
    <3>3. newestBefore(collide[x][k - 1], f, f[k], k)
      BY <2>2, <1>6 DEF Filed
    <3>4. newestBefore(collide[x][k - 1], g, f[k], k)
      BY <3>1, <3>2, <3>3, <1>1, NewestAppend
    <3> QED
      BY <2>2, <3>2, <3>4, <1>4
  <2> QED
    BY <2>1, <2>2, <1>1
<1>10. Filed(c)'
  <2>1. s'[c] = x /\ n'[c] = n[c] /\ Len(filed'[c]) = blk + 1 /\ Len(filed'[c]) + 1 = blk + 2
    BY <1>1, <1>2, <1>4
  <2> HIDE DEF g, blk, x
  <2> QED
    BY <2>1, <1>4, <1>8, <1>9 DEF Filed
<1>11. ASSUME NEW d \in Callers \ {c}, pc'[d] # "idle" PROVE Filed(d)'
  <2>1. s[d] # x /\ s[d] \in Scratches
    BY <1>1, <1>2, <1>11 DEF Inv, CallsOK, HasTables
  <2>2. collide'[s[d]] = collide[s[d]] /\ landmark'[s[d]] = landmark[s[d]]
    BY <2>1, <1>2
  <2>3. filed'[d] = filed[d]
    BY <1>2 DEF Inv, CallsOK
  <2> QED
    BY <2>2, <2>3, <1>2, <1>11, ChainsStay
<1>12. ASSUME NEW d \in Callers PROVE Walks(d)'
  <2>1. CASE d = c
    BY <2>1, <1>1, <1>2 DEF Walks
  <2>2. CASE d # c
    <3>1. filed'[d] = filed[d]
      BY <2>2, <1>2 DEF Inv, CallsOK
    <3> QED
      BY <3>1, <1>2 DEF Chains, Walks
  <2> QED
    BY <2>1, <2>2
<1> QED
  BY <1>10, <1>11, <1>12 DEF Chains

\* A step of c that leaves its tables and blocks as they are keeps every chain.
LEMMA WithinKeepsChains ==
    ASSUME Inv, Chains, NEW c \in Callers,
           UNCHANGED <<collide, landmark, s, n, filed>>,
           \A d \in Callers : pc'[d] # "idle" => pc[d] # "idle",
           Walks(c)',
           \A d \in Callers \ {c} : pc'[d] = pc[d] /\ bucket'[d] = bucket[d]
                                        /\ next'[d] = next[d] /\ last'[d] = last[d]
    PROVE  Chains'
<1>1. ASSUME NEW d \in Callers, pc'[d] # "idle" PROVE Filed(d)'
  BY <1>1, ChainsStay
<1>2. ASSUME NEW d \in Callers \ {c} PROVE Walks(d)'
  BY DEF Chains, Walks
<1> QED
  BY <1>1, <1>2 DEF Chains

LEMMA LookKeepsChains ==
    ASSUME Inv, Chains, NEW c \in Callers, NEW b \in 0 .. n[c] - 1, Look(c, b)
    PROVE  Chains'
<1>1. /\ bucket'[c] = b /\ next'[c] = landmark[s[c]][b] /\ last'[c] = Len(filed[c]) + 1
      /\ pc'[c] = "walk" /\ pc[c] = "search"
      /\ UNCHANGED <<collide, landmark, s, n, filed>>
  BY DEF Look, Inv, CallsOK
<1>2. newestBefore(landmark[s[c]][b], filed[c], b, Len(filed[c]) + 1)
  BY <1>1 DEF Chains, Filed
<1>3. Walks(c)'
  BY <1>1, <1>2 DEF Walks
<1>4. \A d \in Callers \ {c} : pc'[d] = pc[d] /\ bucket'[d] = bucket[d]
                                   /\ next'[d] = next[d] /\ last'[d] = last[d]
  BY DEF Look, Inv, CallsOK
<1>5. \A d \in Callers : pc'[d] # "idle" => pc[d] # "idle"
  BY <1>1, <1>4
<1> QED
  BY <1>1, <1>3, <1>4, <1>5, WithinKeepsChains

\* The candidate a walk has reached is a block the call has filed in the bucket.
LEMMA NextIsFiled ==
    ASSUME Inv, Chains, NEW c \in Callers, Follow(c)
    PROVE  next[c] \in 1 .. Len(filed[c]) /\ filed[c][next[c]] = bucket[c]
BY DEF Chains, Walks, newestBefore, Follow

LEMMA FollowKeepsChains ==
    ASSUME Inv, Chains, NEW c \in Callers, Follow(c)
    PROVE  Chains'
<1>1. /\ next'[c] = collide[s[c]][next[c] - 1] /\ last'[c] = next[c]
      /\ pc' = pc /\ bucket' = bucket /\ pc[c] = "walk"
      /\ UNCHANGED <<collide, landmark, s, n, filed>>
  BY DEF Follow, Inv, CallsOK
<1>2. newestBefore(collide[s[c]][next[c] - 1], filed[c], filed[c][next[c]], next[c])
  BY <1>1, NextIsFiled DEF Chains, Filed
<1>3. Walks(c)'
  BY <1>1, <1>2, NextIsFiled DEF Walks
<1>4. \A d \in Callers \ {c} : next'[d] = next[d] /\ last'[d] = last[d]
  BY DEF Follow, Inv, CallsOK
<1> QED
  BY <1>1, <1>3, <1>4, WithinKeepsChains

LEMMA StopWalkKeepsChains ==
    ASSUME Inv, Chains, NEW c \in Callers, StopWalk(c)
    PROVE  Chains'
<1>1. pc'[c] = "search" /\ pc[c] = "walk" /\ UNCHANGED <<collide, landmark, s, n, filed>>
  BY DEF StopWalk, Inv, CallsOK
<1>2. Walks(c)'
  BY <1>1 DEF Walks
<1>3. \A d \in Callers \ {c} : pc'[d] = pc[d] /\ bucket'[d] = bucket[d]
                                   /\ next'[d] = next[d] /\ last'[d] = last[d]
  BY DEF StopWalk, Inv, CallsOK
<1>4. \A d \in Callers : pc'[d] # "idle" => pc[d] # "idle"
  BY <1>1, <1>3
<1> QED
  BY <1>1, <1>2, <1>3, <1>4, WithinKeepsChains

LEMMA IndexedKeepsChains ==
    ASSUME Inv, Chains, NEW c \in Callers, Indexed(c)
    PROVE  Chains'
<1>1. /\ pc'[c] = "search" /\ pc[c] = "index"
      /\ UNCHANGED <<collide, landmark, s, n, filed, bucket, next, last>>
      /\ \A d \in Callers \ {c} : pc'[d] = pc[d]
  BY DEF Indexed, calls, Inv, CallsOK
<1>2. Walks(c)'
  BY <1>1 DEF Walks
<1>3. \A d \in Callers : pc'[d] # "idle" => pc[d] # "idle"
  BY <1>1
<1> QED
  BY <1>1, <1>2, <1>3, WithinKeepsChains

LEMMA PutKeepsChains ==
    ASSUME Inv, Chains, NEW c \in Callers, Put(c)
    PROVE  Chains'
<1> DEFINE lost == IF poolable(s[c]) THEN {} ELSE {s[c]}
<1>1. /\ pool' = pool \cup ({s[c]} \ lost)
      /\ collide' = Collected(collide, lost) /\ landmark' = Collected(landmark, lost)
      /\ bucket' = bucket /\ next' = next /\ last' = last
  BY DEF Put
<1>2. s[c] \in Scratches /\ HasTables(c)
  BY DEF Put, Inv, CallsOK
<1>3. pool \cup ({s[c]} \ lost) \in SUBSET Scratches
  BY <1>2 DEF Inv, TablesOK
<1>4. \A y \in Scratches : y \notin lost => /\ collide'[y] = collide[y]
                                           /\ landmark'[y] = landmark[y]
  BY <1>1, <1>3, CollectedKeepsTables DEF Inv
<1>5. /\ pc'[c] = "idle"
      /\ \A d \in Callers \ {c} : /\ pc'[d] = pc[d] /\ s'[d] = s[d] /\ n'[d] = n[d]
                                  /\ filed'[d] = filed[d]
  BY DEF Put, Inv, CallsOK
<1>6. ASSUME NEW d \in Callers, pc'[d] # "idle" PROVE Filed(d)'
  <2>1. d # c /\ pc[d] # "idle"
    BY <1>5, <1>6
  <2>2. s[d] # s[c] /\ s[d] \in Scratches
    BY <2>1, <1>2 DEF HasTables, Inv, CallsOK
  <2> QED
    BY <2>1, <2>2, <1>4, <1>5, ChainsStay
<1>7. ASSUME NEW d \in Callers PROVE Walks(d)'
  BY <1>1, <1>5 DEF Chains, Walks
<1> QED
  BY <1>6, <1>7 DEF Chains

LEMMA VanishKeepsChains ==
    ASSUME Inv, Chains, NEW x \in Scratches, Vanish(x)
    PROVE  Chains'
<1>1. /\ x \in pool /\ pool' = pool \ {x} /\ UNCHANGED <<pc, s, n, filed, bucket, next, last>>
      /\ collide' = Collected(collide, {x}) /\ landmark' = Collected(landmark, {x})
  BY DEF Vanish, calls
<1>2. pool \ {x} \in SUBSET Scratches
  BY DEF Inv, TablesOK
<1>3. \A y \in Scratches : y # x => collide'[y] = collide[y] /\ landmark'[y] = landmark[y]
  BY <1>1, <1>2, CollectedKeepsTables DEF Inv
<1>4. ASSUME NEW d \in Callers, pc'[d] # "idle" PROVE Filed(d)'
  <2>1. s[d] \in Scratches /\ s[d] # x /\ pc[d] # "idle"
    BY <1>1, <1>4 DEF Inv, HasTables, CallsOK
  <2> QED
    BY <2>1, <1>1, <1>3, ChainsStay
<1>5. ASSUME NEW d \in Callers PROVE Walks(d)'
  BY <1>1 DEF Chains, Walks
<1> QED
  BY <1>4, <1>5 DEF Chains

-----------------------------------------------------------------------------
(* The theorems.                                                           *)

LEMMA InvNext == Inv /\ Chains /\ [Next]_vars => Inv' /\ Chains'
<1> SUFFICES ASSUME Inv, Chains, [Next]_vars PROVE Inv' /\ Chains'
  OBVIOUS
<1>1. ASSUME NEW c \in Callers, NEW k \in Sizes, NEW x \in Scratches, Reuse(c, k, x)
      PROVE  Inv' /\ Chains'
  BY <1>1, ReuseKeepsInv, ReuseKeepsChains
<1>2. ASSUME NEW c \in Callers, NEW k \in Sizes, NEW x \in Scratches, Replace(c, k, x)
      PROVE  Inv' /\ Chains'
  BY <1>2, ReplaceKeepsInv, ReplaceKeepsChains
<1>3. ASSUME NEW c \in Callers, NEW k \in Sizes,
             NEW dropped \in {{}} \cup {{y} : y \in pool}, Allocate(c, k, dropped)
      PROVE  Inv' /\ Chains'
  <2>1. dropped \in SUBSET pool
    OBVIOUS
  <2> QED
    BY <2>1, <1>3, AllocateKeepsInv, AllocateKeepsChains
<1>4. ASSUME NEW c \in Callers, NEW b \in 0 .. n[c] - 1, File(c, b)
      PROVE  Inv' /\ Chains'
  BY <1>4, FileKeepsInv, FileKeepsChains
<1>5. ASSUME NEW c \in Callers, NEW b \in 0 .. n[c] - 1, Look(c, b)
      PROVE  Inv' /\ Chains'
  BY <1>5, LookKeepsInv, LookKeepsChains
<1>6. ASSUME NEW c \in Callers, Indexed(c) PROVE Inv' /\ Chains'
  BY <1>6, IndexedKeepsInv, IndexedKeepsChains
<1>7. ASSUME NEW c \in Callers, Follow(c) PROVE Inv' /\ Chains'
  BY <1>7, NextIsFiled, FollowKeepsInv, FollowKeepsChains
<1>8. ASSUME NEW c \in Callers, StopWalk(c) PROVE Inv' /\ Chains'
  BY <1>8, StopWalkKeepsInv, StopWalkKeepsChains
<1>9. ASSUME NEW c \in Callers, Put(c) PROVE Inv' /\ Chains'
  BY <1>9, PutKeepsInv, PutKeepsChains
<1>10. ASSUME NEW x \in Scratches, Vanish(x) PROVE Inv' /\ Chains'
  BY <1>10, VanishKeepsInv, VanishKeepsChains
<1>11. CASE UNCHANGED vars
  <2>1. Inv'
    BY <1>11 DEF vars, calls, Inv, TablesOK, CallsOK, CallOK, HasTables
  <2>2. Chains'
    BY <1>11 DEF vars, calls, Chains, Filed, Walks
  <2> QED
    BY <2>1, <2>2
<1> QED
  BY <1>1, <1>2, <1>3, <1>4, <1>5, <1>6, <1>7, <1>8, <1>9, <1>10, <1>11 DEF Next

LEMMA ChainsInit == Init => Chains
BY DEF Init, Chains, Walks

LEMMA InvAlways == Spec => [](Inv /\ Chains)
<1>1. Init => Inv /\ Chains
  BY InvInit, ChainsInit
<1> QED
  BY <1>1, InvNext, PTL DEF Spec

\* The pool, the tables and the calls keep their types.
THEOREM PoolTypes == Spec => []TypeOK
<1>1. Inv => TypeOK
  BY DEF Inv, TablesOK, CallsOK, CallOK, TypeOK
<1> QED
  BY <1>1, InvAlways, PTL

\* No two goroutines ever have the same tables, and none has tables the pool could hand
\* to another (getScratch, putScratch).
THEOREM ExclusiveUse == Spec => []TablesAreExclusive
<1>1. Inv => TablesAreExclusive
  BY DEF Inv, HasTables, TablesAreExclusive
<1> QED
  BY <1>1, InvAlways, PTL

\* Whatever was pooled for whom, both tables are as long as the call asked for
\* (getScratch).
THEOREM LongEnough == Spec => []TablesLongEnough
<1>1. ASSUME Inv PROVE TablesLongEnough
  BY <1>1, SameCap DEF Inv, HasTables, TablesOK, CallsOK, TablesLongEnough
<1> QED
  BY <1>1, InvAlways, PTL

\* The pool never holds tables longer than maxPooledHash (putScratch).
THEOREM SmallPool == Spec => []PoolStaysSmall
<1>1. Inv => PoolStaysSmall
  BY DEF Inv, PoolStaysSmall
<1> QED
  BY <1>1, InvAlways, PTL

\* A walk along a chain finds this call's own blocks of the bucket, the newest first and
\* all of them, although collide is never cleared and the tables go from call to call
\* (AppendCreate, getScratch).
THEOREM WalksFindOwnBlocks == Spec => []WalkFindsOwnBlocks
<1>1. Chains => WalkFindsOwnBlocks
  BY DEF Chains, Walks, WalkFindsOwnBlocks
<1> QED
  BY <1>1, InvAlways, PTL
=============================================================================
