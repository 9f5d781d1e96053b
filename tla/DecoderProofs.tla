--------------------------- MODULE DecoderProofs ----------------------------
(***************************************************************************)
(* What holds of every call of Apply and AppendApply, whatever the delta,  *)
(* the source, dst, the format's sizes and the width of an int.            *)
(***************************************************************************)
EXTENDS DecoderAgainstC, DecoderAgainstJS, ReaderProofs

Places == {"caller", "fresh"}

\* The bytes a call starts out with: dst's array, and no array of its own yet.
UntouchedMem == [a \in Places |-> IF a = "caller" THEN dst.arr ELSE <<>>]

(***************************************************************************)
(* Types.                                                                  *)
(***************************************************************************)

LEMMA WordsNat == Words \subseteq Nat
  BY CodecAssumption DEF Words

LEMMA ByteFacts == 0 \in Byte /\ Byte \subseteq Nat
<1>1. NewLine \in Byte
  BY CodecAssumption DEF CommandBytes
<1> QED BY <1>1, CodecAssumption DEF Byte

\* What the decoder reads at its index are numbers, each further on.
LEMMA CommandType ==
    ASSUME TypeOK
    PROVE  /\ cmd.val \in Nat /\ cmd.val \in Words
           /\ cmd.next \in Nat /\ cmd.next >= i
           /\ ofst.val \in Nat
           /\ ofst.next \in Nat /\ ofst.next > cmd.next
<1>1. cmd.val \in Words /\ cmd.next \in Nat /\ cmd.next >= i
  BY decodeIntType DEF TypeOK, cmd
<1>2. ofst.val \in Words /\ ofst.next \in Nat /\ ofst.next >= cmd.next + 1
  BY <1>1, decodeIntType DEF TypeOK, ofst
<1>3. cmd.val \in Nat /\ ofst.val \in Nat
  BY <1>1, <1>2, WordsNat
<1>4. ofst.next > cmd.next
  BY <1>1, <1>2
<1> QED BY <1>1, <1>2, <1>3, <1>4

LEMMA HeaderType ==
    ASSUME TypeOK
    PROVE  Header.val \in Words /\ Header.next \in Nat
  BY decodeIntType DEF TypeOK, Header

LEMMA zerosType == ASSUME NEW k \in Nat PROVE zeros(k) \in Seq(Byte) /\ Len(zeros(k)) = k
<1>1. zeros(k) \in [1 .. k -> Byte]
  BY ByteFacts DEF zeros
<1>2. zeros(k) \in Seq(Byte)
  BY <1>1, SeqDef
<1> QED BY <1>1, <1>2, LenProperties

\* A copy leaves the arrays their lengths and writes only bytes of its source.
LEMMA CopyToOutType ==
    ASSUME TypeOK, NEW src \in Seq(Byte), NEW at \in Nat,
           at + cmd.val <= Len(src), CopyToOut(src, at)
    PROVE  /\ mem' \in [Places -> Seq(Byte)]
           /\ \A a \in Places : Len(mem'[a]) = Len(mem[a])
           /\ n' \in Nat
<1> DEFINE row == [k \in 1 .. Len(mem[home]) |->
                     IF outAt(n) < k /\ k <= outAt(n) + copied
                     THEN src[at + k - outAt(n)] ELSE mem[home][k]]
<1>1. /\ mem \in [Places -> Seq(Byte)] /\ home \in Places
      /\ n \in Nat /\ limit \in Nat /\ start \in Nat
  BY WordsNat DEF TypeOK, Places, start, Dst
<1>2. mem[home] \in Seq(Byte) /\ Len(mem[home]) \in Nat
  BY <1>1
<1>3. cmd.val \in Nat /\ copied \in Int /\ copied <= cmd.val /\ n + copied \in Nat
  BY <1>1, CommandType DEF copied
<1>4. \A k \in 1 .. Len(mem[home]) : row[k] \in Byte
  <2> TAKE k \in 1 .. Len(mem[home])
  <2>1. CASE outAt(n) < k /\ k <= outAt(n) + copied
    <3>1. at + k - outAt(n) \in 1 .. Len(src)
      BY <1>1, <1>3, <2>1, LenProperties DEF outAt
    <3> QED BY <2>1, <3>1
  <2>2. CASE ~ (outAt(n) < k /\ k <= outAt(n) + copied)
    BY <1>2, <2>2
  <2> QED BY <2>1, <2>2
<1>5. row \in Seq(Byte) /\ Len(row) = Len(mem[home])
  <2>1. row \in [1 .. Len(mem[home]) -> Byte]
    BY <1>4
  <2>2. row \in Seq(Byte)
    BY <1>2, <2>1, SeqDef
  <2> QED BY <1>2, <2>1, <2>2, LenProperties
<1> HIDE DEF row
<1>6. mem' = [mem EXCEPT ![home] = row] /\ n' = n + copied
  BY DEF CopyToOut, row
<1> QED BY <1>1, <1>3, <1>5, <1>6

LEMMA InitTypeOK == Init => TypeOK
<1> SUFFICES ASSUME Init PROVE TypeOK
  OBVIOUS
<1>1. dst \in Dst /\ start <= Len(dst.arr)
  <2>1. CASE dst = [arr |-> <<>>, len |-> 0]
    <3>1. <<>> \in Seq(Byte) /\ Len(<<>>) = 0
      OBVIOUS
    <3> QED BY <2>1, <3>1 DEF Dst, start
  <2>2. CASE dst \in Dsts
    BY <2>2, DecoderAssumption DEF start
  <2> QED BY <2>1, <2>2 DEF Init, Fresh
<1>2. 0 \in Words
  BY CodecAssumption DEF Words, Radix
<1>3. origin \in Seq(Byte) /\ delta \in Seq(Byte)
  BY DecoderAssumption DEF Init, Fresh
<1>4. mem \in [{"caller", "fresh"} -> Seq(Byte)]
  BY <1>1 DEF Init, Fresh, Dst
<1> QED BY <1>1, <1>2, <1>3, <1>4 DEF Init, Fresh, TypeOK, Errs

LEMMA NextTypeOK == TypeOK /\ [Next]_vars => TypeOK'
<1> SUFFICES ASSUME TypeOK, [Next]_vars PROVE TypeOK'
  OBVIOUS
<1> USE DEF Errs, InvalidErrs
<1>1. ASSUME NEW e \in Errs, Return(e) PROVE TypeOK'
  BY <1>1 DEF Return, TypeOK, args, start
<1>2. CASE PlanHeader
  <2>1. CASE \E e \in Errs : Return(e)
    BY <1>1, <2>1
  <2>2. CASE ~ \E e \in Errs : Return(e)
    BY <1>2, <2>2, HeaderType, SMTT(30) DEF PlanHeader, TypeOK, args, start
  <2> QED BY <2>1, <2>2
<1>3. ASSUME NEW k \in Nat, Advance(k) PROVE TypeOK'
  <2>1. totalAfter \in Nat
    BY CommandType DEF totalAfter, TypeOK
  <2>2. <<i, total>> \in Nat \X Nat
    BY DEF TypeOK
  <2> QED BY <1>3, <2>1, <2>2 DEF Advance, TypeOK, args, start
<1>4. CASE PlanCopy
  <2>1. PastCopy \in Nat
    BY CommandType DEF PastCopy
  <2> QED BY <1>1, <1>3, <1>4, <2>1 DEF PlanCopy
<1>5. CASE PlanInsert
  <2>1. PastInsert \in Nat
    BY CommandType DEF PastInsert
  <2> QED BY <1>1, <1>3, <1>5, <2>1 DEF PlanInsert
<1>6. CASE PlanEnd
  <2>1. CASE Return("errSizeMismatch")
    BY <1>1, <2>1
  <2>2. CASE ~ Return("errSizeMismatch")
    BY <1>6, <2>2, CommandType, SMTT(30) DEF PlanEnd, TypeOK, args, start
  <2> QED BY <2>1, <2>2
<1>7. CASE PlanUnknown
  BY <1>1, <1>7 DEF PlanUnknown
<1>8. CASE PlanUnterminated
  BY <1>1, <1>8 DEF PlanUnterminated
<1>9. ASSUME BeginExec, home' \in Places, mem' \in [Places -> Seq(Byte)] PROVE TypeOK'
  BY <1>9 DEF BeginExec, TypeOK, args, start, Places
<1>10. CASE AllocApply
  <2>1. zeros(limit) \in Seq(Byte)
    BY zerosType, WordsNat DEF TypeOK
  <2> QED BY <1>9, <1>10, <2>1 DEF AllocApply, TypeOK, Places
<1>11. CASE AllocAppendApply
  <2>1. CASE tooLong /\ Return("errOutputTooLarge")
    BY <1>1, <2>1
  <2>2. CASE home' = "caller" /\ mem' = mem /\ BeginExec
    BY <1>9, <2>2 DEF TypeOK, Places
  <2>3. CASE /\ start + limit > Len(dst.arr)
             /\ home' = "fresh"
             /\ mem' = [mem EXCEPT !["fresh"] = dst.arr \o zeros(start + limit - Len(dst.arr))]
             /\ BeginExec
    <3>1. start + limit - Len(dst.arr) \in Nat
      BY <2>3, WordsNat, LenProperties DEF TypeOK, start, Dst
    <3>2. dst.arr \o zeros(start + limit - Len(dst.arr)) \in Seq(Byte)
      BY <3>1, zerosType, ConcatProperties DEF TypeOK, Dst
    <3> QED BY <1>9, <2>3, <3>2 DEF TypeOK, Places
  <2> QED BY <1>11, <2>1, <2>2, <2>3 DEF AllocAppendApply
<1>12. ASSUME mem' \in [Places -> Seq(Byte)], n' \in Nat, i' \in Nat,
              pc' = pc, UNCHANGED <<args, pc, limit, sum, body, total, home, err, planned>>
       PROVE  TypeOK'
  BY <1>12 DEF TypeOK, args, start, Places
<1>13. CASE ExecCopy
  <2>1. PastCopy \in Nat /\ ofst.val \in Nat
    BY CommandType DEF PastCopy
  <2>2. mem' \in [Places -> Seq(Byte)] /\ n' \in Nat
    BY <1>13, <2>1, CopyToOutType DEF ExecCopy, TypeOK
  <2> QED BY <1>12, <1>13, <2>1, <2>2 DEF ExecCopy
<1>14. CASE ExecInsert
  <2>1. PastInsert \in Nat /\ cmd.next + 1 \in Nat
    BY CommandType DEF PastInsert
  <2>2. mem' \in [Places -> Seq(Byte)] /\ n' \in Nat
    BY <1>14, <2>1, CopyToOutType DEF ExecInsert, TypeOK
  <2> QED BY <1>12, <1>14, <2>1, <2>2 DEF ExecInsert
<1>15. CASE ExecEnd
  BY <1>15 DEF ExecEnd, TypeOK, args, start
<1>16. CASE Verify
  BY <1>1, <1>16 DEF Verify
<1>17. CASE UNCHANGED vars
  BY <1>17 DEF vars, TypeOK, args, start
<1> QED BY <1>2, <1>4, <1>5, <1>6, <1>7, <1>8, <1>10, <1>11, <1>13, <1>14, <1>15,
           <1>16, <1>17 DEF Next

\* Every variable keeps its type, in every call.
THEOREM TypeInvariant == Spec => []TypeOK
<1>1. Init => TypeOK
  BY InitTypeOK
<1>2. TypeOK /\ [Next]_vars => TypeOK'
  BY NextTypeOK
<1> QED BY <1>1, <1>2, PTL DEF Spec

(***************************************************************************)
(* The second pass runs the commands the first one checked.                *)
(*                                                                         *)
(* ExecFollowsPlan is all but inductive: it lacks that planApply starts    *)
(* with nothing walked over and a total of zero, and that a replay that    *)
(* has ended has filled the output.                                        *)
(***************************************************************************)

PlanBeginsAtZero == pc = "header" => planned = {} /\ total = 0
FilledAtEnd == pc = "verify" => n = limit
PlanInv == TypeOK /\ PlanBeginsAtZero /\ ExecFollowsPlan /\ FilledAtEnd

\* A command that is in order stays so when more positions are reached.
LEMMA CommandOKMonotone ==
    ASSUME NEW p, NEW t, NEW S, NEW T, S \subseteq T, CommandOK(p, t, S)
    PROVE  CommandOK(p, t, T)
  BY DEF CommandOK

\* The command under execApply's index is one planApply walked over: it is within
\* its bounds, it is copied whole, and what follows it was walked over too.
LEMMA ReplayedCommand ==
    ASSUME PlanInv, pc = "exec"
    PROVE  /\ i < Len(delta) /\ cmd.next < Len(delta) /\ n <= limit
           /\ AtOp(At) => /\ ofst.val + cmd.val <= Len(origin) /\ copied = cmd.val
                          /\ <<PastCopy, n + cmd.val>> \in planned
           /\ AtOp(Colon) => /\ cmd.next + 1 + cmd.val <= Len(delta) /\ copied = cmd.val
                             /\ <<PastInsert, n + cmd.val>> \in planned
           /\ delta[cmd.next + 1] \notin {At, Colon} => n = limit
<1>1. CommandOK(i, n, planned)
  BY DEF PlanInv, ExecFollowsPlan
<1>2. cmd.val \in Nat /\ limit \in Nat /\ n \in Nat
  BY CommandType, WordsNat DEF PlanInv, TypeOK
<1>3. At # Colon /\ At # Semi /\ Colon # Semi
  BY CodecAssumption
<1>4. AtOp(At) => delta[cmd.next + 1] = At
  BY DEF AtOp, HasByte
<1>5. AtOp(Colon) => delta[cmd.next + 1] = Colon
  BY DEF AtOp, HasByte
<1>6. n + cmd.val <= limit => copied = cmd.val
  BY <1>2 DEF copied
<1> QED BY <1>1, <1>2, <1>3, <1>4, <1>5, <1>6
        DEF CommandOK, cmd, ofst, PastCopy, PastInsert

LEMMA InitPlanInv == Init => PlanInv
  BY InitTypeOK DEF Init, Fresh, PlanInv, PlanBeginsAtZero, ExecFollowsPlan, FilledAtEnd

LEMMA NextPlanInv == PlanInv /\ [Next]_vars => PlanInv'
<1> SUFFICES ASSUME PlanInv, [Next]_vars
             PROVE  (PlanBeginsAtZero /\ ExecFollowsPlan /\ FilledAtEnd)'
  BY NextTypeOK DEF PlanInv
<1> USE DEF PlanBeginsAtZero, FilledAtEnd
<1>0. TypeOK
  BY DEF PlanInv
<1>1. ASSUME NEW e, Return(e) PROVE (PlanBeginsAtZero /\ ExecFollowsPlan /\ FilledAtEnd)'
  BY <1>1 DEF Return, ExecFollowsPlan
<1>2. CASE PlanHeader
  <2>1. CASE \E e : Return(e)
    BY <1>1, <2>1
  <2>2. CASE ~ \E e : Return(e)
    <3>1. /\ pc' = "plan" /\ planned' = {} /\ i' = body' /\ total' = 0
      BY <1>2, <2>2 DEF PlanHeader, PlanInv
    <3> QED BY <3>1 DEF ExecFollowsPlan
  <2> QED BY <2>1, <2>2
\* A command planApply passes is in order, with its successor as the front.
<1>3. ASSUME NEW k, pc = "plan", Advance(k),
             CommandOK(i, total, {<<k, totalAfter>>})
      PROVE  (PlanBeginsAtZero /\ ExecFollowsPlan /\ FilledAtEnd)'
  <2> DEFINE F == planned' \cup {<<i', total'>>}
  <2>1. /\ i' = k /\ total' = totalAfter /\ pc' = "plan"
        /\ planned' = planned \cup {<<i, total>>}
        /\ UNCHANGED <<origin, delta, limit, body>>
    BY <1>3 DEF Advance, args
  <2>2. <<body, 0>> \in F
    BY <1>3, <2>1 DEF PlanInv, ExecFollowsPlan
  <2>3. ASSUME NEW s \in planned' PROVE CommandOK(s[1], s[2], F)
    <3>1. CASE s \in planned
      <4>1. CommandOK(s[1], s[2], planned \cup {<<i, total>>})
        BY <1>3, <3>1 DEF PlanInv, ExecFollowsPlan
      <4>2. planned \cup {<<i, total>>} \subseteq F
        BY <2>1
      <4> HIDE DEF F
      <4> QED BY <4>1, <4>2, CommandOKMonotone
    <3>2. CASE s = <<i, total>>
      <4>1. {<<k, totalAfter>>} \subseteq F
        BY <2>1
      <4> HIDE DEF F
      <4> QED BY <1>3, <3>2, <4>1, CommandOKMonotone
    <3> QED BY <2>1, <3>1, <3>2
  <2>4. \A s \in planned' : CommandOK(s[1], s[2], planned \cup {<<i, total>>})'
    BY <2>1, <2>3 DEF CommandOK
  <2> QED BY <2>1, <2>2, <2>4 DEF ExecFollowsPlan
<1>4. CASE PlanCopy
  <2>1. CASE \E e : Return(e)
    BY <1>1, <2>1
  <2>2. CASE ~ \E e : Return(e)
    <3>1. /\ pc = "plan" /\ AtOp(At) /\ Advance(PastCopy)
          /\ totalAfter <= limit /\ ~ copyPastSource
      BY <1>4, <2>2 DEF PlanCopy
    <3>2. ofst.val + cmd.val <= Len(origin)
      BY <1>0, <3>1, CommandType, LenProperties DEF copyPastSource, TypeOK
    <3>3. CommandOK(i, total, {<<PastCopy, totalAfter>>})
      BY <3>1, <3>2 DEF CommandOK, AtOp, HasByte, cmd, ofst, PastCopy, totalAfter
    <3> QED BY <1>3, <3>1, <3>3
  <2> QED BY <2>1, <2>2
<1>5. CASE PlanInsert
  <2>1. CASE \E e : Return(e)
    BY <1>1, <2>1
  <2>2. CASE ~ \E e : Return(e)
    <3>1. /\ pc = "plan" /\ AtOp(Colon) /\ Advance(PastInsert)
          /\ totalAfter <= limit /\ ~ insertPastDelta
      BY <1>5, <2>2 DEF PlanInsert
    <3>2. cmd.next + 1 + cmd.val <= Len(delta)
      BY <1>0, <3>1, CommandType, LenProperties DEF insertPastDelta, TypeOK
    <3>3. CommandOK(i, total, {<<PastInsert, totalAfter>>})
      BY <3>1, <3>2 DEF CommandOK, AtOp, HasByte, cmd, PastInsert, totalAfter
    <3> QED BY <1>3, <3>1, <3>3
  <2> QED BY <2>1, <2>2
<1>6. CASE PlanEnd
  <2>1. CASE \E e : Return(e)
    BY <1>1, <2>1
  <2>2. CASE ~ \E e : Return(e)
    <3>1. /\ pc = "plan" /\ AtOp(Semi) /\ total = limit /\ pc' = "alloc"
          /\ planned' = planned \cup {<<i, total>>}
          /\ UNCHANGED <<origin, delta, limit, body>>
      BY <1>6, <2>2 DEF PlanEnd, args
    <3>2. CommandOK(i, total, planned')
      BY <3>1 DEF CommandOK, AtOp, HasByte, cmd
    <3>3. \A s \in planned' : CommandOK(s[1], s[2], planned')
      BY <3>1, <3>2 DEF PlanInv, ExecFollowsPlan
    <3>4. \A s \in planned' : CommandOK(s[1], s[2], planned)'
      BY <3>1, <3>3 DEF CommandOK
    <3> QED BY <3>1, <3>4 DEF PlanInv, ExecFollowsPlan
  <2> QED BY <2>1, <2>2
<1>7. CASE PlanUnknown
  BY <1>1, <1>7 DEF PlanUnknown
<1>8. CASE PlanUnterminated
  BY <1>1, <1>8 DEF PlanUnterminated
<1>9. ASSUME pc = "alloc", BeginExec
      PROVE  (PlanBeginsAtZero /\ ExecFollowsPlan /\ FilledAtEnd)'
  <2>1. /\ pc' = "exec" /\ i' = body /\ n' = 0 /\ planned' = planned
        /\ UNCHANGED <<origin, delta, limit, body>>
    BY <1>9 DEF BeginExec, args
  <2>2. \A s \in planned' : CommandOK(s[1], s[2], planned)'
    BY <1>9, <2>1 DEF PlanInv, ExecFollowsPlan, CommandOK
  <2> QED BY <1>9, <2>1, <2>2 DEF PlanInv, ExecFollowsPlan
<1>10. CASE AllocApply
  BY <1>9, <1>10 DEF AllocApply
<1>11. CASE AllocAppendApply
  BY <1>1, <1>9, <1>11 DEF AllocAppendApply
<1>12. ASSUME pc = "exec", pc' = "exec", <<i', n'>> \in planned,
              UNCHANGED <<origin, delta, limit, body, planned>>
       PROVE  (PlanBeginsAtZero /\ ExecFollowsPlan /\ FilledAtEnd)'
  <2>1. \A s \in planned' : CommandOK(s[1], s[2], planned)'
    BY <1>12 DEF PlanInv, ExecFollowsPlan, CommandOK
  <2> QED BY <1>12, <2>1 DEF PlanInv, ExecFollowsPlan
<1>13. CASE ExecCopy
  <2>1. pc = "exec" /\ AtOp(At) /\ i' = PastCopy /\ n' = n + copied
    BY <1>13 DEF ExecCopy, CopyToOut
  <2>2. <<i', n'>> \in planned
    BY <2>1, ReplayedCommand
  <2> QED BY <1>12, <1>13, <2>2 DEF ExecCopy, args
<1>14. CASE ExecInsert
  <2>1. pc = "exec" /\ AtOp(Colon) /\ i' = PastInsert /\ n' = n + copied
    BY <1>14 DEF ExecInsert, CopyToOut
  <2>2. <<i', n'>> \in planned
    BY <2>1, ReplayedCommand
  <2> QED BY <1>12, <1>14, <2>2 DEF ExecInsert, args
<1>15. CASE ExecEnd
  <2>1. n = limit
    BY <1>15, ReplayedCommand DEF ExecEnd
  <2> QED BY <1>15, <2>1 DEF ExecEnd, ExecFollowsPlan
<1>16. CASE Verify
  BY <1>1, <1>16 DEF Verify
<1>17. CASE UNCHANGED vars
  BY <1>17 DEF vars, PlanInv, ExecFollowsPlan, CommandOK
<1> QED BY <1>2, <1>4, <1>5, <1>6, <1>7, <1>8, <1>10, <1>11, <1>13, <1>14, <1>15,
           <1>16, <1>17 DEF Next

LEMMA PlanInvariant == Spec => []PlanInv
<1>1. Init => PlanInv
  BY InitPlanInv
<1>2. PlanInv /\ [Next]_vars => PlanInv'
  BY NextPlanInv
<1> QED BY <1>1, <1>2, PTL DEF Spec

\* execApply replays nothing but commands that planApply walked over and found in
\* order, each after as much output as planApply counted.
THEOREM ReplayFollowsPlan == Spec => []ExecFollowsPlan
<1>1. PlanInv => ExecFollowsPlan
  BY DEF PlanInv
<1> QED BY <1>1, PlanInvariant, PTL

\* execApply, which checks nothing, never indexes or slices out of range: no call
\* panics, whatever the delta.
THEOREM NoPanic == Spec => []NeverPanics
<1>1. PlanInv => NeverPanics
  <2> SUFFICES ASSUME PlanInv, pc = "exec" PROVE ~ ExecFaults
    BY DEF NeverPanics
  <2>1. i < Len(delta) /\ cmd.next < Len(delta)
    BY ReplayedCommand
  <2>2. AtOp(At) => ofst.val + cmd.val <= Len(origin)
    BY ReplayedCommand
  <2>3. AtOp(Colon) => cmd.next + 1 + cmd.val <= Len(delta)
    BY ReplayedCommand
  <2>4. /\ i \in Nat /\ cmd.val \in Nat /\ cmd.next \in Nat /\ ofst.val \in Nat
        /\ Len(delta) \in Nat /\ Len(origin) \in Nat
    BY CommandType, LenProperties DEF PlanInv, TypeOK
  <2> QED BY <2>1, <2>2, <2>3, <2>4 DEF ExecFaults
<1> QED BY <1>1, PlanInvariant, PTL

\* No copy is cut short, and a replay that ends has filled the output.
THEOREM OutputFilled == Spec => []OutputFilledExactly
<1>1. PlanInv => OutputFilledExactly
  BY ReplayedCommand DEF PlanInv, FilledAtEnd, OutputFilledExactly
<1> QED BY <1>1, PlanInvariant, PTL

(***************************************************************************)
(* Where the output goes.                                                  *)
(*                                                                         *)
(* None of the properties is inductive: that dst is untouched needs that   *)
(* dst's array keeps its length, that a rejection comes before any write   *)
(* needs that nothing was written while planning, and the size of the      *)
(* output needs what the header said and the room that was made for it.    *)
(***************************************************************************)

NothingWrittenYet == pc \in {"header", "plan", "alloc"} => mem = UntouchedMem
RejectionWritesNothing == err \in InvalidErrs => mem = UntouchedMem
ErrorEndsCall == err # "nil" => pc = "done"
CallerKeepsDst ==
    /\ Len(mem["caller"]) = Len(dst.arr)
    /\ \A k \in 1 .. start : mem["caller"][k] = dst.arr[k]
HeaderHolds ==
    pc # "header" /\ err = "nil" =>
        HasByte(Header.next, NewLine) /\ limit = Header.val /\ limit <= MaxInt
ApplyHasNoDst == api = "Apply" => start = 0
RoomForOutput ==
    pc \in {"exec", "verify"} \/ (pc = "done" /\ err = "nil") =>
        start + limit <= Len(mem[home]) /\ start + limit <= MaxInt

OutputInv == /\ TypeOK
             /\ NothingWrittenYet /\ RejectionWritesNothing /\ ErrorEndsCall
             /\ CallerKeepsDst /\ HeaderHolds /\ ApplyHasNoDst /\ RoomForOutput

\* A replay writes only past dst's own bytes.
LEMMA CopyKeepsDst ==
    ASSUME TypeOK, CallerKeepsDst, NEW src, NEW at, CopyToOut(src, at),
           \A a \in Places : Len(mem'[a]) = Len(mem[a]), dst' = dst
    PROVE  CallerKeepsDst'
<1>1. /\ start \in Nat /\ start <= Len(dst.arr) /\ n \in Nat /\ Len(dst.arr) \in Nat
      /\ home \in Places /\ mem \in [Places -> Seq(Byte)]
  BY LenProperties DEF TypeOK, start, Dst, Places
<1>2. ASSUME NEW k \in 1 .. start PROVE mem'["caller"][k] = mem["caller"][k]
  <2>1. CASE home = "caller"
    <3>1. ~ (outAt(n) < k) /\ k \in 1 .. Len(mem["caller"])
      BY <1>1 DEF outAt, CallerKeepsDst
    <3>2. mem'["caller"] = [j \in 1 .. Len(mem["caller"]) |->
                              IF outAt(n) < j /\ j <= outAt(n) + copied
                              THEN src[at + j - outAt(n)] ELSE mem["caller"][j]]
      BY <1>1, <2>1 DEF CopyToOut
    <3> QED BY <3>1, <3>2
  <2>2. CASE home # "caller"
    BY <1>1, <2>2 DEF CopyToOut
  <2> QED BY <2>1, <2>2
<1>3. Len(mem'["caller"]) = Len(dst.arr)
  BY DEF CallerKeepsDst, Places
<1> QED BY <1>2, <1>3 DEF CallerKeepsDst, start

LEMMA InitOutputInv == Init => OutputInv
<1> SUFFICES ASSUME Init PROVE OutputInv
  OBVIOUS
<1>1. TypeOK
  BY InitTypeOK
<1>2. mem = UntouchedMem
  BY DEF Init, Fresh, UntouchedMem, Places
<1>3. mem["caller"] = dst.arr
  BY <1>2 DEF UntouchedMem, Places
<1>4. start = 0 \/ api # "Apply"
  BY DEF Init, Fresh, start
<1> QED BY <1>1, <1>2, <1>3, <1>4
        DEF Init, Fresh, OutputInv, NothingWrittenYet, RejectionWritesNothing, ErrorEndsCall,
            CallerKeepsDst, HeaderHolds, ApplyHasNoDst, RoomForOutput, InvalidErrs

LEMMA NextOutputInv == OutputInv /\ [Next]_vars => OutputInv'
<1> DEFINE Rest == /\ NothingWrittenYet /\ RejectionWritesNothing /\ ErrorEndsCall
                   /\ CallerKeepsDst /\ HeaderHolds /\ ApplyHasNoDst /\ RoomForOutput
<1> SUFFICES ASSUME OutputInv, [Next]_vars PROVE Rest'
  BY NextTypeOK DEF OutputInv
<1> USE DEF NothingWrittenYet, RejectionWritesNothing, ErrorEndsCall, HeaderHolds,
            ApplyHasNoDst, RoomForOutput
<1>0. TypeOK /\ Rest
  BY DEF OutputInv
<1>t. /\ limit \in Nat /\ start \in Nat /\ start <= Len(dst.arr) /\ Len(dst.arr) \in Nat
      /\ mem \in [Places -> Seq(Byte)] /\ home \in Places /\ dst.arr \in Seq(Byte)
  BY <1>0, WordsNat, LenProperties DEF TypeOK, start, Dst, Places
\* A return with an error, when nothing has been written or the output is complete.
<1>1. ASSUME NEW e, Return(e),
             \/ e \in InvalidErrs /\ pc \in {"header", "plan", "alloc"}
             \/ e \in {"nil", "ErrChecksumMismatch"} /\ pc = "verify"
      PROVE  Rest'
  <2>1. /\ pc' = "done" /\ err' = e
        /\ UNCHANGED <<api, delta, dst, limit, mem, home>>
    BY <1>1 DEF Return, args
  <2>2. CallerKeepsDst' /\ ApplyHasNoDst'
    BY <1>0, <2>1 DEF CallerKeepsDst, start
  <2>3. UntouchedMem' = UntouchedMem /\ Header' = Header /\ start' = start
    BY <2>1 DEF UntouchedMem, Header, start
  <2>4. e \in InvalidErrs => e # "nil" /\ e # "ErrChecksumMismatch"
    BY DEF InvalidErrs
  <2>5. err = "nil"
    BY <1>0, <1>1
  <2> QED BY <1>0, <1>1, <2>1, <2>2, <2>3, <2>4, <2>5 DEF HasByte
\* A step that writes nothing and allocates nothing.
<1>2. ASSUME pc' \in {"plan", "alloc"}, pc \in {"header", "plan", "alloc"},
             UNCHANGED <<api, delta, dst, mem, home, err>>,
             HasByte(Header.next, NewLine) /\ limit' = Header.val /\ limit' <= MaxInt
      PROVE  Rest'
  <2>1. CallerKeepsDst' /\ ApplyHasNoDst'
    BY <1>0, <1>2 DEF CallerKeepsDst, start
  <2>2. UntouchedMem' = UntouchedMem /\ Header' = Header
    BY <1>2 DEF UntouchedMem, Header
  <2> QED BY <1>0, <1>2, <2>1, <2>2 DEF HasByte
<1>3. CASE PlanHeader
  BY <1>1, <1>2, <1>3 DEF PlanHeader, args, InvalidErrs
<1>4. ASSUME NEW k, pc = "plan", Advance(k) PROVE Rest'
  BY <1>0, <1>2, <1>4 DEF Advance, args
<1>5. CASE PlanCopy
  BY <1>1, <1>4, <1>5 DEF PlanCopy, InvalidErrs
<1>6. CASE PlanInsert
  BY <1>1, <1>4, <1>6 DEF PlanInsert, InvalidErrs
<1>7. CASE PlanEnd
  <2>1. CASE Return("errSizeMismatch")
    BY <1>1, <1>7, <2>1 DEF PlanEnd, InvalidErrs
  <2>2. CASE ~ Return("errSizeMismatch")
    BY <1>0, <1>2, <1>7, <2>2 DEF PlanEnd, args
  <2> QED BY <2>1, <2>2
<1>8. CASE PlanUnknown
  BY <1>1, <1>8 DEF PlanUnknown, InvalidErrs
<1>9. CASE PlanUnterminated
  BY <1>1, <1>9 DEF PlanUnterminated, InvalidErrs
\* The output has been made room for, in an array that holds what dst holds.
<1>10. ASSUME pc = "alloc", BeginExec,
              mem'["caller"] = mem["caller"],
              start + limit <= Len(mem'[home']) /\ start + limit <= MaxInt
       PROVE  Rest'
  <2>1. /\ pc' = "exec" /\ UNCHANGED <<api, delta, dst, limit, err>>
    BY <1>10 DEF BeginExec, args
  <2>2. CallerKeepsDst' /\ ApplyHasNoDst'
    BY <1>0, <1>10, <2>1 DEF CallerKeepsDst, start
  <2>3. Header' = Header /\ start' = start /\ err' = "nil"
    BY <1>0, <1>10, <2>1 DEF Header, start
  <2> QED BY <1>0, <1>10, <2>1, <2>2, <2>3 DEF HasByte, InvalidErrs
<1>11. CASE AllocApply
  <2>1. mem'["fresh"] = zeros(limit) /\ mem'["caller"] = mem["caller"] /\ home' = "fresh"
    BY <1>t, <1>11 DEF AllocApply, Places
  <2>2. start = 0 /\ limit <= MaxInt /\ Len(mem'[home']) = limit
    BY <1>0, <1>t, <1>11, <2>1, zerosType DEF AllocApply
  <2>3. start + limit <= Len(mem'[home']) /\ start + limit <= MaxInt
    BY <1>t, <2>2
  <2> QED BY <1>10, <1>11, <2>1, <2>3 DEF AllocApply
<1>12. CASE AllocAppendApply
  <2>1. CASE tooLong /\ Return("errOutputTooLarge")
    BY <1>1, <1>12, <2>1 DEF AllocAppendApply, InvalidErrs
  <2>2. ASSUME ~ tooLong PROVE start + limit <= MaxInt
    BY <1>t, <2>2, DecoderAssumption DEF tooLong
  <2>3. CASE /\ ~ tooLong /\ start + limit <= Len(dst.arr)
             /\ home' = "caller" /\ mem' = mem /\ BeginExec
    <3>1. Len(mem'[home']) = Len(dst.arr)
      BY <1>0, <2>3 DEF CallerKeepsDst
    <3> QED BY <1>10, <1>12, <2>2, <2>3, <3>1 DEF AllocAppendApply
  <2>4. CASE /\ ~ tooLong /\ start + limit > Len(dst.arr) /\ home' = "fresh" /\ BeginExec
             /\ mem' = [mem EXCEPT !["fresh"] = dst.arr \o zeros(start + limit - Len(dst.arr))]
    <3> DEFINE grown == dst.arr \o zeros(start + limit - Len(dst.arr))
    <3>1. start + limit - Len(dst.arr) \in Nat
      BY <1>t, <2>4
    <3>2. Len(grown) = start + limit
      <4> DEFINE z == zeros(start + limit - Len(dst.arr))
      <4>1. z \in Seq(Byte) /\ Len(z) = start + limit - Len(dst.arr)
        BY <3>1, zerosType
      <4> HIDE DEF z
      <4>2. Len(dst.arr \o z) = Len(dst.arr) + Len(z)
        BY <1>t, <4>1, ConcatProperties
      <4>3. Len(dst.arr \o z) = start + limit
        BY <1>t, <4>1, <4>2
      <4> QED BY <4>3 DEF z
    <3> HIDE DEF grown
    <3>3. mem'["caller"] = mem["caller"] /\ mem'[home'] = grown
      BY <1>t, <2>4 DEF Places, grown
    <3>4. start + limit <= Len(mem'[home'])
      BY <1>t, <3>2, <3>3
    <3> QED BY <1>10, <1>12, <2>2, <2>4, <3>3, <3>4 DEF AllocAppendApply
  <2> QED BY <1>12, <2>1, <2>3, <2>4 DEF AllocAppendApply
\* A replayed command.
<1>13. ASSUME pc = "exec", pc' = "exec", NEW src, NEW at, CopyToOut(src, at),
              \A a \in Places : Len(mem'[a]) = Len(mem[a]),
              UNCHANGED <<args, limit, home, err>>
       PROVE  Rest'
  <2>1. UNCHANGED <<api, delta, dst>>
    BY <1>13 DEF args
  <2>2. CallerKeepsDst' /\ ApplyHasNoDst'
    BY <1>0, <1>13, <2>1, CopyKeepsDst DEF start
  <2>3. Header' = Header /\ start' = start /\ err' = "nil"
    BY <1>0, <1>13, <2>1 DEF Header, start
  <2>4. Len(mem'[home']) = Len(mem[home])
    BY <1>t, <1>13
  <2> QED BY <1>0, <1>13, <2>1, <2>2, <2>3, <2>4 DEF HasByte, InvalidErrs
<1>14. CASE ExecCopy
  <2>1. \A a \in Places : Len(mem'[a]) = Len(mem[a])
    BY <1>0, <1>14, CommandType, CopyToOutType DEF ExecCopy, TypeOK
  <2> QED BY <1>13, <1>14, <2>1 DEF ExecCopy
<1>15. CASE ExecInsert
  <2>1. \A a \in Places : Len(mem'[a]) = Len(mem[a])
    <3>1. cmd.next + 1 \in Nat
      BY <1>0, CommandType
    <3> QED BY <1>0, <1>15, <3>1, CopyToOutType DEF ExecInsert, TypeOK
  <2> QED BY <1>13, <1>15, <2>1 DEF ExecInsert
<1>16. CASE ExecEnd
  <2>1. /\ pc = "exec" /\ pc' = "verify" /\ UNCHANGED <<api, delta, dst, limit, mem, home, err>>
    BY <1>16 DEF ExecEnd, args
  <2>2. CallerKeepsDst' /\ ApplyHasNoDst'
    BY <1>0, <2>1 DEF CallerKeepsDst, start
  <2>3. Header' = Header /\ start' = start /\ err' = "nil"
    BY <1>0, <2>1 DEF Header, start
  <2> QED BY <1>0, <2>1, <2>2, <2>3 DEF HasByte, InvalidErrs
<1>17. CASE Verify
  BY <1>1, <1>17 DEF Verify
<1>18. CASE UNCHANGED vars
  <2>1. UNCHANGED <<api, delta, dst, pc, limit, mem, home, err>>
    BY <1>18 DEF vars
  <2>2. CallerKeepsDst' /\ ApplyHasNoDst'
    BY <1>0, <2>1 DEF CallerKeepsDst, start
  <2>3. UntouchedMem' = UntouchedMem /\ Header' = Header /\ start' = start
    BY <2>1 DEF UntouchedMem, Header, start
  <2> QED BY <1>0, <2>1, <2>2, <2>3 DEF HasByte
<1> QED BY <1>3, <1>5, <1>6, <1>7, <1>8, <1>9, <1>11, <1>12, <1>14, <1>15, <1>16,
           <1>17, <1>18 DEF Next

LEMMA OutputInvariant == Spec => []OutputInv
<1>1. Init => OutputInv
  BY InitOutputInv
<1>2. OutputInv /\ [Next]_vars => OutputInv'
  BY NextOutputInv
<1> QED BY <1>1, <1>2, PTL DEF Spec

\* dst[:len(dst)] is never written to, in no call and at no point of it.
THEOREM DstNeverWritten == Spec => []DstUntouched
<1>1. OutputInv => DstUntouched
  <2> SUFFICES ASSUME OutputInv PROVE DstUntouched
    OBVIOUS
  <2>1. /\ start \in Nat /\ \A k \in 1 .. start : mem["caller"][k] = dst.arr[k]
    BY DEF OutputInv, CallerKeepsDst, TypeOK, start, Dst
  <2>2. [k \in 1 .. start |-> mem["caller"][k]] = [k \in 1 .. start |-> dst.arr[k]]
    BY <2>1
  <2>3. /\ SubSeq(mem["caller"], 1, start) = [k \in 1 .. start |-> mem["caller"][k]]
        /\ SubSeq(dst.arr, 1, start) = [k \in 1 .. start |-> dst.arr[k]]
    BY <2>1
  <2> QED BY <2>2, <2>3 DEF DstUntouched
<1> QED BY <1>1, OutputInvariant, PTL

\* A malformed delta is rejected before anything is written or allocated.
THEOREM RejectedUntouched == Spec => []RejectedBeforeWriting
<1>1. OutputInv => RejectedBeforeWriting
  <2> SUFFICES ASSUME OutputInv, err \in InvalidErrs PROVE mem = [mem EXCEPT !["caller"] = dst.arr, !["fresh"] = <<>>]
    BY DEF RejectedBeforeWriting
  <2>1. mem = UntouchedMem
    BY DEF OutputInv, RejectionWritesNothing
  <2> QED BY <2>1 DEF UntouchedMem, Places
<1> QED BY <1>1, OutputInvariant, PTL

\* The length the output is grown to is one an int holds, however narrow an int is.
THEOREM LengthIsAnInt == Spec => []LengthFitsInt
<1>1. OutputInv => LengthFitsInt
  BY DEF OutputInv, RoomForOutput, LengthFitsInt
<1> QED BY <1>1, OutputInvariant, PTL

\* A delta that applies produces exactly what OutputSize reports of it.
THEOREM OutputSizeExact == Spec => []OutputSizeIsExact
<1>1. OutputInv => OutputSizeIsExact
  <2> SUFFICES ASSUME OutputInv, pc = "done", err = "nil"
               PROVE  OutputSize(delta).err = "nil" /\ OutputSize(delta).size = Len(output)
    BY DEF OutputSizeIsExact
  <2>1. /\ HasByte(Header.next, NewLine) /\ limit = Header.val /\ limit <= MaxInt
        /\ start + limit <= Len(mem[home])
    BY DEF OutputInv, HeaderHolds, RoomForOutput
  <2>2. limit \in Nat /\ start \in Nat /\ Len(mem[home]) \in Nat /\ mem[home] \in Seq(Byte)
    BY WordsNat, LenProperties DEF OutputInv, TypeOK, start, Dst
  <2>3. Len(output) = limit
    BY <2>1, <2>2 DEF output
  <2>4. OutputSize(delta) = [size |-> limit, err |-> "nil"]
    BY <2>1, <2>2, HeaderType, LenProperties, DecoderAssumption, SMTT(30)
    DEF OutputSize, HasByte, Header, OutputInv, TypeOK
  <2> QED BY <2>3, <2>4
<1> QED BY <1>1, OutputInvariant, PTL

(***************************************************************************)
(* Every iteration moves on.                                               *)
(***************************************************************************)

LEMMA IterationAdvances ==
    ASSUME PlanInv, Next, pc' = pc
    PROVE  i < Len(delta) /\ i' > i
<1>1. /\ cmd.next \in Nat /\ cmd.next >= i /\ cmd.val \in Nat /\ i \in Nat
      /\ ofst.next \in Nat /\ ofst.next > cmd.next
  BY CommandType DEF PlanInv, TypeOK
<1>2. PastCopy > i /\ PastInsert > i
  BY <1>1 DEF PastCopy, PastInsert
<1>3. \A e : Return(e) => pc' = "done"
  BY DEF Return
<1>4. CASE PlanCopy
  BY <1>2, <1>3, <1>4 DEF PlanCopy, Advance, AtOp
<1>5. CASE PlanInsert
  BY <1>2, <1>3, <1>5 DEF PlanInsert, Advance, AtOp
<1>6. CASE ExecCopy
  BY <1>2, <1>6 DEF ExecCopy, AtOp
<1>7. CASE ExecInsert
  BY <1>2, <1>7 DEF ExecInsert, AtOp
<1>8. ~ PlanHeader /\ ~ PlanEnd /\ ~ PlanUnknown /\ ~ PlanUnterminated
  BY <1>3 DEF PlanHeader, PlanEnd, PlanUnknown, PlanUnterminated
<1>9. ~ AllocApply /\ ~ AllocAppendApply /\ ~ ExecEnd /\ ~ Verify
  BY <1>3 DEF AllocApply, AllocAppendApply, BeginExec, ExecEnd, Verify
<1> QED BY <1>4, <1>5, <1>6, <1>7, <1>8, <1>9 DEF Next

\* No iteration of either pass leaves its index where it was, or starts past the
\* delta's end: a call makes at most two steps per byte of the delta.
THEOREM EveryIterationAdvances == Spec => IterationsAdvance
<1>1. PlanInv /\ [Next]_vars => [pc' = pc => i < Len(delta) /\ i' > i]_vars
  BY IterationAdvances
<1> QED BY <1>1, PlanInvariant, PTL DEF Spec, IterationsAdvance

(***************************************************************************)
(* A delta from one byte string to another, applied to any source.         *)
(***************************************************************************)

\* A call that has gone along the points of S so far.
Along(S, src, tgt) ==
    /\ Trail(S, delta, src, tgt)
    /\ pc # "header" /\ err = "nil" => limit = Len(tgt)
    /\ pc = "plan" => <<i, total>> \in S
    /\ pc \in {"plan", "alloc"} => <<body, 0>> \in S
    /\ pc = "exec" => <<i, n>> \in S
    /\ pc \in {"alloc", "exec", "verify"} => sum = checksum(tgt)

\* What has been made of it, when the source is the one it was made against.
Remade(src, tgt) ==
    origin = src =>
        /\ pc \in {"exec", "verify"} => \A k \in 1 .. n : mem[home][start + k] = tgt[k]
        /\ pc \in {"verify", "done"} /\ err = "nil" => output = tgt

\* What may come of it.
Outcome(src, tgt) ==
    /\ err \in {"nil", "ErrChecksumMismatch", "errCopyPastSource", "errOutputTooLarge"}
    /\ origin = src => err \in {"nil", "errOutputTooLarge"}
    /\ pc = "done" /\ err = "nil" =>
          Len(output) = Len(tgt) /\ checksum(output) = checksum(tgt)

Follows(src, tgt) ==
    /\ \E S \in SUBSET Points : Along(S, src, tgt)
    /\ Remade(src, tgt)
    /\ Outcome(src, tgt)

\* The command at the call's index, met with t bytes of tgt had.
Met(S, src, tgt, t) ==
    /\ i < Len(delta) /\ cmd.next < Len(delta)
    /\ \/ /\ delta[cmd.next + 1] = Semi
          /\ cmd.val = checksum(tgt) /\ t = Len(tgt)
       \/ /\ delta[cmd.next + 1] = At
          /\ ~ copyUnterminated
          /\ t + cmd.val <= Len(tgt) /\ ofst.val + cmd.val <= Len(src)
          /\ <<PastCopy, t + cmd.val>> \in S
          /\ \A k \in 1 .. cmd.val : src[ofst.val + k] = tgt[t + k]
       \/ /\ delta[cmd.next + 1] = Colon
          /\ t + cmd.val <= Len(tgt) /\ cmd.next + 1 + cmd.val <= Len(delta)
          /\ <<PastInsert, t + cmd.val>> \in S
          /\ \A k \in 1 .. cmd.val : delta[cmd.next + 1 + k] = tgt[t + k]

\* The command at a point of a trail.
LEMMA TrailCommand ==
    ASSUME TypeOK, NEW S \in SUBSET Points, NEW src, NEW tgt, Trail(S, delta, src, tgt),
           NEW t \in Nat, <<i, t>> \in S
    PROVE  Met(S, src, tgt, t)
<1>1. Ends(delta, tgt, <<i, t>>) \/ \E r \in S : Rebuilds(delta, src, tgt, <<i, t>>, r)
  BY DEF Trail
<1>2. cmd.next \in Nat /\ cmd.next >= i /\ i \in Nat /\ Len(delta) \in Nat
  BY CommandType, LenProperties DEF TypeOK
<1>3. ASSUME cmd.next < Len(delta) PROVE i < Len(delta)
  BY <1>2, <1>3
<1>4. CASE Ends(delta, tgt, <<i, t>>)
  <2>1. cmd.next < Len(delta) /\ delta[cmd.next + 1] = Semi /\ cmd.val = checksum(tgt)
        /\ t = Len(tgt)
    BY <1>4 DEF Ends, cmd
  <2> QED BY <1>3, <2>1 DEF Met
<1>5. CASE \E r \in S : Rebuilds(delta, src, tgt, <<i, t>>, r)
  <2>1. PICK r \in S : Rebuilds(delta, src, tgt, <<i, t>>, r)
    BY <1>5
  <2>2. /\ cmd.next < Len(delta)
        /\ r[2] = t + cmd.val /\ r[2] <= Len(tgt)
        /\ \/ /\ delta[cmd.next + 1] = At
              /\ ofst.next < Len(delta) /\ delta[ofst.next + 1] = Comma /\ r[1] = ofst.next + 1
              /\ ofst.val + cmd.val <= Len(src)
              /\ \A k \in 1 .. cmd.val : src[ofst.val + k] = tgt[t + k]
           \/ /\ delta[cmd.next + 1] = Colon
              /\ r[1] = cmd.next + 1 + cmd.val /\ r[1] <= Len(delta)
              /\ \A k \in 1 .. cmd.val : delta[cmd.next + 1 + k] = tgt[t + k]
    BY <2>1 DEF Rebuilds, cmd, ofst
  <2>3. r = <<r[1], r[2]>>
    BY DEF Points
  <2> QED BY <1>3, <2>2, <2>3 DEF Met, PastCopy, PastInsert, copyUnterminated
<1> QED BY <1>1, <1>4, <1>5

\* A command replayed adds what it should to the output.
LEMMA CopyRemakes ==
    ASSUME TypeOK, NEW s, NEW at \in Nat, NEW tgt, CopyToOut(s, at), copied = cmd.val,
           n + cmd.val <= limit, start + limit <= Len(mem[home]), home' = home, dst' = dst,
           \A k \in 1 .. n : mem[home][start + k] = tgt[k],
           \A k \in 1 .. cmd.val : s[at + k] = tgt[n + k]
    PROVE  \A k \in 1 .. n' : mem'[home'][start' + k] = tgt[k]
<1> DEFINE x == start
           c == cmd.val
           L == Len(mem[home])
           row == [k \in 1 .. L |->
                     IF x + n < k /\ k <= x + n + c THEN s[at + k - (x + n)] ELSE mem[home][k]]
<1>1. /\ x \in Nat /\ c \in Nat /\ L \in Nat /\ n \in Nat /\ limit \in Nat
      /\ home \in Places /\ mem \in [Places -> Seq(Byte)]
  BY CommandType, LenProperties, WordsNat DEF TypeOK, start, Dst, Places
<1>2. mem' = [mem EXCEPT ![home] = row] /\ n' = n + c
  BY DEF CopyToOut, outAt
<1>3. mem'[home'] = row /\ start' = x
  BY <1>1, <1>2 DEF start
<1>4. n + c <= limit /\ x + limit <= L
  OBVIOUS
<1> SUFFICES ASSUME NEW k \in 1 .. n + c PROVE row[x + k] = tgt[k]
  BY <1>2, <1>3
<1>5. x + k \in 1 .. L
  <2> HIDE DEF x, c, L
  <2> QED BY <1>1, <1>4
<1>6. row[x + k] = IF x + n < x + k /\ x + k <= x + n + c
                   THEN s[at + (x + k) - (x + n)] ELSE mem[home][x + k]
  BY <1>5
<1>7. CASE k <= n
  <2>1. ~ (x + n < x + k) /\ k \in 1 .. n
    <3> HIDE DEF x, c, L
    <3> QED BY <1>1, <1>7
  <2>2. mem[home][x + k] = tgt[k]
    BY <2>1
  <2> HIDE DEF row
  <2> QED BY <1>6, <2>1, <2>2
<1>8. CASE n < k
  <2>1. /\ x + n < x + k /\ x + k <= x + n + c
        /\ at + (x + k) - (x + n) = at + (k - n) /\ k - n \in 1 .. c /\ n + (k - n) = k
    <3> HIDE DEF x, c, L
    <3> QED BY <1>1, <1>8
  <2>2. s[at + (k - n)] = tgt[n + (k - n)]
    BY <2>1
  <2> HIDE DEF row
  <2> QED BY <1>6, <2>1, <2>2
<1>9. k <= n \/ n < k
  BY <1>1
<1> QED BY <1>7, <1>8, <1>9

\* The bytes from one place to another.
LEMMA PieceIs ==
    ASSUME NEW t \in Seq(Byte), NEW from \in 0 .. Len(t), NEW to \in from .. Len(t)
    PROVE  /\ SubSeq(t, from + 1, to) \in Seq(Byte) /\ Len(SubSeq(t, from + 1, to)) = to - from
           /\ \A k \in 1 .. to - from : SubSeq(t, from + 1, to)[k] = t[from + k]
  OBVIOUS

\* The whole output, byte by byte.
LEMMA OutputIs ==
    ASSUME TypeOK, start + limit <= Len(mem[home]), NEW tgt \in Seq(Byte), limit = Len(tgt),
           \A k \in 1 .. limit : mem[home][start + k] = tgt[k]
    PROVE  output = tgt
<1> DEFINE x == start
           m == mem[home]
           L == Len(m)
<1>1. x \in Nat /\ limit \in Nat /\ m \in Seq(Byte) /\ L \in Nat
  BY LenProperties, WordsNat DEF TypeOK, start, Dst
<1>2. x + 1 \in Nat /\ x + limit \in Nat /\ (x + limit) - (x + 1) + 1 = limit
  BY <1>1
<1>3. output \in Seq(Byte) /\ Len(output) = limit
      /\ \A k \in 1 .. limit : output[k] = m[x + k]
  <2>1. /\ SubSeq(m, x + 1, x + limit) \in Seq(Byte)
        /\ Len(SubSeq(m, x + 1, x + limit)) = limit
        /\ \A k \in 1 .. limit : SubSeq(m, x + 1, x + limit)[k] = m[x + k]
    <3>1. x \in 0 .. L /\ x + limit \in x .. L /\ (x + limit) - x = limit
      <4> HIDE DEF x, L
      <4>1. x + limit <= L
        BY DEF x, L
      <4> QED BY <1>1, <4>1
    <3> DEFINE y == x + limit
    <3> HIDE DEF x, m, y
    <3>2. /\ SubSeq(m, x + 1, y) \in Seq(Byte) /\ Len(SubSeq(m, x + 1, y)) = y - x
          /\ \A k \in 1 .. y - x : SubSeq(m, x + 1, y)[k] = m[x + k]
      BY <1>1, <3>1, PieceIs DEF y
    <3> QED BY <3>1, <3>2 DEF y
  <2> QED BY <2>1 DEF output
<1>4. \A k \in 1 .. limit : output[k] = tgt[k]
  BY <1>3
<1> QED BY <1>3, <1>4

LEMMA InitFollows ==
    ASSUME Init, NEW src, NEW tgt, Describes(delta, src, tgt)
    PROVE  Follows(src, tgt)
<1>1. PICK S \in SUBSET Points : Trail(S, delta, src, tgt)
  BY DEF Describes
<1>2. pc = "header" /\ err = "nil"
  BY DEF Init, Fresh
<1>3. Along(S, src, tgt)
  BY <1>1, <1>2 DEF Along
<1> QED BY <1>2, <1>3 DEF Follows, Remade, Outcome

LEMMA NextFollows ==
    ASSUME PlanInv, OutputInv, NEW src, NEW tgt \in Seq(Byte), Follows(src, tgt), Next
    PROVE  Follows(src, tgt)'
<1>1. PICK S \in SUBSET Points : Along(S, src, tgt)
  BY DEF Follows
<1>2. /\ TypeOK /\ Remade(src, tgt) /\ Outcome(src, tgt)
      /\ delta' = delta /\ origin' = origin /\ dst' = dst
  BY DEF Follows, PlanInv, Next, PlanHeader, PlanCopy, PlanInsert, PlanEnd, PlanUnknown,
     PlanUnterminated, AllocApply, AllocAppendApply, BeginExec, ExecCopy, ExecInsert, ExecEnd,
     Verify, Return, Advance, args
<1>3. Trail(S, delta, src, tgt)
  BY <1>1 DEF Along
<1>4. /\ i \in Nat /\ total \in Nat /\ n \in Nat /\ limit \in Nat /\ Len(tgt) \in Nat
      /\ At # Colon /\ At # Semi /\ Colon # Semi /\ start \in Nat
  BY CodecAssumption, LenProperties, WordsNat, <1>2 DEF TypeOK, start, Dst
\* A return with an error that the source or the room for the output is to blame for.
<1>5. ASSUME NEW e, Return(e), pc # "done",
             e = "errOutputTooLarge" \/ (e = "errCopyPastSource" /\ origin # src)
      PROVE  Follows(src, tgt)'
  <2>1. pc' = "done" /\ err' = e /\ e # "nil"
    BY <1>5 DEF Return
  <2>2. Along(S, src, tgt)'
    BY <1>2, <1>3, <2>1 DEF Along
  <2>3. Remade(src, tgt)' /\ Outcome(src, tgt)'
    BY <1>2, <1>5, <2>1 DEF Remade, Outcome
  <2> QED BY <2>2, <2>3 DEF Follows
\* A step of the first pass that does not return.
<1>6. ASSUME pc' \in {"plan", "alloc"}, err' = err, err = "nil", limit' = Len(tgt),
             pc' = "plan" => <<i', total'>> \in S, <<body', 0>> \in S,
             pc' = "alloc" => sum' = checksum(tgt)
      PROVE  Follows(src, tgt)'
  <2>1. Along(S, src, tgt)'
    BY <1>2, <1>3, <1>6 DEF Along
  <2>2. Remade(src, tgt)' /\ Outcome(src, tgt)'
    BY <1>2, <1>6 DEF Remade, Outcome
  <2> QED BY <2>1, <2>2 DEF Follows
\* The first pass is over.
<1>7. ASSUME pc = "alloc", pc' = "exec", i' = body, n' = 0, UNCHANGED <<limit, sum, err>>,
             err = "nil"
      PROVE  Follows(src, tgt)'
  <2>1. Along(S, src, tgt)'
    BY <1>1, <1>2, <1>3, <1>7 DEF Along
  <2>2. Remade(src, tgt)' /\ Outcome(src, tgt)'
    BY <1>2, <1>7 DEF Remade, Outcome
  <2> QED BY <2>1, <2>2 DEF Follows
<1>8. pc # "done" => err = "nil"
  BY DEF OutputInv, ErrorEndsCall
<1>9. CASE PlanHeader
  <2>1. pc = "header" /\ HasByte(Header.next, NewLine) /\ Header.val = Len(tgt)
        /\ <<Header.next + 1, 0>> \in S
    BY <1>3, <1>9 DEF PlanHeader, Trail, Header, HasByte
  <2>2. CASE Return("errOutputTooLarge")
    BY <1>5, <2>1, <2>2
  <2>3. CASE ~ Return("errOutputTooLarge")
    <3>1. /\ pc' = "plan" /\ limit' = Header.val /\ body' = Header.next + 1
          /\ i' = Header.next + 1 /\ total' = total /\ err' = err
      BY <1>9, <2>1, <2>3 DEF PlanHeader
    <3>2. total = 0
      BY <2>1 DEF PlanInv, PlanBeginsAtZero
    <3> QED BY <1>6, <1>8, <2>1, <3>1, <3>2
  <2> QED BY <2>2, <2>3
<1> DEFINE c == cmd.val
           L == Len(tgt)
<1>10. c \in Nat /\ L \in Nat
  BY <1>2, <1>4, CommandType
<1>11. ASSUME pc = "plan"
       PROVE  /\ <<i, total>> \in S /\ <<body, 0>> \in S /\ limit = L /\ err = "nil"
  BY <1>1, <1>8, <1>11 DEF Along
<1>12. CASE PlanCopy
  <2>1. pc = "plan" /\ AtOp(At)
    BY <1>12 DEF PlanCopy
  <2>a. Met(S, src, tgt, total)
    BY <1>2, <1>3, <1>4, <1>11, <2>1, TrailCommand
  <2>2. /\ ~ copyUnterminated /\ total + c <= L /\ ofst.val + cmd.val <= Len(src)
        /\ <<PastCopy, total + c>> \in S
    BY <1>4, <2>1, <2>a DEF AtOp, HasByte, Met
  <2>3. ~ (totalAfter > limit)
    <3>1. limit = L /\ totalAfter = total + c
      BY <1>11, <2>1 DEF totalAfter
    <3> HIDE DEF c, L
    <3> QED BY <1>4, <1>10, <2>2, <3>1
  <2>4. CASE copyPastSource
    <3>1. Return("errCopyPastSource")
      BY <1>12, <2>2, <2>3, <2>4 DEF PlanCopy, Advance
    <3>2. origin # src
      <4>1. Len(origin) \in Nat /\ ofst.val \in Nat /\ cmd.val \in Nat
        BY <1>2, CommandType, LenProperties DEF TypeOK
      <4> QED BY <2>2, <2>4, <4>1 DEF copyPastSource
    <3> QED BY <1>5, <2>1, <3>1, <3>2
  <2>5. CASE ~ copyPastSource
    <3>1. Advance(PastCopy)
      BY <1>12, <2>2, <2>3, <2>5 DEF PlanCopy
    <3>2. i' = PastCopy /\ total' = total + c /\ UNCHANGED <<pc, limit, body, err>>
      BY <3>1 DEF Advance, totalAfter
    <3> QED BY <1>6, <1>11, <2>1, <2>2, <3>2
  <2> QED BY <2>4, <2>5
<1>13. CASE PlanInsert
  <2>1. pc = "plan" /\ AtOp(Colon)
    BY <1>13 DEF PlanInsert
  <2>a. Met(S, src, tgt, total)
    BY <1>2, <1>3, <1>4, <1>11, <2>1, TrailCommand
  <2>2. /\ total + c <= L /\ cmd.next + 1 + cmd.val <= Len(delta)
        /\ <<PastInsert, total + c>> \in S
    BY <1>4, <2>1, <2>a DEF AtOp, HasByte, Met
  <2>3. ~ (totalAfter > limit)
    <3>1. limit = L /\ totalAfter = total + c
      BY <1>11, <2>1 DEF totalAfter
    <3> HIDE DEF c, L
    <3> QED BY <1>4, <1>10, <2>2, <3>1
  <2>4. ~ insertPastDelta
    <3>1. Len(delta) \in Nat /\ cmd.next \in Nat /\ cmd.val \in Nat
      BY <1>2, CommandType, LenProperties DEF TypeOK
    <3> QED BY <2>2, <3>1 DEF insertPastDelta
  <2>5. i' = PastInsert /\ total' = total + c /\ UNCHANGED <<pc, limit, body, err>>
    BY <1>13, <2>3, <2>4 DEF PlanInsert, Advance, totalAfter
  <2> QED BY <1>6, <1>11, <2>1, <2>2, <2>5
<1>14. CASE PlanEnd
  <2>1. pc = "plan" /\ AtOp(Semi)
    BY <1>14 DEF PlanEnd
  <2>a. Met(S, src, tgt, total)
    BY <1>2, <1>3, <1>4, <1>11, <2>1, TrailCommand
  <2>2. cmd.val = checksum(tgt) /\ total = L
    BY <1>4, <2>1, <2>a DEF AtOp, HasByte, Met
  <2>3. total = limit
    BY <1>11, <2>1, <2>2
  <2>4. sum' = cmd.val /\ pc' = "alloc" /\ UNCHANGED <<limit, body, err>>
    BY <1>14, <2>3 DEF PlanEnd, Return
  <2> QED BY <1>6, <1>11, <2>1, <2>2, <2>4
<1>15. CASE PlanUnknown \/ PlanUnterminated
  <2>1. pc = "plan"
    BY <1>15 DEF PlanUnknown, PlanUnterminated
  <2>a. Met(S, src, tgt, total)
    BY <1>2, <1>3, <1>4, <1>11, <2>1, TrailCommand
  <2>2. i < Len(delta) /\ cmd.next < Len(delta) /\ delta[cmd.next + 1] \in {At, Colon, Semi}
    BY <1>4, <2>1, <2>a DEF Met
  <2>3. Len(delta) \in Nat /\ cmd.next \in Nat
    BY <1>2, CommandType, LenProperties DEF TypeOK
  <2> QED BY <1>4, <1>15, <2>2, <2>3 DEF PlanUnknown, PlanUnterminated
<1>16. CASE AllocApply \/ AllocAppendApply
  <2>1. pc = "alloc"
    BY <1>16 DEF AllocApply, AllocAppendApply
  <2>2. CASE Return("errOutputTooLarge")
    BY <1>5, <2>1, <2>2
  <2>3. CASE ~ Return("errOutputTooLarge")
    <3>1. pc' = "exec" /\ i' = body /\ n' = 0 /\ UNCHANGED <<limit, sum, err>>
      BY <1>16, <2>3 DEF AllocApply, AllocAppendApply, BeginExec
    <3> QED BY <1>7, <1>8, <2>1, <3>1
  <2> QED BY <2>2, <2>3
<1>17. ASSUME pc = "exec"
       PROVE  /\ <<i, n>> \in S /\ limit = L /\ err = "nil" /\ sum = checksum(tgt)
              /\ start + limit <= Len(mem[home])
  BY <1>1, <1>8, <1>17 DEF Along, OutputInv, RoomForOutput
\* A command replayed.
<1>18. ASSUME pc = "exec", NEW s, NEW at \in Nat, CopyToOut(s, at), copied = cmd.val,
              n + c <= L, UNCHANGED <<pc, limit, sum, err, home>>, <<i', n + c>> \in S,
              origin = src => \A k \in 1 .. c : s[at + k] = tgt[n + k]
       PROVE  Follows(src, tgt)'
  <2>1. n' = n + c
    BY <1>18 DEF CopyToOut
  <2>2. Along(S, src, tgt)'
    BY <1>2, <1>3, <1>17, <1>18, <2>1 DEF Along
  <2>3. ASSUME origin = src PROVE \A k \in 1 .. n' : mem'[home'][start' + k] = tgt[k]
    <3>1. \A k \in 1 .. n : mem[home][start + k] = tgt[k]
      BY <1>2, <1>18, <2>3 DEF Remade
    <3>2. n + cmd.val <= limit
      BY <1>17, <1>18
    <3> QED BY <1>2, <1>17, <1>18, <2>3, <3>1, <3>2, CopyRemakes, SMTT(30)
  <2>4. Remade(src, tgt)'
    BY <1>2, <1>18, <2>3 DEF Remade
  <2>5. Outcome(src, tgt)'
    BY <1>2, <1>17, <1>18 DEF Outcome
  <2> QED BY <2>2, <2>4, <2>5 DEF Follows
<1>19. CASE ExecCopy
  <2>1. /\ pc = "exec" /\ AtOp(At) /\ CopyToOut(origin, ofst.val) /\ i' = PastCopy
        /\ UNCHANGED <<pc, limit, sum, err, home>>
    BY <1>19 DEF ExecCopy
  <2>a. Met(S, src, tgt, n)
    BY <1>2, <1>3, <1>4, <1>17, <2>1, TrailCommand
  <2>2. /\ n + c <= L /\ <<PastCopy, n + c>> \in S
        /\ \A k \in 1 .. c : src[ofst.val + k] = tgt[n + k]
    BY <1>4, <2>1, <2>a DEF AtOp, HasByte, Met
  <2>3. copied = cmd.val /\ ofst.val \in Nat
    BY <1>2, <2>1, ReplayedCommand, CommandType
  <2> QED BY <1>18, <2>1, <2>2, <2>3
<1>20. CASE ExecInsert
  <2>1. /\ pc = "exec" /\ AtOp(Colon) /\ CopyToOut(delta, cmd.next + 1) /\ i' = PastInsert
        /\ UNCHANGED <<pc, limit, sum, err, home>>
    BY <1>20 DEF ExecInsert
  <2>a. Met(S, src, tgt, n)
    BY <1>2, <1>3, <1>4, <1>17, <2>1, TrailCommand
  <2>2. /\ n + c <= L /\ <<PastInsert, n + c>> \in S
        /\ \A k \in 1 .. c : delta[cmd.next + 1 + k] = tgt[n + k]
    BY <1>4, <2>1, <2>a DEF AtOp, HasByte, Met
  <2>3. copied = cmd.val /\ cmd.next + 1 \in Nat
    BY <1>2, <2>1, ReplayedCommand, CommandType
  <2> QED BY <1>18, <2>1, <2>2, <2>3
<1>21. CASE ExecEnd
  <2>1. /\ pc = "exec" /\ delta[cmd.next + 1] \notin {At, Colon}
        /\ pc' = "verify" /\ UNCHANGED <<limit, sum, n, mem, home, err>>
    BY <1>21 DEF ExecEnd
  <2>a. Met(S, src, tgt, n)
    BY <1>2, <1>3, <1>4, <1>17, <2>1, TrailCommand
  <2>2. n = L
    BY <1>4, <2>1, <2>a DEF Met
  <2>3. Along(S, src, tgt)'
    BY <1>2, <1>3, <1>17, <2>1 DEF Along
  <2>4. ASSUME origin = src
        PROVE  (\A k \in 1 .. n : mem[home][start + k] = tgt[k]) /\ output = tgt
    <3>1. \A k \in 1 .. n : mem[home][start + k] = tgt[k]
      BY <1>2, <2>1, <2>4 DEF Remade
    <3>2. limit = Len(tgt) /\ n = limit /\ start + limit <= Len(mem[home])
      BY <1>17, <2>1, <2>2
    <3> QED BY <1>2, <3>1, <3>2, OutputIs
  <2>5. start' = start /\ output' = output
    BY <1>2, <2>1 DEF start, output
  <2>6. Remade(src, tgt)'
    BY <1>2, <2>1, <2>4, <2>5 DEF Remade
  <2>7. Outcome(src, tgt)'
    BY <1>2, <2>1 DEF Outcome
  <2> QED BY <2>3, <2>6, <2>7 DEF Follows
<1>22. CASE Verify
  <2>1. /\ pc = "verify" /\ pc' = "done" /\ UNCHANGED <<limit, sum, n, mem, home>>
        /\ \/ checksum(output) # sum /\ err' = "ErrChecksumMismatch"
           \/ checksum(output) = sum /\ err' = "nil"
    BY <1>22 DEF Verify, Return
  <2>2. limit = L /\ sum = checksum(tgt) /\ err = "nil"
    BY <1>1, <1>8, <2>1 DEF Along
  <2>3. start' = start /\ output' = output
    BY <1>2, <2>1 DEF start, output
  <2>4. Along(S, src, tgt)'
    BY <1>2, <1>3, <2>1, <2>2 DEF Along
  <2>5. Remade(src, tgt)'
    BY <1>2, <2>1, <2>2, <2>3 DEF Remade
  <2>6. Len(output) = limit
    <3>1. start + limit <= Len(mem[home])
      BY <2>1 DEF OutputInv, RoomForOutput
    <3>2. mem[home] \in Seq(Byte) /\ Len(mem[home]) \in Nat
      BY <1>2, LenProperties DEF TypeOK
    <3> DEFINE x == start
               m == mem[home]
    <3>3. Len(SubSeq(m, x + 1, x + limit)) = limit
      <4>1. x \in Nat /\ limit \in Nat /\ x + limit <= Len(m) /\ m \in Seq(Byte) /\ Len(m) \in Nat
        BY <1>4, <3>1, <3>2
      <4> HIDE DEF x, m
      <4> QED BY <4>1
    <3> QED BY <3>3 DEF output
  <2>7. Outcome(src, tgt)'
    BY <1>2, <2>1, <2>2, <2>3, <2>6 DEF Outcome, Remade
  <2> QED BY <2>4, <2>5, <2>7 DEF Follows
<1> QED BY <1>9, <1>12, <1>13, <1>14, <1>15, <1>16, <1>19, <1>20, <1>21, <1>22 DEF Next

LEMMA StutterFollows ==
    ASSUME NEW src, NEW tgt, Follows(src, tgt), UNCHANGED vars
    PROVE  Follows(src, tgt)'
  BY DEF Follows, Along, Remade, Outcome, output, start, vars, args

LEMMA FollowsAlways ==
    ASSUME NEW src, NEW tgt \in Seq(Byte)
    PROVE  Spec /\ Describes(delta, src, tgt) => []Follows(src, tgt)
<1>1. Init /\ Describes(delta, src, tgt) => Follows(src, tgt)
  BY InitFollows
<1>2. PlanInv /\ OutputInv /\ Follows(src, tgt) /\ [Next]_vars => Follows(src, tgt)'
  BY NextFollows, StutterFollows
<1> QED BY <1>1, <1>2, PlanInvariant, OutputInvariant, PTL DEF Spec

\* A delta from src to tgt is never found malformed, whatever it is applied to: only
\* the length of the source it needs, or its checksum, or an int's width can refuse it;
\* and what it gives has the length and the checksum of tgt (apply.go, Apply).
THEOREM DescribedIsWellFormed ==
    ASSUME NEW src, NEW tgt \in Seq(Byte)
    PROVE  Spec /\ Describes(delta, src, tgt) => []Outcome(src, tgt)
<1>1. Follows(src, tgt) => Outcome(src, tgt)
  BY DEF Follows
<1> QED BY <1>1, FollowsAlways, PTL

\* Applied to the source it was made against it gives the target (apply.go, Apply): if
\* the call returns and the target's length is one an int holds, it returns the target.
THEOREM DescribedIsRemade ==
    ASSUME NEW src, NEW tgt \in Seq(Byte)
    PROVE  Spec /\ Describes(delta, src, tgt)
             => [](pc = "done" /\ origin = src /\ err # "errOutputTooLarge"
                     => err = "nil" /\ output = tgt)
<1>1. Follows(src, tgt) => (pc = "done" /\ origin = src /\ err # "errOutputTooLarge"
                              => err = "nil" /\ output = tgt)
  BY DEF Follows, Remade, Outcome
<1> QED BY <1>1, FollowsAlways, PTL

\* Where an int holds the length of what dst and the target come to, the output is not
\* found too large.
LEMMA RoomIsEnough ==
    ASSUME OutputInv, NEW src, NEW tgt \in Seq(Byte), Follows(src, tgt),
           start + Len(tgt) <= MaxInt, err # "errOutputTooLarge", Next
    PROVE  err' # "errOutputTooLarge"
<1>1. PICK S \in SUBSET Points : Along(S, src, tgt)
  BY DEF Follows
<1>2. /\ TypeOK /\ start \in Nat /\ Len(tgt) \in Nat /\ MaxInt \in Nat
      /\ pc # "done" => err = "nil"
  BY DecoderAssumption, LenProperties DEF OutputInv, ErrorEndsCall, TypeOK, start, Dst
<1>3. Len(tgt) <= MaxInt /\ ~ (Len(tgt) > MaxInt - start)
  BY <1>2
<1>4. CASE PlanHeader
  <2>1. Header.val = Len(tgt)
    BY <1>1 DEF Along, Trail, Header
  <2>2. ~ (Header.val > MaxInt)
    BY <1>2, <1>3, <2>1
  <2> QED BY <1>2, <1>4, <2>2 DEF PlanHeader, Return
<1>5. CASE AllocAppendApply
  <2>1. limit = Len(tgt)
    BY <1>1, <1>2, <1>5 DEF Along, AllocAppendApply
  <2>2. ~ tooLong
    BY <1>3, <2>1 DEF tooLong
  <2> QED BY <1>5, <2>2 DEF AllocAppendApply, BeginExec
<1> QED BY <1>4, <1>5 DEF Next, PlanCopy, PlanInsert, PlanEnd, PlanUnknown, PlanUnterminated,
     AllocApply, ExecCopy, ExecInsert, ExecEnd, Verify, Return, Advance, BeginExec

(***************************************************************************)
(* What applies here is a delta, from the source to the output.            *)
(***************************************************************************)

\* The bytes of the output so far.
soFar == SubSeq(mem[home], start + 1, start + n)

\* What CommandOK leaves out of a command walked over: that a copy's offset has ended
\* where it should, and that the trailer is the last one, with the checksum kept of it.
WalkedOver(p) ==
    LET c == decodeInt(delta, p)
        o == decodeInt(delta, c.next + 1)
    IN  /\ delta[c.next + 1] = At /\ o.next < Len(delta) => delta[o.next + 1] = Comma
        /\ delta[c.next + 1] = Semi => pc # "plan" /\ c.val = sum

\* The points gone through in the replay, up to where it is.
Replayed(S, out) ==
    /\ <<body, 0>> \in S
    /\ \A s \in S : s = <<i, n>> \/ \E r \in S : Rebuilds(delta, origin, out, s, r)

MadeInv ==
    /\ pc # "header" /\ err = "nil" => body = Header.next + 1
    /\ pc \in {"plan", "alloc", "exec"} => \A s \in planned : WalkedOver(s[1])
    /\ pc \in {"exec", "verify"} => n <= limit /\ \E S \in SUBSET Points : Replayed(S, soFar)
    /\ pc = "verify" => HasByte(cmd.next, Semi) /\ cmd.val = sum
    /\ pc = "done" /\ err = "nil" => Describes(delta, origin, output)

LEMMA SoFarIs ==
    ASSUME NEW m \in Seq(Byte), NEW x \in Nat, NEW k \in Nat, x + k <= Len(m)
    PROVE  /\ SubSeq(m, x + 1, x + k) \in Seq(Byte)
           /\ Len(SubSeq(m, x + 1, x + k)) = k
           /\ \A j \in 1 .. k : SubSeq(m, x + 1, x + k)[j] = m[x + j]
<1> DEFINE y == x + k
<1>1. x \in 0 .. Len(m) /\ y \in x .. Len(m) /\ y - x = k
  BY LenProperties
<1> HIDE DEF y
<1>2. /\ SubSeq(m, x + 1, y) \in Seq(Byte) /\ Len(SubSeq(m, x + 1, y)) = y - x
      /\ \A j \in 1 .. y - x : SubSeq(m, x + 1, y)[j] = m[x + j]
  BY <1>1, PieceIs
<1> QED BY <1>1, <1>2 DEF y

\* A command that rebuilds part of x rebuilds the same part of what begins with x.
LEMMA RebuildsMore ==
    ASSUME NEW d \in Seq(Byte), NEW src, NEW x \in Seq(Byte), NEW y \in Seq(Byte),
           BeginsWith(y, x), NEW s \in Points, NEW r \in Points, Rebuilds(d, src, x, s, r)
    PROVE  Rebuilds(d, src, y, s, r)
<1> DEFINE p == s[1]
           t == s[2]
           q == r[1]
           u == r[2]
<1>1. p \in Nat /\ t \in Nat /\ q \in Nat /\ u \in Nat /\ s = <<p, t>> /\ r = <<q, u>>
  BY PointIs
<1>2. Len(x) \in Nat /\ Len(y) \in Nat /\ Len(d) \in Nat /\ 0 \in Nat
  BY LenProperties
<1>3. Within(d, d, 0)
  BY <1>2 DEF Within
<1>4. Within(x, y, 0)
  <2>1. \A k \in 1 .. Len(x) : 0 + k = k
    BY <1>2
  <2>2. 0 + Len(x) = Len(x)
    BY <1>2
  <2> QED BY <2>1, <2>2 DEF Within, BeginsWith
<1> HIDE DEF p, t, q, u
<1>5. Rebuilds(d, src, x, <<p, t>>, <<q, u>>)
  BY <1>1
<1>6. Rebuilds(d, src, y, <<0 + p, 0 + t>>, <<0 + q, 0 + u>>)
  BY <1>1, <1>2, <1>3, <1>4, <1>5, RebuildsElsewhere
<1>7. 0 + p = p /\ 0 + t = t /\ 0 + q = q /\ 0 + u = u
  BY <1>1
<1> QED BY <1>1, <1>6, <1>7

LEMMA InitMade == Init => MadeInv
  BY DEF Init, Fresh, MadeInv

\* A command replayed: what it adds is what it says.
LEMMA ReplayRebuilds ==
    ASSUME PlanInv, OutputInv, MadeInv, pc = "exec",
           NEW s \in Seq(Byte), NEW at \in Nat, at + cmd.val <= Len(s), CopyToOut(s, at),
           copied = cmd.val, n + cmd.val <= limit, NEW S \in SUBSET Points, Replayed(S, soFar),
           UNCHANGED <<delta, origin, dst, home, body, limit>>, i' \in Nat,
           \A tgt \in Seq(Byte) :
              n + cmd.val <= Len(tgt) /\ (\A k \in 1 .. cmd.val : s[at + k] = tgt[n + k])
                => Rebuilds(delta, origin, tgt, <<i, n>>, <<i', n + cmd.val>>)
    PROVE  \E T \in SUBSET Points : Replayed(T, soFar)'
<1> DEFINE x == start
           c == cmd.val
           m == mem[home]
           mm == mem'[home']
           out == SubSeq(m, x + 1, x + n)
           w == n + c
           outN == SubSeq(mm, x + 1, x + w)
<1>1. /\ TypeOK /\ x \in Nat /\ c \in Nat /\ n \in Nat /\ limit \in Nat /\ i \in Nat
      /\ home \in Places /\ m \in Seq(Byte) /\ mem \in [Places -> Seq(Byte)]
  BY CommandType, LenProperties, WordsNat DEF PlanInv, TypeOK, start, Dst, Places
<1>2. x + limit <= Len(m) /\ n <= limit
  BY DEF OutputInv, RoomForOutput, MadeInv
<1>3. mm \in Seq(Byte) /\ Len(mm) = Len(m) /\ n' = w
  <2>1. mem' \in [Places -> Seq(Byte)] /\ \A a \in Places : Len(mem'[a]) = Len(mem[a])
    BY <1>1, CopyToOutType
  <2>2. n' = w
    BY DEF CopyToOut
  <2> QED BY <1>1, <2>1, <2>2
<1>4. start' = x /\ soFar = out /\ soFar' = outN
  <2>1. start' = x
    BY DEF start
  <2>2. soFar = out
    BY DEF soFar
  <2>3. soFar' = SubSeq(mem'[home'], start' + 1, start' + n')
    BY DEF soFar
  <2> HIDE DEF x, w, mm
  <2> QED BY <1>3, <2>1, <2>2, <2>3 DEF mm
<1>5. \A k \in 1 .. w : mm[x + k] = IF k <= n THEN m[x + k] ELSE s[at + (k - n)]
  <2> DEFINE t == [k \in 1 .. w |-> IF k <= n THEN m[x + k] ELSE s[at + (k - n)]]
  <2>1. \A k \in 1 .. n : m[x + k] = t[k]
    <3> SUFFICES ASSUME NEW k \in 1 .. n PROVE m[x + k] = t[k]
      OBVIOUS
    <3>1. k \in 1 .. w /\ k <= n
      <4> HIDE DEF c
      <4> QED BY <1>1
    <3> QED BY <3>1
  <2>2. \A k \in 1 .. c : s[at + k] = t[n + k]
    <3> SUFFICES ASSUME NEW k \in 1 .. c PROVE s[at + k] = t[n + k]
      OBVIOUS
    <3>1. n + k \in 1 .. w /\ ~ (n + k <= n) /\ (n + k) - n = k
      <4> HIDE DEF c
      <4> QED BY <1>1
    <3> QED BY <3>1
  <2>3. \A k \in 1 .. w : t[k] = IF k <= n THEN m[x + k] ELSE s[at + (k - n)]
    OBVIOUS
  <2> HIDE DEF t
  <2>4. \A k \in 1 .. n' : mem'[home'][start' + k] = t[k]
    <3>1. \A k \in 1 .. n : mem[home][start + k] = t[k]
      BY <2>1
    <3>2. \A k \in 1 .. cmd.val : s[at + k] = t[n + k]
      BY <2>2
    <3>3. start + limit <= Len(mem[home]) /\ TypeOK
      BY <1>1, <1>2
    <3> HIDE DEF x, c, m, mm, w, out, outN
    <3> QED BY <3>1, <3>2, <3>3, CopyRemakes, SMTT(30)
  <2> HIDE DEF w
  <2> QED BY <1>3, <1>4, <2>3, <2>4
<1>6. x + n <= Len(m) /\ x + w <= Len(mm) /\ w \in Nat
  <2> DEFINE l == Len(m)
  <2>1. l \in Nat /\ n + c <= limit /\ x + limit <= l
    BY <1>1, <1>2, LenProperties
  <2> HIDE DEF x, c, l
  <2>2. x + n <= l /\ x + (n + c) <= l /\ n + c \in Nat
    BY <1>1, <1>2, <2>1
  <2> QED BY <1>3, <2>2 DEF l
<1>7. out \in Seq(Byte) /\ Len(out) = n /\ \A j \in 1 .. n : out[j] = m[x + j]
  <2> HIDE DEF x, m
  <2> QED BY <1>1, <1>6, SoFarIs, SMTT(30)
<1>8. outN \in Seq(Byte) /\ Len(outN) = w /\ \A j \in 1 .. w : outN[j] = mm[x + j]
  <2> HIDE DEF x, mm, w
  <2> QED BY <1>1, <1>3, <1>6, SoFarIs, SMTT(30)
<1> HIDE DEF out, outN, m, mm, x
<1>9. BeginsWith(outN, out)
  <2>1. n <= w /\ \A j \in 1 .. n : j \in 1 .. w /\ j <= n
    <3> HIDE DEF c
    <3> QED BY <1>1
  <2> HIDE DEF w
  <2>2. \A j \in 1 .. n : outN[j] = out[j]
    BY <1>5, <1>7, <1>8, <2>1
  <2> QED BY <1>7, <1>8, <2>1, <2>2 DEF BeginsWith
<1>10. \A k \in 1 .. c : s[at + k] = outN[n + k]
  <2> SUFFICES ASSUME NEW k \in 1 .. c PROVE s[at + k] = outN[n + k]
    OBVIOUS
  <2>1. n + k \in 1 .. w /\ ~ (n + k <= n) /\ (n + k) - n = k
    <3> HIDE DEF c
    <3> QED BY <1>1
  <2> HIDE DEF w
  <2> QED BY <1>5, <1>8, <2>1
<1>11. Rebuilds(delta, origin, outN, <<i, n>>, <<i', w>>)
  <2>1. w <= Len(outN)
    BY <1>6, <1>8
  <2> QED BY <1>8, <1>10, <2>1
<1> HIDE DEF w, c
<1>0. PICK T : T = S \cup {<<i, n>>, <<i', w>>}
  OBVIOUS
<1>12. T \in SUBSET Points
  <2>1. <<i, n>> \in Points /\ <<i', w>> \in Points
    BY <1>1, <1>6 DEF Points
  <2> QED BY <1>0, <2>1
<1>13. <<body, 0>> \in T /\ \A z \in S : z = <<i, n>> \/ \E r \in S : Rebuilds(delta, origin, out, z, r)
  BY <1>0, <1>4 DEF Replayed
<1>14. delta \in Seq(Byte)
  BY <1>1 DEF TypeOK
<1>15. \A z \in T : z = <<i', w>> \/ \E r \in T : Rebuilds(delta, origin, outN, z, r)
  <2> SUFFICES ASSUME NEW z \in T, z # <<i', w>> PROVE \E r \in T : Rebuilds(delta, origin, outN, z, r)
    OBVIOUS
  <2>1. CASE z = <<i, n>>
    BY <1>0, <1>11, <2>1
  <2>2. CASE z # <<i, n>>
    <3>1. z \in S /\ z \in Points
      BY <1>0, <2>2
    <3>2. PICK r \in S : Rebuilds(delta, origin, out, z, r)
      BY <1>13, <2>2, <3>1
    <3>3. Rebuilds(delta, origin, outN, z, r)
      <4>1. r \in Points
        OBVIOUS
      <4> QED BY <1>7, <1>8, <1>9, <1>14, <3>1, <3>2, <4>1, RebuildsMore
    <3> QED BY <1>0, <3>2, <3>3
  <2> QED BY <2>1, <2>2
<1>16. Replayed(T, soFar)'
  BY <1>3, <1>4, <1>13, <1>15 DEF Replayed
<1> QED BY <1>12, <1>16

\* Where nothing it speaks of changes it stays.
LEMMA WalkedOverStays ==
    ASSUME UNCHANGED <<delta, sum>>, pc = "plan" \/ pc' # "plan",
           NEW p, WalkedOver(p)
    PROVE  WalkedOver(p)'
  BY DEF WalkedOver

LEMMA ReplayedStays ==
    ASSUME UNCHANGED <<delta, origin, dst, mem, home, n, i, body>>,
           NEW S, Replayed(S, soFar)
    PROVE  Replayed(S, soFar)'
<1>1. soFar' = soFar
  BY DEF soFar, start
<1> QED BY <1>1 DEF Replayed

LEMMA NextMade == ASSUME PlanInv, OutputInv, MadeInv, Next PROVE MadeInv'
<1>1. /\ TypeOK /\ i \in Nat /\ n \in Nat /\ limit \in Nat /\ cmd.val \in Nat /\ cmd.next \in Nat
      /\ total \in Nat /\ ofst.val \in Nat /\ ofst.next \in Nat /\ Len(delta) \in Nat
      /\ delta \in Seq(Byte) /\ origin \in Seq(Byte) /\ Len(origin) \in Nat
      /\ body \in Nat /\ planned \in SUBSET Points
  BY CommandType, LenProperties, WordsNat DEF PlanInv, TypeOK, Points
<1>2. delta' = delta /\ origin' = origin /\ dst' = dst /\ Header' = Header
  BY DEF Next, PlanHeader, PlanCopy, PlanInsert, PlanEnd, PlanUnknown,
     PlanUnterminated, AllocApply, AllocAppendApply, BeginExec, ExecCopy, ExecInsert, ExecEnd,
     Verify, Return, Advance, args, Header
<1>3. At # Colon /\ At # Semi /\ Colon # Semi
  BY CodecAssumption
<1>4. ASSUME NEW e, Return(e), e # "nil" PROVE MadeInv'
  BY <1>4 DEF MadeInv, Return
<1>5. pc # "done" => err = "nil"
  BY DEF OutputInv, ErrorEndsCall
<1>6. CASE PlanHeader
  <2>1. CASE \E e : Return(e) /\ e # "nil"
    BY <1>4, <2>1
  <2>2. CASE ~ \E e : Return(e) /\ e # "nil"
    <3>1. pc = "header" /\ pc' = "plan" /\ body' = Header.next + 1 /\ planned' = planned
      BY <1>6, <2>2 DEF PlanHeader
    <3>2. planned = {}
      BY <3>1 DEF PlanInv, PlanBeginsAtZero
    <3> QED BY <1>2, <3>1, <3>2 DEF MadeInv
  <2> QED BY <2>1, <2>2
\* A command walked over.
<1>7. ASSUME NEW k, Advance(k), pc = "plan", ~ copyUnterminated \/ AtOp(Colon), AtOp(At) \/ AtOp(Colon)
      PROVE  MadeInv'
  <2>1. /\ pc' = "plan" /\ body' = body /\ err' = err /\ UNCHANGED <<delta, sum>>
        /\ planned' = planned \cup {<<i, total>>}
    BY <1>2, <1>7 DEF Advance
  <2>2. ASSUME NEW s \in planned PROVE WalkedOver(s[1])'
    <3>1. WalkedOver(s[1])
      BY <1>7 DEF MadeInv
    <3> QED BY <1>7, <2>1, <3>1, WalkedOverStays
  <2>3. WalkedOver(i)
    BY <1>3, <1>7 DEF WalkedOver, AtOp, HasByte, copyUnterminated, cmd, ofst
  <2>5. ASSUME NEW q, WalkedOver(q) PROVE WalkedOver(q)'
    BY <1>7, <2>1, <2>5, WalkedOverStays
  <2>6. PICK j : j = i
    OBVIOUS
  <2>7. \A s \in planned' : WalkedOver(s[1])'
    <3>1. WalkedOver(j)'
      BY <2>3, <2>5, <2>6
    <3>2. <<j, total>>[1] = j
      OBVIOUS
    <3> QED BY <2>1, <2>2, <2>6, <3>1
  <2> QED BY <1>2, <1>5, <1>7, <2>1, <2>7 DEF MadeInv
<1>8. CASE PlanCopy
  <2>1. CASE \E e : Return(e) /\ e # "nil"
    BY <1>4, <2>1
  <2>2. CASE ~ \E e : Return(e) /\ e # "nil"
    <3>1. pc = "plan" /\ AtOp(At) /\ ~ copyUnterminated /\ Advance(PastCopy)
      BY <1>8, <2>2 DEF PlanCopy
    <3> QED BY <1>7, <3>1
  <2> QED BY <2>1, <2>2
<1>9. CASE PlanInsert
  <2>1. CASE \E e : Return(e) /\ e # "nil"
    BY <1>4, <2>1
  <2>2. CASE ~ \E e : Return(e) /\ e # "nil"
    <3>1. pc = "plan" /\ AtOp(Colon) /\ Advance(PastInsert)
      BY <1>9, <2>2 DEF PlanInsert
    <3> QED BY <1>7, <3>1
  <2> QED BY <2>1, <2>2
<1>10. CASE PlanEnd
  <2>1. CASE \E e : Return(e) /\ e # "nil"
    BY <1>4, <2>1
  <2>2. CASE ~ \E e : Return(e) /\ e # "nil"
    <3>1. /\ pc = "plan" /\ AtOp(Semi) /\ sum' = cmd.val /\ pc' = "alloc" /\ body' = body
          /\ planned' = planned \cup {<<i, total>>} /\ err' = err
      BY <1>10, <2>2 DEF PlanEnd
    <3>2. ASSUME NEW s \in planned PROVE WalkedOver(s[1])'
      <4>1. WalkedOver(s[1])
        BY <3>1 DEF MadeInv
      <4> QED BY <1>2, <3>1, <4>1 DEF WalkedOver
    <3>3. PICK j : j = i
      OBVIOUS
    <3>4. WalkedOver(j)'
      <4>1. /\ delta[decodeInt(delta, j).next + 1] = Semi
            /\ decodeInt(delta, j).val = sum'
        BY <3>1, <3>3 DEF AtOp, HasByte, cmd
      <4> QED BY <1>2, <1>3, <3>1, <4>1 DEF WalkedOver
    <3>5. \A s \in planned' : WalkedOver(s[1])'
      BY <3>1, <3>2, <3>3, <3>4
    <3> QED BY <1>2, <1>5, <3>1, <3>5 DEF MadeInv
  <2> QED BY <2>1, <2>2
<1>11. CASE PlanUnknown \/ PlanUnterminated
  BY <1>4, <1>11 DEF PlanUnknown, PlanUnterminated
<1>12. CASE AllocApply \/ AllocAppendApply
  <2>1. CASE \E e : Return(e) /\ e # "nil"
    BY <1>4, <2>1
  <2>2. CASE ~ \E e : Return(e) /\ e # "nil"
    <3>1. /\ pc = "alloc" /\ pc' = "exec" /\ i' = body /\ n' = 0
          /\ UNCHANGED <<body, planned, sum, delta, err, limit>>
      <4>1. ~ Return("errOutputTooLarge")
        BY <2>2
      <4>2. pc = "alloc" /\ BeginExec
        BY <1>12, <4>1 DEF AllocApply, AllocAppendApply
      <4> QED BY <1>2, <4>2 DEF BeginExec
    <3>2. ASSUME NEW s \in planned PROVE WalkedOver(s[1])'
      <4>1. WalkedOver(s[1])
        BY <3>1 DEF MadeInv
      <4> QED BY <3>1, <4>1, WalkedOverStays
    <3>3. PICK S : S = {<<body, 0>>}
      OBVIOUS
    <3>4. S \in SUBSET Points /\ Replayed(S, soFar)'
      BY <1>1, <3>1, <3>3 DEF Replayed, Points
    <3>5. 0 <= limit
      BY <1>1
    <3> QED BY <1>2, <1>5, <3>1, <3>2, <3>4, <3>5 DEF MadeInv
  <2> QED BY <2>1, <2>2
\* A command replayed.
<1>13. ASSUME pc = "exec", NEW s \in Seq(Byte), NEW at \in Nat, at + cmd.val <= Len(s),
              CopyToOut(s, at), copied = cmd.val, n + cmd.val <= limit, i' \in Nat,
              UNCHANGED <<pc, limit, sum, body, home, err, planned>>,
              \A tgt \in Seq(Byte) :
                 n + cmd.val <= Len(tgt) /\ (\A k \in 1 .. cmd.val : s[at + k] = tgt[n + k])
                   => Rebuilds(delta, origin, tgt, <<i, n>>, <<i', n + cmd.val>>)
       PROVE  MadeInv'
  <2>1. PICK S \in SUBSET Points : Replayed(S, soFar)
    BY <1>13 DEF MadeInv
  <2>2. \E T \in SUBSET Points : Replayed(T, soFar)'
    BY <1>2, <1>13, <2>1, ReplayRebuilds
  <2>3. ASSUME NEW r \in planned PROVE WalkedOver(r[1])'
    <3>1. WalkedOver(r[1])
      BY <1>13 DEF MadeInv
    <3> QED BY <1>2, <1>13, <3>1, WalkedOverStays
  <2>4. n' = n + cmd.val
    BY <1>13 DEF CopyToOut
  <2> QED BY <1>2, <1>5, <1>13, <2>2, <2>3, <2>4 DEF MadeInv
<1>14. ASSUME pc = "exec"
       PROVE  <<i, n>> \in planned /\ CommandOK(i, n, planned) /\ WalkedOver(i)
  BY <1>14 DEF PlanInv, ExecFollowsPlan, MadeInv
<1>15. CASE ExecCopy
  <2>1. /\ pc = "exec" /\ AtOp(At) /\ ofst.val + cmd.val <= Len(origin)
        /\ CopyToOut(origin, ofst.val) /\ i' = PastCopy
        /\ UNCHANGED <<pc, limit, sum, body, home, err, planned>>
    BY <1>15 DEF ExecCopy
  <2>2. delta[cmd.next + 1] = At /\ cmd.next < Len(delta)
    BY <2>1 DEF AtOp, HasByte
  <2>3. copied = cmd.val /\ <<PastCopy, n + cmd.val>> \in planned /\ n + cmd.val <= limit
    <3>1. n + cmd.val <= limit
      BY <1>3, <1>14, <2>1, <2>2 DEF CommandOK, cmd
    <3> QED BY <2>1, <3>1, ReplayedCommand
  <2>4. PastCopy < Len(delta)
    BY <2>1, <2>3 DEF PlanInv, ExecFollowsPlan, CommandOK
  <2>5. ofst.next < Len(delta) /\ PastCopy = ofst.next + 1
    BY <1>1, <2>4 DEF PastCopy
  <2>6. delta[ofst.next + 1] = Comma
    BY <1>14, <2>1, <2>2, <2>5 DEF WalkedOver, cmd, ofst
  <2>7. ASSUME NEW tgt \in Seq(Byte), n + cmd.val <= Len(tgt),
               \A k \in 1 .. cmd.val : origin[ofst.val + k] = tgt[n + k]
        PROVE  Rebuilds(delta, origin, tgt, <<i, n>>, <<i', n + cmd.val>>)
    BY <2>1, <2>2, <2>5, <2>6, <2>7 DEF Rebuilds, cmd, ofst
  <2>8. i' \in Nat
    BY <1>1, <2>1, <2>5
  <2> QED BY <1>1, <1>13, <2>1, <2>3, <2>7, <2>8
<1>16. CASE ExecInsert
  <2>1. /\ pc = "exec" /\ AtOp(Colon) /\ cmd.next + 1 + cmd.val <= Len(delta)
        /\ CopyToOut(delta, cmd.next + 1) /\ i' = PastInsert
        /\ UNCHANGED <<pc, limit, sum, body, home, err, planned>>
    BY <1>16 DEF ExecInsert
  <2>2. delta[cmd.next + 1] = Colon /\ cmd.next < Len(delta)
    BY <2>1 DEF AtOp, HasByte
  <2>3. copied = cmd.val /\ n + cmd.val <= limit
    <3>1. n + cmd.val <= limit
      BY <1>3, <1>14, <2>1, <2>2 DEF CommandOK, cmd
    <3> QED BY <2>1, <3>1, ReplayedCommand
  <2>4. PastInsert = cmd.next + 1 + cmd.val
    BY DEF PastInsert
  <2>7. ASSUME NEW tgt \in Seq(Byte), n + cmd.val <= Len(tgt),
               \A k \in 1 .. cmd.val : delta[cmd.next + 1 + k] = tgt[n + k]
        PROVE  Rebuilds(delta, origin, tgt, <<i, n>>, <<i', n + cmd.val>>)
    BY <2>1, <2>2, <2>4, <2>7 DEF Rebuilds, cmd
  <2>8. i' \in Nat /\ cmd.next + 1 \in Nat
    BY <1>1, <2>1, <2>4
  <2> QED BY <1>1, <1>13, <2>1, <2>3, <2>7, <2>8
<1>17. CASE ExecEnd
  <2>1. /\ pc = "exec" /\ delta[cmd.next + 1] \notin {At, Colon} /\ cmd.next < Len(delta)
        /\ pc' = "verify" /\ UNCHANGED <<limit, sum, body, i, n, mem, home, err, planned>>
    BY <1>17 DEF ExecEnd
  <2>2. delta[cmd.next + 1] = Semi
    BY <1>14, <2>1 DEF CommandOK, cmd
  <2>3. cmd.val = sum
    BY <1>14, <2>1, <2>2 DEF WalkedOver, cmd
  <2>4. cmd' = cmd
    BY <1>2, <2>1 DEF cmd
  <2>5. HasByte(cmd.next, Semi)' /\ cmd'.val = sum'
    BY <1>2, <2>1, <2>2, <2>3, <2>4 DEF HasByte
  <2>6. PICK S \in SUBSET Points : Replayed(S, soFar)
    BY <2>1 DEF MadeInv
  <2>7. Replayed(S, soFar)'
    BY <1>2, <2>1, <2>6, ReplayedStays
  <2>8. n <= limit
    BY <2>1 DEF MadeInv
  <2> QED BY <1>2, <1>5, <2>1, <2>5, <2>7, <2>8 DEF MadeInv
<1>18. CASE Verify
  <2>1. pc = "verify" /\ UNCHANGED <<limit, sum, body, i, n, mem, home>>
    BY <1>18 DEF Verify, Return
  <2>2. CASE checksum(output) # sum
    BY <1>4, <1>18, <2>2 DEF Verify
  <2>3. CASE checksum(output) = sum
    <3>1. pc' = "done" /\ err' = "nil"
      BY <1>18, <2>3 DEF Verify, Return
    <3>2. n = limit
      BY <2>1 DEF PlanInv, FilledAtEnd
    <3>3. soFar = output
      BY <3>2 DEF soFar, output
    <3>4. PICK S \in SUBSET Points : Replayed(S, output)
      BY <2>1, <3>3 DEF MadeInv
    <3>5. output \in Seq(Byte) /\ Len(output) = limit
      <4> DEFINE x == start
                 m == mem[home]
      <4>1. x \in Nat /\ m \in Seq(Byte) /\ x + limit <= Len(m)
        BY <1>1, <2>1, LenProperties DEF TypeOK, start, Dst, OutputInv, RoomForOutput
      <4> HIDE DEF x, m
      <4>2. SubSeq(m, x + 1, x + limit) \in Seq(Byte) /\ Len(SubSeq(m, x + 1, x + limit)) = limit
        BY <1>1, <4>1, SoFarIs
      <4> QED BY <4>2 DEF output, x, m
    <3>6. Ends(delta, output, <<i, n>>)
      <4>1. HasByte(cmd.next, Semi) /\ cmd.val = sum
        BY <2>1 DEF MadeInv
      <4> QED BY <2>3, <3>2, <3>5, <4>1 DEF Ends, HasByte, cmd
    <3>7. /\ Header.next < Len(delta) /\ delta[Header.next + 1] = NewLine
          /\ Header.val = limit /\ body = Header.next + 1
      BY <1>5, <2>1 DEF OutputInv, HeaderHolds, HasByte, MadeInv
    <3>8. Trail(S, delta, origin, output)
      BY <3>4, <3>5, <3>6, <3>7 DEF Trail, Replayed, Header
    <3>9. Describes(delta, origin, output)
      BY <3>8 DEF Describes
    <3>10. output' = output
      BY <1>2, <2>1 DEF output, start
    <3>11. Describes(delta, origin, output)'
      BY <1>2, <3>9, <3>10
    <3>12. body' = Header'.next + 1
      BY <1>2, <2>1, <3>7
    <3> QED BY <3>1, <3>11, <3>12 DEF MadeInv
  <2> QED BY <2>2, <2>3
<1> QED BY <1>6, <1>8, <1>9, <1>10, <1>11, <1>12, <1>15, <1>16, <1>17, <1>18 DEF Next

LEMMA StutterMade == ASSUME MadeInv, UNCHANGED vars PROVE MadeInv'
<1>1. UNCHANGED <<delta, origin, dst, mem, home, n, i, body, limit, sum, pc, err, planned>>
  BY DEF vars, args
<1>2. UNCHANGED <<cmd, Header, output, soFar>> /\ \A p : WalkedOver(p)' = WalkedOver(p)
  BY <1>1 DEF cmd, Header, output, soFar, start, WalkedOver
<1>3. \A S : Replayed(S, soFar)' = Replayed(S, soFar)
  BY <1>1, <1>2 DEF Replayed
<1>4. HasByte(cmd.next, Semi)' = HasByte(cmd.next, Semi)
  BY <1>1, <1>2 DEF HasByte
<1> QED BY <1>1, <1>2, <1>3, <1>4 DEF MadeInv

LEMMA MadeAlways == Spec => []MadeInv
<1>1. Init => MadeInv
  BY InitMade
<1>2. PlanInv /\ OutputInv /\ MadeInv /\ [Next]_vars => MadeInv'
  BY NextMade, StutterMade
<1> QED BY <1>1, <1>2, PlanInvariant, OutputInvariant, PTL DEF Spec

\* What applies is a delta from the source to the output it gave: no other bytes are
\* taken for one (apply.go, Apply).
THEOREM AppliedIsDescribed ==
    Spec => [](pc = "done" /\ err = "nil" => Describes(delta, origin, output))
<1>1. MadeInv => (pc = "done" /\ err = "nil" => Describes(delta, origin, output))
  BY DEF MadeInv
<1> QED BY <1>1, MadeAlways, PTL

(***************************************************************************)
(* Decoder and delta.c take the same bytes for a delta, and make the same  *)
(* bytes of it.                                                            *)
(***************************************************************************)

\* Whatever the delta describes, the call follows it.
FollowsAll ==
    \A src, tgt \in Seq(Byte) : Describes(delta, src, tgt) => Follows(src, tgt)

LEMMA FollowsAllAlways == Spec => []FollowsAll
<1>1. Init => FollowsAll
  BY InitFollows DEF FollowsAll
<1>2. ASSUME PlanInv, OutputInv, FollowsAll, [Next]_vars PROVE FollowsAll'
  <2>1. delta' = delta
    BY <1>2 DEF vars, args, Next, PlanHeader, PlanCopy, PlanInsert, PlanEnd, PlanUnknown,
       PlanUnterminated, AllocApply, AllocAppendApply, BeginExec, ExecCopy, ExecInsert, ExecEnd,
       Verify, Return, Advance
  <2> SUFFICES ASSUME NEW src \in Seq(Byte), NEW tgt \in Seq(Byte), Describes(delta, src, tgt)
               PROVE  Follows(src, tgt)'
    BY <2>1 DEF FollowsAll
  <2>2. Follows(src, tgt)
    BY <1>2 DEF FollowsAll
  <2>3. CASE Next
    BY <1>2, <2>2, <2>3, NextFollows
  <2>4. CASE UNCHANGED vars
    BY <2>2, <2>4, StutterFollows
  <2> QED BY <1>2, <2>3, <2>4
<1> QED BY <1>1, <1>2, PlanInvariant, OutputInvariant, PTL DEF Spec

LEMMA OutputType ==
    ASSUME OutputInv, pc = "done", err = "nil"
    PROVE  output \in Seq(Byte)
<1> DEFINE x == start
           m == mem[home]
<1>1. x \in Nat /\ m \in Seq(Byte) /\ x + limit <= Len(m) /\ limit \in Nat
  BY LenProperties, WordsNat DEF TypeOK, start, Dst, OutputInv, RoomForOutput
<1> HIDE DEF x, m
<1>2. SubSeq(m, x + 1, x + limit) \in Seq(Byte)
  BY <1>1, SoFarIs
<1> QED BY <1>2 DEF output, x, m

\* "Anything delta.c accepts, this package accepts and produces the same bytes for", of
\* every source and delta whose lengths an int holds, with whatever commands, whatever
\* becomes of dst; and so, among these, nothing that is rejected here is tolerated there
\* (cref_test.go, TestCRef_ApplyAgreesOnMalformed).
THEOREM AcceptsAsDeltaC == Spec => []AcceptsWhatDeltaCAccepts
<1>1. TypeOK /\ FollowsAll => AcceptsWhatDeltaCAccepts
  <2> SUFFICES ASSUME TypeOK, FollowsAll, pc = "done", Comparable, err # "errOutputTooLarge",
                      cref_Apply(origin, delta).ok
               PROVE  err = "nil" /\ output = cref_Apply(origin, delta).out
    BY DEF AcceptsWhatDeltaCAccepts
  <2>1. origin \in Seq(Byte) /\ delta \in Seq(Byte)
    BY DEF TypeOK
  <2>2. cref_Apply(origin, delta) = delta_apply(origin, delta)
    BY DEF cref_Apply, Rejected, TooLarge, Stopped
  <2>3. PICK src, tgt : src = origin /\ tgt = delta_apply(origin, delta).out
    OBVIOUS
  <2>4. src \in Seq(Byte) /\ tgt \in Seq(Byte) /\ Describes(delta, src, tgt)
    <3>1. delta_apply(origin, delta).ok
      BY <2>2
    <3>2. Len(origin) < Word \div 2 /\ Len(delta) < Word \div 2
      BY DEF Comparable, intHolds
    <3> QED BY <2>1, <2>3, <3>1, <3>2, ReadByCIsDescribed
  <2>5. Follows(src, tgt)
    BY <2>4 DEF FollowsAll
  <2> QED BY <2>2, <2>3, <2>5 DEF Follows, Remade, Outcome
<1> QED BY <1>1, TypeInvariant, FollowsAllAlways, PTL

\* "delta.c rejected it. We must reject it too": what applies here applies there, to the
\* same bytes, when the lengths of the source and of the delta are ints and the output is
\* one the harness makes room for (cref_test.go, TestCRef_ApplyAgreesOnMalformed).
THEOREM RejectsAsDeltaC == Spec => []RejectsWhatDeltaCRejects
<1>1. OutputInv /\ MadeInv => RejectsWhatDeltaCRejects
  <2> SUFFICES ASSUME OutputInv, MadeInv, pc = "done", err = "nil", Comparable,
                      delta_output_size(delta) \in 0 .. maxHarnessOutput
               PROVE  cref_Apply(origin, delta) = Accepted(output)
    BY DEF RejectsWhatDeltaCRejects
  <2>1. origin \in Seq(Byte) /\ delta \in Seq(Byte) /\ output \in Seq(Byte)
    BY OutputType DEF OutputInv, TypeOK
  <2>2. Describes(delta, origin, output)
    BY DEF MadeInv
  <2>3. Len(origin) < Word \div 2 /\ Len(delta) < Word \div 2
    BY DEF Comparable, intHolds
  <2> DEFINE g == decodeInt(delta, 0)
             v == g.val
             size == delta_output_size(delta)
  <2>4. size \in Nat /\ size <= maxHarnessOutput
    BY HarnessAssumption
  <2>5. v = Len(output) /\ ~ (g.next >= Len(delta)) /\ delta[g.next + 1] = NewLine
    <3>1. PICK S \in SUBSET Points : Trail(S, delta, origin, output)
      BY <2>2 DEF Describes
    <3>2. g.next < Len(delta) /\ delta[g.next + 1] = NewLine /\ v = Len(output)
      BY <3>1 DEF Trail
    <3>3. g.next \in Nat /\ Len(delta) \in Nat
      BY <2>1, decodeIntType, LenProperties
    <3> QED BY <3>2, <3>3
  <2>6. size = signed(v)
    <3>1. passed(delta) = delta /\ getInt(delta, 0) = g
      BY <2>1, <2>3, passedIs, getIntIs
    <3> HIDE DEF g
    <3> QED BY <2>5, <3>1 DEF delta_output_size
  <2>7. v \in Nat /\ v < Word /\ Word \in Nat
    <3>1. v \in Words
      BY <2>1, decodeIntType
    <3> QED BY <3>1, CodecAssumption DEF Words
  <2>8. Len(output) < Word \div 2
    <3> HIDE DEF v, size
    <3>1. v < Word \div 2
      BY <2>4, <2>6, <2>7 DEF signed
    <3> QED BY <2>5, <3>1
  <2>9. delta_apply(origin, delta) = Accepted(output)
    BY <2>1, <2>2, <2>3, <2>8, DescribedIsReadByC
  <2>10. ~ (size < 0) /\ ~ (size > maxHarnessOutput)
    <3> HIDE DEF size
    <3> QED BY <2>4, HarnessAssumption
  <2> QED BY <2>9, <2>10 DEF cref_Apply
<1> QED BY <1>1, OutputInvariant, MadeAlways, PTL

(***************************************************************************)
(* Decoder and the JavaScript decoder.                                     *)
(***************************************************************************)

\* A browser makes the same bytes of whatever applies here, trailing bytes and overlong
\* numbers included, where digits and operators are ASCII
\* (jsref_test.go, TestJSRef_ArbitraryValidDeltas).
THEOREM BrowsersReadAlways == ASSUME AsciiFormat PROVE Spec => []BrowsersReadWhatApplies
<1>1. OutputInv /\ MadeInv => BrowsersReadWhatApplies
  <2> SUFFICES ASSUME OutputInv, MadeInv, pc = "done", err = "nil"
               PROVE  applyDelta(origin, delta) = Accepted(output)
    BY DEF BrowsersReadWhatApplies
  <2>1. origin \in Seq(Byte) /\ delta \in Seq(Byte) /\ output \in Seq(Byte)
    BY OutputType DEF OutputInv, TypeOK
  <2>2. Describes(delta, origin, output)
    BY DEF MadeInv
  <2> QED BY <2>1, <2>2, DescribedIsReadByJS
<1> QED BY <1>1, OutputInvariant, MadeAlways, PTL

\* Of the deltas without high bytes a browser applies none that is malformed here, for
\* any digits and operators (apply.go: planApply).
THEOREM BrowsersRejectAlways == Spec => []BrowsersRejectWhatIsMalformed
<1>1. TypeOK /\ FollowsAll => BrowsersRejectWhatIsMalformed
  <2> SUFFICES ASSUME TypeOK, FollowsAll, err \in InvalidErrs, err # "errOutputTooLarge",
                      \A k \in 1 .. Len(delta) : delta[k] < ASCII,
                      applyDelta(origin, delta).ok
               PROVE  FALSE
    BY DEF BrowsersRejectWhatIsMalformed
  <2>1. origin \in Seq(Byte) /\ delta \in Seq(Byte) /\ Low(delta)
    BY DEF TypeOK, Low, ASCII
  <2>2. PICK src, tgt : src = origin /\ tgt = applyDelta(origin, delta).out
    OBVIOUS
  <2>3. src \in Seq(Byte) /\ tgt \in Seq(Byte) /\ Describes(delta, src, tgt)
    BY <2>1, <2>2, ReadByJSIsDescribed
  <2>4. Follows(src, tgt)
    BY <2>3 DEF FollowsAll
  <2>5. err = "nil"
    BY <2>2, <2>4 DEF Follows, Outcome
  <2> QED BY <2>5 DEF InvalidErrs
<1> QED BY <1>1, TypeInvariant, FollowsAllAlways, PTL
=============================================================================
