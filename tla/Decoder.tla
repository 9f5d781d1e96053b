------------------------------ MODULE Decoder ------------------------------
(***************************************************************************)
(* One call of Apply or AppendApply (apply.go), from the bytes of a delta  *)
(* that may come from anywhere to an output or an error.                   *)
(*                                                                         *)
(* The call makes two passes over the delta.  planApply walks the commands *)
(* and checks every count, producing nothing; execApply walks them again   *)
(* and copies, checking nothing.  Between the two passes nothing is handed *)
(* over but the declared size, the checksum and the index of the first     *)
(* command: the second pass parses the delta anew and relies on the first  *)
(* having walked over exactly the same commands.  pc names the pass; each  *)
(* action is one iteration of its loop.                                    *)
(*                                                                         *)
(* An index or slice out of range is a run-time panic in Go.  ExecFaults   *)
(* says when the next iteration of execApply would meet one; no action is  *)
(* enabled then.                                                           *)
(***************************************************************************)
EXTENDS Codec

CONSTANTS Origins,    \* the sources
          Deltas,     \* the deltas, well formed or not
          Dsts,       \* AppendApply's dst: its backing array and its length
          MaxInt      \* the largest int: 2^31 - 1 or 2^63 - 1

Dst == [arr : Seq(Byte), len : Nat]

ASSUME DecoderAssumption ==
    /\ Origins \subseteq Seq(Byte)
    /\ Deltas \subseteq Seq(Byte)
    /\ Dsts \subseteq Dst /\ \A d \in Dsts : d.len <= Len(d.arr)
    /\ MaxInt \in Nat

VARIABLES
    api, origin, delta, dst,   \* the call and its arguments
    pc,
    limit, sum, body,          \* what planApply returns
    i, total,                  \* planApply's and execApply's index; planApply's total
    n,                         \* bytes execApply has produced
    mem,                       \* the two arrays the output can be written to
    home,                      \* the one it is written to
    err,                       \* the error returned, "nil" for none
    planned                    \* history: <<i, total>> of each command planApply passed

args == <<api, origin, delta, dst>>
vars == <<api, origin, delta, dst, pc, limit, sum, body, i, total, n, mem, home,
          err, planned>>

InvalidErrs == {"errSizeTerminator", "errCopyTerminator", "errCopyExceedsSize",
                "errCopyPastSource", "errInsertExceeds", "errInsertPastDelta",
                "errSizeMismatch", "errUnknownOperator", "errUnterminated",
                "errOutputTooLarge"}
Errs == InvalidErrs \cup {"nil", "ErrChecksumMismatch"}

start == dst.len
zeros(k) == [j \in 1 .. k |-> 0]

TypeOK ==
    /\ api \in {"Apply", "AppendApply"}
    /\ origin \in Seq(Byte) /\ delta \in Seq(Byte) /\ dst \in Dst
    /\ start <= Len(dst.arr)
    /\ pc \in {"header", "plan", "alloc", "exec", "verify", "done"}
    /\ limit \in Words /\ sum \in Words /\ body \in Nat
    /\ i \in Nat /\ total \in Nat /\ n \in Nat
    /\ mem \in [{"caller", "fresh"} -> Seq(Byte)]
    /\ home \in {"caller", "fresh"}
    /\ err \in Errs
    /\ planned \in SUBSET (Nat \X Nat)

\* Nothing has been read, made or returned yet.
Fresh ==
    /\ \/ api = "Apply" /\ dst = [arr |-> <<>>, len |-> 0]
       \/ api = "AppendApply" /\ dst \in Dsts
    /\ limit = 0 /\ sum = 0 /\ body = 0 /\ i = 0 /\ total = 0 /\ n = 0
    /\ mem = [a \in {"caller", "fresh"} |-> IF a = "caller" THEN dst.arr ELSE <<>>]
    /\ home = "caller" /\ err = "nil" /\ planned = {}

Init == origin \in Origins /\ delta \in Deltas /\ pc = "header" /\ Fresh

Return(e) ==
    /\ pc' = "done" /\ err' = e
    /\ UNCHANGED <<args, limit, sum, body, i, total, n, mem, home, planned>>

HasByte(k, c) == k < Len(delta) /\ delta[k + 1] = c

-----------------------------------------------------------------------------
(* OutputSize: the size a delta declares, from its header alone.           *)

\* Mutant: digits beyond the width of the number are kept instead of wrapping.
OutputSizeUnwrapped(d) ==
    LET end == digitsEnd(d, 0)
        v[k \in 0 .. end] ==
            IF k = 0 THEN 0 ELSE v[k - 1] * Radix + decodeDigit[d[k]]
    IN  IF end >= Len(d) \/ d[end + 1] # NewLine
        THEN [size |-> 0, err |-> "errSizeTerminator"]
        ELSE [size |-> v[end], err |-> "nil"]

OutputSize(d) ==
    LET h == decodeInt(d, 0)
    IN  CASE h.next >= Len(d) -> [size |-> 0, err |-> "errSizeTerminator"]
          [] h.next < Len(d) /\ d[h.next + 1] # NewLine ->
                 [size |-> 0, err |-> "errSizeTerminator"]
          [] h.next < Len(d) /\ d[h.next + 1] = NewLine /\ h.val > MaxInt ->
                 [size |-> 0, err |-> "errOutputTooLarge"]
          [] OTHER -> [size |-> h.val, err |-> "nil"]

-----------------------------------------------------------------------------
(* planApply                                                               *)

Header == decodeInt(delta, 0)

\* Mutant: the output is allocated on the header's word, before the commands
\* have been checked.
PlanHeaderAllocates ==
    /\ pc = "header"
    /\ IF HasByte(Header.next, NewLine)
       THEN /\ limit' = Header.val
            /\ body' = Header.next + 1 /\ i' = Header.next + 1
            /\ mem' = [mem EXCEPT !["fresh"] = zeros(Header.val)]
            /\ pc' = "plan"
            /\ UNCHANGED <<args, sum, total, n, home, err, planned>>
       ELSE Return("errSizeTerminator")

PlanHeader ==
    /\ pc = "header"
    /\ \/ ~ HasByte(Header.next, NewLine) /\ Return("errSizeTerminator")
       \/ HasByte(Header.next, NewLine) /\ Header.val > MaxInt /\ Return("errOutputTooLarge")
       \/ /\ HasByte(Header.next, NewLine) /\ Header.val <= MaxInt
          /\ limit' = Header.val
          /\ body' = Header.next + 1 /\ i' = Header.next + 1
          /\ pc' = "plan"
          /\ UNCHANGED <<args, sum, total, n, mem, home, err, planned>>

\* The number at i and, after a copy's '@', the offset that follows it.
cmd == decodeInt(delta, i)
ofst == decodeInt(delta, cmd.next + 1)

\* i is at a complete number followed by the operator op.
AtOp(op) == i < Len(delta) /\ HasByte(cmd.next, op)

\* Past a copy's comma.  It is one past the end when the delta stops after the
\* offset: the loop then ends on an unterminated delta.
PastCopyStays == cmd.next
PastCopy == ofst.next + 1

PastInsert == cmd.next + 1 + cmd.val

\* The running total is 64 bits wide and cannot wrap.
\* Mutant: it is as wide as the counts.
totalAfter32 == (total + cmd.val) % Word
totalAfter == total + cmd.val

copyUnterminatedNever == FALSE
copyUnterminated == ofst.next < Len(delta) /\ delta[ofst.next + 1] # Comma

\* Offset and count are added in 64 bits.
\* Mutants: they are added in 32; the offset is forgotten; an off-by-one.
copyPastSource32 == (ofst.val + cmd.val) % Word > Len(origin)
copyPastSourceCount == cmd.val > Len(origin)
copyPastSourceStrict == ofst.val + cmd.val >= Len(origin)
copyPastSource == ofst.val + cmd.val > Len(origin)

\* The count is held against the bytes left in the delta.
insertPastDelta == cmd.next + 1 + cmd.val > Len(delta)

Advance(k) ==
    /\ i' = k /\ total' = totalAfter
    /\ planned' = planned \cup {<<i, total>>}
    /\ UNCHANGED <<args, pc, limit, sum, body, n, mem, home, err>>

PlanCopy ==
    /\ pc = "plan" /\ AtOp(At)
    /\ \/ copyUnterminated /\ Return("errCopyTerminator")
       \/ ~ copyUnterminated /\ totalAfter > limit /\ Return("errCopyExceedsSize")
       \/ ~ copyUnterminated /\ totalAfter <= limit /\ copyPastSource
             /\ Return("errCopyPastSource")
       \/ ~ copyUnterminated /\ totalAfter <= limit /\ ~ copyPastSource
             /\ Advance(PastCopy)

PlanInsert ==
    /\ pc = "plan" /\ AtOp(Colon)
    /\ \/ totalAfter > limit /\ Return("errInsertExceeds")
       \/ totalAfter <= limit /\ insertPastDelta /\ Return("errInsertPastDelta")
       \/ totalAfter <= limit /\ ~ insertPastDelta /\ Advance(PastInsert)

PlanEnd ==
    /\ pc = "plan" /\ AtOp(Semi)
    /\ \/ total # limit /\ Return("errSizeMismatch")
       \/ /\ total = limit
          /\ sum' = cmd.val
          /\ pc' = "alloc"
          /\ planned' = planned \cup {<<i, total>>}
          /\ UNCHANGED <<args, limit, body, i, total, n, mem, home, err>>

PlanUnknown ==
    /\ pc = "plan" /\ i < Len(delta) /\ cmd.next < Len(delta)
    /\ delta[cmd.next + 1] \notin {At, Colon, Semi}
    /\ Return("errUnknownOperator")

PlanUnterminated ==
    /\ pc = "plan"
    /\ i >= Len(delta) \/ cmd.next >= Len(delta)
    /\ Return("errUnterminated")

-----------------------------------------------------------------------------
(* The output: Apply's make, AppendApply's slices.Grow.                    *)

BeginExec ==
    /\ pc' = "exec" /\ i' = body /\ n' = 0
    /\ UNCHANGED <<args, limit, sum, body, total, err, planned>>

\* Apply: a new array of the declared size.
AllocApply ==
    /\ pc = "alloc" /\ api = "Apply"
    /\ mem' = [mem EXCEPT !["fresh"] = zeros(limit)]
    /\ home' = "fresh"
    /\ BeginExec

\* Mutant: the length the output is grown to is not checked.
tooLongUnchecked == FALSE
tooLong == limit > MaxInt - start

\* AppendApply: dst's own array when its spare capacity is enough, else a new
\* one that takes over everything dst's array holds.
AllocAppendApply ==
    /\ pc = "alloc" /\ api = "AppendApply"
    /\ \/ tooLong /\ Return("errOutputTooLarge")
       \/ /\ ~ tooLong
          /\ start + limit <= Len(dst.arr)
          /\ home' = "caller" /\ mem' = mem
          /\ BeginExec
       \/ /\ ~ tooLong
          /\ start + limit > Len(dst.arr)
          /\ home' = "fresh"
          /\ mem' = [mem EXCEPT !["fresh"] = dst.arr \o zeros(start + limit - Len(dst.arr))]
          /\ BeginExec

-----------------------------------------------------------------------------
(* execApply                                                               *)

\* Where byte k of the output is written.  Mutant: over dst's own bytes.
outAtFront(k) == k
outAt(k) == start + k

\* copy(out[n:], src[at:at+cnt]): Go's copy stops silently at the end of out.
copied == IF cmd.val <= limit - n THEN cmd.val ELSE limit - n

CopyToOut(src, at) ==
    /\ mem' = [mem EXCEPT ![home] =
                 [k \in 1 .. Len(mem[home]) |->
                    IF outAt(n) < k /\ k <= outAt(n) + copied
                    THEN src[at + k - outAt(n)] ELSE mem[home][k]]]
    /\ n' = n + copied

ExecCopy ==
    /\ pc = "exec" /\ AtOp(At)
    /\ ofst.val + cmd.val <= Len(origin)
    /\ CopyToOut(origin, ofst.val)
    /\ i' = PastCopy
    /\ UNCHANGED <<args, pc, limit, sum, body, total, home, err, planned>>

ExecInsert ==
    /\ pc = "exec" /\ AtOp(Colon)
    /\ cmd.next + 1 + cmd.val <= Len(delta)
    /\ CopyToOut(delta, cmd.next + 1)
    /\ i' = PastInsert
    /\ UNCHANGED <<args, pc, limit, sum, body, total, home, err, planned>>

\* Any operator but '@' and ':' ends the replay.
ExecEnd ==
    /\ pc = "exec" /\ i < Len(delta) /\ cmd.next < Len(delta)
    /\ delta[cmd.next + 1] \notin {At, Colon}
    /\ pc' = "verify"
    /\ UNCHANGED <<args, limit, sum, body, i, total, n, mem, home, err, planned>>

\* The delta is indexed past its end, or origin or delta sliced past theirs:
\* where execApply would panic.
ExecFaults ==
    \/ i >= Len(delta) \/ cmd.next >= Len(delta)
    \/ AtOp(At) /\ ofst.val + cmd.val > Len(origin)
    \/ AtOp(Colon) /\ cmd.next + 1 + cmd.val > Len(delta)

-----------------------------------------------------------------------------
(* The checksum, and the return.                                           *)

output == SubSeq(mem[home], start + 1, start + limit)

Verify ==
    /\ pc = "verify"
    /\ IF checksum(output) # sum THEN Return("ErrChecksumMismatch") ELSE Return("nil")

Next ==
    \/ PlanHeader \/ PlanCopy \/ PlanInsert \/ PlanEnd \/ PlanUnknown \/ PlanUnterminated
    \/ AllocApply \/ AllocAppendApply
    \/ ExecCopy \/ ExecInsert \/ ExecEnd
    \/ Verify

Spec == Init /\ [][Next]_vars

\* The call runs on until it returns: nothing it does can block.
FairSpec == Spec /\ WF_vars(Next)

-----------------------------------------------------------------------------
(* What must hold.                                                         *)

\* CommandOK(p, t, S): the delta has a command at position p that keeps, from a
\* total of t, within the declared size, the source and the delta, and S goes
\* on with the position and the total after it.
CommandOK(p, t, S) ==
    LET c == decodeInt(delta, p)
        o == decodeInt(delta, c.next + 1)
    IN  /\ p < Len(delta) /\ c.next < Len(delta)
        /\ \/ delta[c.next + 1] = Semi /\ t = limit
           \/ /\ delta[c.next + 1] = At
              /\ t + c.val <= limit /\ o.val + c.val <= Len(origin)
              /\ <<o.next + 1, t + c.val>> \in S
           \/ /\ delta[c.next + 1] = Colon
              /\ t + c.val <= limit /\ c.next + 1 + c.val <= Len(delta)
              /\ <<c.next + 1 + c.val, t + c.val>> \in S

\* execApply checks nothing and parses the delta anew: it runs only commands that
\* planApply has walked over, each with as much output before it as planApply
\* counted (apply.go: planApply, execApply).
ExecFollowsPlan ==
    /\ pc = "plan" =>
          /\ <<body, 0>> \in planned \cup {<<i, total>>}
          /\ \A s \in planned : CommandOK(s[1], s[2], planned \cup {<<i, total>>})
    /\ pc \in {"alloc", "exec"} =>
          /\ <<body, 0>> \in planned
          /\ \A s \in planned : CommandOK(s[1], s[2], planned)
    /\ pc = "exec" => <<i, n>> \in planned

\* Neither pass stands still, and neither reads on past the delta's end: the reason why
\* every call returns (apply.go: planApply, execApply).
IterationsAdvance == [][pc' = pc => i < Len(delta) /\ i' > i]_vars

\* "Apply never panics, whatever the delta contains" (apply.go, Apply).
NeverPanics == pc = "exec" => ~ ExecFaults

\* The output is neither cut short nor left with bytes nobody wrote: not one copy
\* is truncated, and all of it is filled when its checksum is taken (apply.go:
\* execApply).
OutputFilledExactly ==
    /\ pc = "exec" => n <= limit
    /\ pc = "exec" /\ i < Len(delta) /\ (AtOp(At) \/ AtOp(Colon)) => copied = cmd.val
    /\ pc = "verify" => n = limit

\* Whatever happens, dst[:len(dst)] is never written to (apply.go, AppendApply).
DstUntouched == SubSeq(mem["caller"], 1, start) = SubSeq(dst.arr, 1, start)

\* "A malformed delta is rejected before a single byte is written", and without
\* allocating anything (apply.go, Apply and AppendApply).
RejectedBeforeWriting ==
    err \in InvalidErrs => mem = [mem EXCEPT !["caller"] = dst.arr, !["fresh"] = <<>>]

\* Where an int is 32 bits, no output is grown to a length an int cannot hold:
\* slices.Grow would panic (apply.go, AppendApply).
LengthFitsInt == pc = "exec" => start + limit <= MaxInt

\* "Apply is guaranteed not to exceed what OutputSize reported" (doc.go): when a delta
\* applies, OutputSize reports the size of the output, exactly.
OutputSizeIsExact ==
    pc = "done" /\ err = "nil" =>
        /\ OutputSize(delta).err = "nil"
        /\ OutputSize(delta).size = Len(output)

\* Every call returns.
Returns == <>(pc = "done")
=============================================================================
