--------------------------- MODULE DecoderAgainstC ---------------------------
(***************************************************************************)
(* Decoder held against delta.c, call by call.                             *)
(***************************************************************************)
EXTENDS Decoder, DeltaC

\* delta.c takes its lengths as ints, and the two are compared within them: given a
\* source of half a word and more it has no bound for its copies.
Comparable == intHolds(origin) /\ intHolds(delta)

\* cref_test.go, TestCRef_ApplyAgreesOnMalformed: "anything delta.c accepts, this package
\* accepts and produces the same bytes for. This package may be stricter, and is, on
\* malformed input that delta.c happens to tolerate."  The first sentence is what is
\* stated here, save for an output that an int of Go's cannot index, and it leaves the
\* second nothing to speak of: whatever is rejected here is rejected there.
AcceptsWhatDeltaCAccepts ==
    pc = "done" /\ Comparable /\ err # "errOutputTooLarge" =>
        LET ref == cref_Apply(origin, delta)
        IN  ref.ok => err = "nil" /\ output = ref.out

\* "delta.c rejected it. We must reject it too": what applies here applies there,
\* to the same bytes (cref_test.go, TestCRef_ApplyAgreesOnMalformed), unless the size it
\* declares is no int or more than the harness makes room for.
RejectsWhatDeltaCRejects ==
    /\ pc = "done" /\ err = "nil" /\ Comparable
    /\ delta_output_size(delta) \in 0 .. maxHarnessOutput
    => cref_Apply(origin, delta) = Accepted(output)

\* errors.go: ErrInvalidDelta "reports that a delta is not well formed".  A delta
\* the reference applies to this very source is well formed.
InvalidMeansMalformed ==
    err \in InvalidErrs => ~ cref_Apply(origin, delta).ok
=============================================================================
