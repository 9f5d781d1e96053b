-------------------------- MODULE DecoderAgainstJS --------------------------
(***************************************************************************)
(* Decoder held against the JavaScript decoder, call by call.              *)
(***************************************************************************)
EXTENDS Decoder, DeltaJS

\* "Deltas built from arbitrary valid commands, which this encoder would never emit, must
\* also read correctly there" (jsref_test.go, TestJSRef_ArbitraryValidDeltas): a browser
\* has the same bytes from whatever applies here, trailing bytes and overlong numbers
\* included.
BrowsersReadWhatApplies ==
    pc = "done" /\ err = "nil" => applyDelta(origin, delta) = Accepted(output)

\* The other way round it takes a byte above 0x7f: of all other deltas a browser applies
\* none that is malformed here (apply.go: planApply), although it checks an insert's
\* count against another length and steps back over the end of a number.
ASCII == ByteCard \div 2

BrowsersRejectWhatIsMalformed ==
    pc = "done" /\ err \in InvalidErrs \ {"errOutputTooLarge"}
        /\ (\A k \in 1 .. Len(delta) : delta[k] < ASCII) =>
        ~ applyDelta(origin, delta).ok

\* codec.go of a table of 128 digits: with one "a delta holding high bytes where a number
\* belongs would parse differently here than anywhere else".  With the table of 256 it
\* does not: what applies in a browser applies here.
ParsesAsAnywhereElse ==
    pc = "done" /\ applyDelta(origin, delta).ok =>
        err \in {"nil", "errOutputTooLarge"}
=============================================================================
