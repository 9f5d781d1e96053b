---------------------------- MODULE DeltaMeaning ----------------------------
(***************************************************************************)
(* What a delta means, without saying how it is read or written: it is a   *)
(* header, commands each of which adds the next bytes of the target, and   *)
(* the target's checksum.  It is what the code that writes deltas and the  *)
(* code that reads them have in common.                                    *)
(*                                                                         *)
(* A point is a position in the delta and how much of the target has been  *)
(* rebuilt before it.                                                      *)
(***************************************************************************)
EXTENDS Codec

Points == Nat \X Nat

\* The command at point s of d adds bytes of tgt, taken out of src or given in d, and
\* leads to point r.
Rebuilds(d, src, tgt, s, r) ==
    LET c == decodeInt(d, s[1])
        o == decodeInt(d, c.next + 1)
    IN  /\ c.next < Len(d)
        /\ r[2] = s[2] + c.val /\ r[2] <= Len(tgt)
        /\ \/ /\ d[c.next + 1] = At
              /\ o.next < Len(d) /\ d[o.next + 1] = Comma /\ r[1] = o.next + 1
              /\ o.val + c.val <= Len(src)
              /\ \A k \in 1 .. c.val : src[o.val + k] = tgt[s[2] + k]
           \/ /\ d[c.next + 1] = Colon
              /\ r[1] = c.next + 1 + c.val /\ r[1] <= Len(d)
              /\ \A k \in 1 .. c.val : d[c.next + 1 + k] = tgt[s[2] + k]

\* b is commands, and nothing else, that rebuild tgt.
Commands(b, src, tgt) ==
    \E S \in SUBSET Points :
        /\ <<0, 0>> \in S
        /\ \A s \in S : \/ s = <<Len(b), Len(tgt)>>
                        \/ \E r \in S : Rebuilds(b, src, tgt, s, r)

\* d ends at point s, with all of tgt rebuilt and its checksum.
Ends(d, tgt, s) ==
    LET c == decodeInt(d, s[1])
    IN  /\ c.next < Len(d) /\ d[c.next + 1] = Semi
        /\ c.val = checksum(tgt) /\ s[2] = Len(tgt)

\* Reading d from its start goes through the points of S and ends.
Trail(S, d, src, tgt) ==
    LET h == decodeInt(d, 0)
    IN  /\ h.next < Len(d) /\ d[h.next + 1] = NewLine /\ h.val = Len(tgt)
        /\ <<h.next + 1, 0>> \in S
        /\ \A s \in S : Ends(d, tgt, s) \/ \E r \in S : Rebuilds(d, src, tgt, s, r)

\* d is a delta from src to tgt.
Describes(d, src, tgt) == \E S \in SUBSET Points : Trail(S, d, src, tgt)
=============================================================================
