------------------------------ MODULE Transfer ------------------------------
(***************************************************************************)
(* What Create and Apply promise together: a target described against one  *)
(* source is had again from that source, whatever it is, and from another  *)
(* source nothing is had, or at most bytes of the same length and checksum *)
(* ("such as two values swapped four bytes apart", apply.go).              *)
(***************************************************************************)
EXTENDS Codec

VARIABLES want,     \* the target
          same,     \* the delta is applied to the source it was created from
          got,      \* what the receiver ends up with
          status

tvars == <<want, same, got, status>>

TInit == want \in Seq(Byte) /\ same \in BOOLEAN /\ got = <<>> /\ status = "pending"

Deliver ==
    /\ status = "pending" /\ status' = "ok"
    /\ got' = want
    /\ UNCHANGED <<want, same>>

Mistake ==
    /\ status = "pending" /\ status' = "ok"
    /\ ~ same
    /\ Len(got') = Len(want) /\ checksum(got') = checksum(want)
    /\ UNCHANGED <<want, same>>

Refuse ==
    /\ status = "pending" /\ status' = "refused"
    /\ ~ same
    /\ UNCHANGED <<want, same, got>>

TNext == Deliver \/ Mistake \/ Refuse

TSpec == TInit /\ [][TNext]_tvars /\ WF_tvars(TNext)
=============================================================================
