----------------------------- MODULE RoundTrip -----------------------------
(***************************************************************************)
(* AppendCreate on one side, Apply or AppendApply on the other: the steps  *)
(* of Encoder, the bytes it leaves handed over, the steps of Decoder.  Or  *)
(* the delta comes from Fossil's own delta_create.                         *)
(*                                                                         *)
(* The receiver applies the delta to held, which should be the source the  *)
(* delta was created from, and may be another.                             *)
(***************************************************************************)
EXTENDS DeltaCreateC

CONSTANTS Pairs, Leftover, maxCandidates,    \* Encoder's
          Dsts, MaxInt,                      \* Decoder's
          HeldFor(_)   \* the sources the receiver of a delta against one may hold

VARIABLES
    origin, target, delta, created,     \* created is Encoder's pc
    collide, landmark, blk, base, w, h, next, tries, best,
    held, api, dst, applied,            \* applied is Decoder's pc, "idle" at first
    limit, sum, body, i, total, n, mem, home, err, planned

encoding == <<origin, target, created, collide, landmark, blk, base, w, h, next,
              tries, best>>
decoding == <<held, api, dst, applied, limit, sum, body, i, total, n, mem, home, err,
              planned>>
vars == <<delta, encoding, decoding>>

Enc == INSTANCE Encoder WITH dst <- delta, pc <- created, i <- w, limit <- tries

Dec == INSTANCE Decoder WITH origin <- held, pc <- applied,
                             Origins <- {}, Deltas <- {}

Init ==
    /\ Enc!Init
    /\ held \in HeldFor(origin)
    /\ api \in {"Apply", "AppendApply"}
    /\ dst \in Dsts \cup {[arr |-> <<>>, len |-> 0]}
    /\ applied = "idle" /\ Dec!Fresh

\* The inputs are byte strings the format can describe, and an int holds the length of
\* what they come to.
ASSUME RoundTripAssumption ==
    /\ Pairs \subseteq Seq(Byte) \X Seq(Byte)
    /\ \A p \in Pairs : /\ Len(p[1]) < Word /\ Len(p[2]) < Word
                        /\ HeldFor(p[1]) \subseteq Seq(Byte)
                        /\ Len(p[2]) <= MaxInt
                        /\ \A d \in Dsts : d.len + Len(p[2]) <= MaxInt
    /\ Dsts \subseteq [arr : Seq(Byte), len : Nat] /\ \A d \in Dsts : d.len <= Len(d.arr)
    /\ Leftover \subseteq Seq(Nat) \ {<<>>} /\ maxCandidates \in Nat /\ MaxInt \in Nat

Create == Enc!Next /\ UNCHANGED decoding

\* cref.Create.  At MaxDigitCount and above delta_create would not return.
CreateInC ==
    /\ created = "start"
    /\ Len(origin) < MaxDigitCount /\ Len(target) < MaxDigitCount
    /\ delta' = delta_create(origin, target)
    /\ created' = "done"
    /\ UNCHANGED <<origin, target, collide, landmark, blk, base, w, h, next, tries,
                   best, decoding>>

Send ==
    /\ created = "done" /\ applied = "idle"
    /\ applied' = "header"
    /\ UNCHANGED <<delta, encoding, held, api, dst, limit, sum, body, i, total, n, mem,
                   home, err, planned>>

Apply == created = "done" /\ Dec!Next /\ UNCHANGED encoding

Next == Create \/ CreateInC \/ Send \/ Apply

Spec == Init /\ [][Next]_vars

\* Both calls run on until they return.
FairSpec == Spec /\ WF_vars(Next)

-----------------------------------------------------------------------------
Returned == applied = "done"

T == INSTANCE Transfer WITH
        want <- target,
        same <- (held = origin),
        got <- IF Returned /\ err = "nil" THEN Dec!output ELSE <<>>,
        status <- IF ~ Returned THEN "pending"
                  ELSE IF err = "nil" THEN "ok" ELSE "refused"

\* Create and Apply together do what Transfer says, and so do delta.c's delta_create and
\* Apply ("portable in both directions", doc.go): with the same source the target
\* always arrives, whatever the two payloads and whatever the buffers; with another one
\* it arrives, or is refused, or is mistaken for one of equal length and checksum.
ImplementsTransfer == T!TSpec

\* A delta made by AppendCreate, or by delta.c, is never rejected as malformed, whatever
\* it is applied to: with another source it is the checksum, or the source's length,
\* that tells.
OnlyTheSourceIsWrong ==
    err \in {"nil", "ErrChecksumMismatch", "errCopyPastSource"}
=============================================================================
