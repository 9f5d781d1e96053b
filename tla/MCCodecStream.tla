---------------------------- MODULE MCCodecStream ----------------------------
(***************************************************************************)
(* CodecStream with SmallFormat's digits, twice as many bytes and words of *)
(* four of them, so that one, two or three bytes are left over at the end  *)
(* of a buffer, and a word is six digits and two bits long, as it is five  *)
(* digits and two bits in the program.                                     *)
(***************************************************************************)
EXTENDS CodecStream, SmallFormat

\* Both sides of digit boundaries, of delta.c's limit and of an int's, and the ends.
BoundaryValues ==
    { 0, 1, Radix - 1, Radix, Radix * Radix - 1, Radix * Radix,
      MaxDigitCount - 1, MaxDigitCount, Word \div 2 - 1, Word - 1 }
=============================================================================
