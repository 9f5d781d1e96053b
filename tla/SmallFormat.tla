----------------------------- MODULE SmallFormat -----------------------------
(***************************************************************************)
(* A small instance of the delta format for TLC: 16 byte values, 8 digits, *)
(* words of two bytes.  Its shape is the program's: the digits ascend and  *)
(* have the command bytes between them, the most significant digit of the  *)
(* largest word is a partial one (255 is 3 3 + 2 bits, as 2^32 - 1 is      *)
(* 5 * 6 + 2 bits), and some bytes, NUL among them, mean nothing.  Modules *)
(* that need wider bytes or words say so.                                  *)
(***************************************************************************)
EXTENDS Integers

SmallAlphabet == <<3, 4, 5, 9, 10, 11, 12, 13>>
=============================================================================
