------------------------------- MODULE Bytes -------------------------------
(***************************************************************************)
(* Bytes as the kernels of assembly/ use them beside packed words.  A text *)
(* is a sequence of bytes.                                                 *)
(***************************************************************************)
EXTENDS Words, Bitwise

HexDigits == Digits \union (65..70) \union (97..102)

(* The bits of a byte, by number. *)
Bits(b) == {i \in 0..7 : (b \div 2^i) % 2 = 1}
=============================================================================
