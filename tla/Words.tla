------------------------------- MODULE Words -------------------------------
(***************************************************************************)
(* Packed words as the kernels of assembly/ use them: a 64-bit word is the *)
(* function from its lanes 0..7 to the bytes they hold, lane 0 being the   *)
(* byte at the lowest address.  Arithmetic on a whole word carries from    *)
(* one lane into the next, which is what makes its answers candidates.     *)
(***************************************************************************)
EXTENDS Integers, Sequences, FiniteSets, FiniteSetsExt

Byte == 0..255

Quote == 34
Backslash == 92
Space == 32
OpenBracket == 91
CloseBracket == 93

Digits == 48..57

Lanes == 0..7

(* The word loaded from address p of text s. *)
Load(s, p) == [i \in Lanes |-> s[p + i]]

(* The lanes whose high bit is set. *)
High(w) == {i \in DOMAIN w : w[i] >= 128}

(* 64-bit subtraction of the byte c from every lane at once: a lane that is
   too small borrows from the next one. *)
Borrow(w, c) ==
  LET b[i \in 0..8] == IF i > 0 /\ w[i - 1] < c + b[i - 1] THEN 1 ELSE 0
  IN b
Minus(w, c) ==
  LET b == Borrow(w, c) IN [i \in Lanes |-> (w[i] - c - b[i]) % 256]

(* 64-bit addition of the byte c to every lane at once, with carries. *)
Carry(w, c) ==
  LET a[i \in 0..8] == IF i > 0 /\ w[i - 1] + c + a[i - 1] > 255 THEN 1 ELSE 0
  IN a
Plus(w, c) ==
  LET a == Carry(w, c) IN [i \in Lanes |-> (w[i] + c + a[i]) % 256]

(* Exclusive or of two bytes, bit by bit. *)
Flip(a, b, n) == n * ((a \div n + b \div n) % 2)
XorByte(a, b) ==
  Flip(a, b, 1) + Flip(a, b, 2) + Flip(a, b, 4) + Flip(a, b, 8)
    + Flip(a, b, 16) + Flip(a, b, 32) + Flip(a, b, 64) + Flip(a, b, 128)

XorTable(c) == [b \in Byte |-> XorByte(b, c)]
QuoteXor == XorTable(Quote)
SlashXor == XorTable(Backslash)
OpenXor == XorTable(OpenBracket)
CloseXor == XorTable(CloseBracket)

(* Lanes that may hold a zero byte.  A borrow can mark a lane above a true
   zero byte, so a candidate has to be confirmed. *)
ZeroCandidates(w) == High(Minus(w, 1)) \ High(w)
EqualCandidates(w, table) == ZeroCandidates([i \in Lanes |-> table[w[i]]])

(* Lanes that are not ASCII digits. *)
NonDigits(w) == High(Minus(w, 48)) \union High(Plus(w, 70))

-----------------------------------------------------------------------------
(* Candidates of the scanners.                                             *)

(* Mutant: bytes with the high bit set count as control characters. *)
SpecialUnmasked(w) ==
  EqualCandidates(w, QuoteXor) \union EqualCandidates(w, SlashXor)
    \union High(Minus(w, Space))

(* Candidates for a quote, a backslash or a control character. *)
QuoteOrBackslash(w) == EqualCandidates(w, QuoteXor) \union EqualCandidates(w, SlashXor)
TrustedSpecial(w) == QuoteOrBackslash(w) \union (High(Minus(w, Space)) \ High(w))
StrictSpecial(w) == TrustedSpecial(w) \union High(w)

(* The same with the low five bits cleared. *)
Escapable(w) ==
  QuoteOrBackslash(w) \union ZeroCandidates([i \in Lanes |-> w[i] - (w[i] % 32)])

(* Candidates for a bracket, a brace or a quote: a brace becomes the bracket
   of its side when bit 5 is cleared. *)
Folded == [b \in Byte |-> b - 32 * ((b \div 32) % 2)]
StructuralOrQuote(w) ==
  LET folded == [i \in Lanes |-> Folded[w[i]]]
  IN EqualCandidates(folded, OpenXor) \union EqualCandidates(folded, CloseXor)
       \union EqualCandidates(w, QuoteXor)

(* The candidates in n words from p: those of the first word that has any. *)
InWords(s, p, n, Special(_)) ==
  LET At(k) == {8 * k + i : i \in Special(Load(s, p + 8 * k))}
      words == {k \in 0..(n - 1) : At(k) # {}}
  IN IF words = {} THEN {} ELSE At(Min(words))

(* Where a loop stops that advances p by whole blocks of `width` bytes while
   the block's candidates Hits(p), offsets within the block, are empty:
   at the first candidate, or where fewer than `width` bytes are left. *)
Stride(s, p, width, Hits(_)) ==
  LET blocks == {p + k * width : k \in 0..((Len(s) + 1 - p) \div width - 1)}
      stops == {b \in blocks : Hits(b) # {}}
  IN IF stops = {} THEN p + Cardinality(blocks) * width
     ELSE Min(stops) + Min(Hits(Min(stops)))

(* The strides of the string scanners, n words at a time. *)
TrustedStride(s, p, n) ==
  LET Hits(q) == InWords(s, q, n, TrustedSpecial) IN Stride(s, p, 8 * n, Hits)
StrictStride(s, p, n) ==
  LET Hits(q) == InWords(s, q, n, StrictSpecial) IN Stride(s, p, 8 * n, Hits)

-----------------------------------------------------------------------------
(* Packed digits, folded two at a time, then two pairs, then two quads.    *)

Fold(lanes, base) ==
  [i \in 1..(Len(lanes) \div 2) |-> lanes[2 * i - 1] * base + lanes[2 * i]]
Fold4(block) == Fold(Fold([i \in 1..4 |-> block[i] % 16], 10), 100)[1]
Fold8(block) == Fold(Fold(Fold([i \in 1..8 |-> block[i] % 16], 10), 100), 10000)[1]

(* A folded chunk as the digits it appends to a register. *)
Power == <<1, 10, 100, 1000, 10000, 100000, 1000000, 10000000>>
Chunk(n, width) ==
  [i \in 1..width |-> 48 + ((n \div Power[width + 1 - i]) % 10)]

-----------------------------------------------------------------------------
(* A borrow may add a candidate above a true one but never hides one, and
   the first candidate is always true: the kernels rest on it. *)
FirstTrue(special, found) ==
  /\ special \subseteq found
  /\ found # {} => Min(found) \in special

Holding(w, bytes) == {i \in Lanes : w[i] \in bytes}
Controls == 0..31
CandidatesTrue(w) ==
  /\ FirstTrue(Holding(w, {Quote, Backslash}), QuoteOrBackslash(w))
  /\ FirstTrue(Holding(w, {Quote, Backslash} \union Controls), TrustedSpecial(w))
  /\ FirstTrue(Holding(w, {Quote, Backslash} \union Controls \union 128..255), StrictSpecial(w))
  /\ FirstTrue(Holding(w, {Quote, Backslash} \union Controls), Escapable(w))
  /\ FirstTrue(Holding(w, {Quote, OpenBracket, CloseBracket, 123, 125}), StructuralOrQuote(w))
=============================================================================
