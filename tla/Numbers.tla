------------------------------ MODULE Numbers ------------------------------
(***************************************************************************)
(* Reading numbers (assembly/deserialize/scanner.ts parseNumber,           *)
(* swar/float.ts, swar/integer.ts, util/swar-int.ts).  A 64-bit integer is *)
(* the sequence of its decimal digits, without leading zeros: the kernels  *)
(* build it by appending digits, and compare.  Conversion to a double is   *)
(* left to one of three ways, whose choice is modelled.                    *)
(***************************************************************************)
EXTENDS Boundaries

LOCAL INSTANCE FiniteSetsExt
LOCAL INSTANCE SequencesExt

CONSTANT ExponentCap        \* an exponent stops growing here (10000 in the code)

ASSUME NumberAssumption == ExponentCap \in Nat \ {0}

(* Digit sequences as numbers. *)
Stripped(d) ==
  LET solid == {i \in DOMAIN d : d[i] # 48}
  IN IF solid = {} THEN <<>> ELSE SubSeq(d, Min(solid), Len(d))
Exceeds(a, b) ==
  \/ Len(a) > Len(b)
  \/ /\ Len(a) = Len(b)
     /\ \E i \in DOMAIN a : a[i] > b[i] /\ \A j \in 1..(i - 1) : a[j] = b[j]

U64Max == <<49,56,52,52,54,55,52,52,48,55,51,55,48,57,53,53,49,54,49,53>>
I64Max == <<57,50,50,51,51,55,50,48,51,54,56,53,52,55,55,53,56,48,55>>
I64MinMagnitude == [I64Max EXCEPT ![19] = 56]
MaxSafe == <<57,48,48,55,49,57,57,50,53,52,55,52,48,57,57,50>>

(* What a 64-bit register holds after appending; a number that does not fit
   wraps into some other one. *)
Wrapped == <<-1>>
AppendDigits(value, chunk) ==
  LET sum == Stripped(value \o chunk)
  IN IF value = Wrapped \/ Exceeds(sum, U64Max) THEN Wrapped ELSE sum

-----------------------------------------------------------------------------
(* Packed digits.  A load that goes beyond the text is not made.           *)

(* Lanes after the first n are padded with zeros: borrows and carries only
   go upwards. *)
AllDigits(s, p, n) ==
  NonDigits([i \in Lanes |-> IF i < n THEN s[p + i] ELSE 48]) = {}
NoDigits == -1
Parse4Digits(s, p) ==
  IF p + 3 <= Len(s) /\ AllDigits(s, p, 4) THEN Fold4(SubSeq(s, p, p + 3)) ELSE NoDigits
Parse8Digits(s, p) ==
  IF p + 7 <= Len(s) /\ AllDigits(s, p, 8) THEN Fold8(SubSeq(s, p, p + 7)) ELSE NoDigits

-----------------------------------------------------------------------------
(* Floating point.  What has been read of a number: the next byte, the     *)
(* significand, digits that no longer fit it, digits after the point.      *)

Reading(next, mantissa) ==
  [next |-> next, mantissa |-> mantissa, discarded |-> 0, fractional |-> 0]
Significant(r) == r.mantissa # <<>>
NoNumber == [next |-> 0, way |-> "none", mantissa |-> <<>>, scale |-> 0, negative |-> FALSE]

MantissaDigits == 19
TakeDigit(r, digit) ==
  CASE ~Significant(r) /\ digit = 48 -> r
    [] Len(r.mantissa) < MantissaDigits ->
         [r EXCEPT !.mantissa = AppendDigits(@, <<digit>>)]
    [] OTHER -> [r EXCEPT !.discarded = @ + 1]

RECURSIVE IntegerDigits(_, _)
IntegerDigits(s, r) ==
  IF At(s, r.next) \notin Digits THEN r
  ELSE IntegerDigits(s, [TakeDigit(r, s[r.next]) EXCEPT !.next = @ + 1])
IntegerPart(s, p) ==
  CASE At(s, p) = 48 ->
         IF At(s, p + 1) \in Digits THEN Reading(0, <<>>) ELSE Reading(p + 1, <<>>)
    [] At(s, p) \in Digits \ {48} -> IntegerDigits(s, Reading(p, <<>>))
    [] OTHER -> Reading(0, <<>>)

(* The digits after the point, eight or four at a time while they fit. *)
AppendChunk(r, n, width) ==
  [r EXCEPT !.mantissa = AppendDigits(@, Chunk(n, width)),
            !.fractional = @ + width, !.next = @ + width]
RECURSIVE FractionDigits(_, _, _)
FractionDigits(s, r, width) ==
  LET eight == IF width = 8 /\ Significant(r) /\ Len(r.mantissa) <= 11
               THEN Parse8Digits(s, r.next) ELSE NoDigits
      four == IF width >= 4 /\ Significant(r) /\ Len(r.mantissa) <= 15
              THEN Parse4Digits(s, r.next) ELSE NoDigits
  IN CASE At(s, r.next) \notin Digits -> r
       [] eight # NoDigits -> FractionDigits(s, AppendChunk(r, eight, 8), width)
       [] four # NoDigits -> FractionDigits(s, AppendChunk(r, four, 4), width)
       [] OTHER -> FractionDigits(s,
            [TakeDigit(r, s[r.next]) EXCEPT !.fractional = @ + 1, !.next = @ + 1], width)
Fraction(s, r, width) ==
  IF At(s, r.next) # Dot THEN r
  ELSE IF At(s, r.next + 1) \notin Digits THEN [r EXCEPT !.next = 0]
  ELSE FractionDigits(s, [r EXCEPT !.next = @ + 1], width)

(* The exponent, and the address after it; digits beyond the cap are read
   but not added. *)
RECURSIVE ExponentDigits(_, _, _)
ExponentDigits(s, p, e) ==
  IF At(s, p) \notin Digits THEN [value |-> e, next |-> p]
  ELSE ExponentDigits(s, p + 1, IF e < ExponentCap THEN e * 10 + s[p] - 48 ELSE e)
ExponentPart(s, p) ==
  LET signed == At(s, p + 1) \in {Plus1, Minus1}
      from == IF signed THEN p + 2 ELSE p + 1
      e == ExponentDigits(s, from, 0)
  IN IF p = 0 \/ At(s, p) \notin Exponent THEN [value |-> 0, next |-> p]
     ELSE IF At(s, from) \notin Digits THEN [value |-> 0, next |-> 0]
     ELSE IF At(s, p + 1) = Minus1 THEN [e EXCEPT !.value = -@] ELSE e

(* How the double is made: by the host from the text, exactly from a small
   significand and one power of ten, or by the 128-bit product. *)
Way(r, scale) ==
  IF r.discarded # 0 \/ scale < -22 \/ scale > 22 THEN "host"
  ELSE IF ~Exceeds(r.mantissa, MaxSafe) THEN "exact" ELSE "product"

Finished(r, e, negative) ==
  LET scale == e.value - r.fractional + r.discarded
  IN IF e.next = 0 THEN NoNumber
     ELSE [next |-> e.next, way |-> Way(r, scale), mantissa |-> r.mantissa,
           scale |-> scale, negative |-> negative]

(* scanner.ts: four digits at a time. *)
ParseNumber(s, p) ==
  LET negative == At(s, p) = Minus1
      r == Fraction(s, IntegerPart(s, IF negative THEN p + 1 ELSE p), 4)
  IN Finished(r, ExponentPart(s, r.next), negative)

(* swar/float.ts.  Four digits alone, or eight, are a number at once. *)
NumberBytes == Digits \union {Dot} \union Exponent
Quick(next, n, negative) ==
  [next |-> next, way |-> "exact", mantissa |-> Stripped(Chunk(n, 8)), scale |-> 0,
   negative |-> negative]

(* Mutant: a quick number may start with a zero. *)
EightAnyStart(s, p, width) == IF width = 8 THEN Parse8Digits(s, p) ELSE NoDigits

EightDigits(s, p, width) ==
  IF width = 8 /\ At(s, p) \in Digits \ {48} THEN Parse8Digits(s, p) ELSE NoDigits
DeserializeFloat(s, p, width) ==
  LET negative == At(s, p) = Minus1
      from == IF negative THEN p + 1 ELSE p
      four == IF width > 0 THEN Parse4Digits(s, p) ELSE NoDigits
      eight == EightDigits(s, from, width)
      whole == IF eight # NoDigits /\ At(s, from + 8) \notin Digits
               THEN Reading(from + 8, Stripped(Chunk(eight, 8)))
               ELSE IntegerPart(s, from)
      r == Fraction(s, whole, width)
  IN IF four # NoDigits /\ At(s, p + 4) \notin NumberBytes
     THEN Quick(p + 4, four, FALSE)
     ELSE IF eight # NoDigits /\ At(s, from + 8) \notin NumberBytes
     THEN Quick(from + 8, eight, negative)
     ELSE IF whole.next # 0 /\ At(s, whole.next) \notin NumberBytes
     THEN [next |-> whole.next, way |-> IF whole.discarded # 0 THEN "host" ELSE "integer",
           mantissa |-> whole.mantissa, scale |-> whole.discarded, negative |-> negative]
     ELSE Finished(r, ExponentPart(s, r.next), negative)

-----------------------------------------------------------------------------
(* Integers of at most 64 bits.                                            *)

Stop(next, value) == [next |-> next, value |-> value]
NoInteger == Stop(0, <<>>)
WouldOverflow(value, chunk, maximum) == Exceeds(Stripped(value \o chunk), maximum)

(* Digits from p on, `width` at a time and then one by one, checked against
   the maximum once there are at least `checked` of them.  The digits read
   so far are those of the value: it has no leading zero. *)
RECURSIVE IntegerRun(_, _, _, _, _, _)
IntegerRun(s, p, value, width, maximum, checked) ==
  LET chunk == IF width = 8 THEN Parse8Digits(s, p)
               ELSE IF width = 4 THEN Parse4Digits(s, p) ELSE NoDigits
      n == IF chunk = NoDigits THEN 1 ELSE width
      digits == IF chunk = NoDigits THEN <<s[p]>> ELSE Chunk(chunk, width)
  IN IF At(s, p) \notin Digits THEN Stop(p, value)
     ELSE IF Len(value) + n >= checked /\ WouldOverflow(value, digits, maximum) THEN NoInteger
     ELSE IntegerRun(s, p + n, AppendDigits(value, digits),
                     IF chunk = NoDigits THEN 1 ELSE width, maximum, checked)

ZeroFirst(s, p) == At(s, p) = 48
LeadingZero(s, p) == At(s, p) = 48 /\ At(s, p + 1) \in Digits

DeserializeUnsigned(s, p, maximum) ==
  IF At(s, p) \notin Digits \/ LeadingZero(s, p) THEN NoInteger
  ELSE IF ZeroFirst(s, p) THEN Stop(p + 1, <<>>)
  ELSE IntegerRun(s, p, <<>>, 8, maximum, IF maximum = U64Max THEN 20 ELSE 0)

(* Mutant: the magnitude of the least integer is that of the greatest. *)
SymmetricMaximum(negative) == I64Max

IntegerMaximum(negative) == IF negative THEN I64MinMagnitude ELSE I64Max
DeserializeInteger(s, p) ==
  LET negative == At(s, p) = Minus1
      from == IF negative THEN p + 1 ELSE p
  IN IF At(s, from) \notin Digits \/ LeadingZero(s, from) THEN NoInteger
     ELSE IF ZeroFirst(s, from) THEN Stop(from + 1, <<>>)
     ELSE IntegerRun(s, from, <<>>, 4, IntegerMaximum(negative), 19)

(* swar/array/integer.ts *)
ParseU64Element(s, p) ==
  IF At(s, p) \notin Digits \/ LeadingZero(s, p) THEN NoInteger
  ELSE IntegerRun(s, p, <<>>, 4, U64Max, 20)

(* A span of digits that the caller has checked, 16, 8 and 4 at a time. *)
RECURSIVE ExactRun(_, _, _, _)
ExactRun(s, value, maximum, checked) ==
  LET n == Len(s)
      width == CASE n >= 16 -> 16 [] n \in 8..15 -> 8 [] n \in 4..7 -> 4 [] OTHER -> 1
      chunk == CASE width = 16 -> Chunk(Fold8(SubSeq(s, 1, 8)), 8)
                                    \o Chunk(Fold8(SubSeq(s, 9, 16)), 8)
                 [] width = 8 -> Chunk(Fold8(SubSeq(s, 1, 8)), 8)
                 [] width = 4 -> Chunk(Fold4(SubSeq(s, 1, 4)), 4)
                 [] OTHER -> SubSeq(s, 1, 1)
  IN IF s = <<>> THEN Stop(1, value)
     ELSE IF checked /\ WouldOverflow(value, chunk, maximum) THEN NoInteger
     ELSE ExactRun(SubSeq(s, width + 1, n), AppendDigits(value, chunk), maximum, checked)
ParseUnsignedExact(s, maximum) ==
  ExactRun(s, <<>>, maximum, maximum # U64Max \/ Len(s) >= 20)

-----------------------------------------------------------------------------
(* Arrays of scalars: counted by the boundaries of their elements, then    *)
(* stored one after the other into what was counted (swar/array).          *)

(* Mutant: a null is taken for false. *)
ElementOrNull(s, p, kind) ==
  CASE kind = "integer" -> ParseU64Element(s, p)
    [] LiteralAt(s, p, True) -> Stop(p + 4, 1)
    [] LiteralAt(s, p, False) -> Stop(p + 5, 0)
    [] OTHER -> IF LiteralAt(s, p, Null) THEN Stop(p + 4, 0) ELSE NoInteger

ArrayElement(s, p, kind) ==
  CASE kind = "integer" -> ParseU64Element(s, p)
    [] LiteralAt(s, p, True) -> Stop(p + 4, 1)
    [] LiteralAt(s, p, False) -> Stop(p + 5, 0)
    [] OTHER -> NoInteger

RECURSIVE ArrayElements(_, _, _, _, _)
ArrayElements(s, p, values, capacity, kind) ==
  LET element == ArrayElement(s, p, kind)
      stop == SkipWhitespace(s, element.next)
      next == SkipWhitespace(s, stop + 1)
      all == values \o <<element.value>>
  IN IF p > Len(s) \/ Len(values) >= capacity \/ element.next = 0 THEN NoInteger
     ELSE IF At(s, stop) = CloseBracket THEN Stop(stop + 1, all)
     ELSE IF At(s, stop) # Comma \/ At(s, next) \in {-1, CloseBracket} THEN NoInteger
     ELSE ArrayElements(s, next, all, capacity, kind)
BracketedArray(s, capacity, kind) ==
  LET first == SkipWhitespace(s, 2)
  IN IF At(s, 1) # OpenBracket THEN NoInteger
     ELSE IF At(s, first) = CloseBracket THEN Stop(first + 1, <<>>)
     ELSE ArrayElements(s, first, <<>>, capacity, kind)
DeserializeU64Array(s, capacity) == BracketedArray(s, capacity, "integer")
DeserializeBooleanArray(s, capacity) == BracketedArray(s, capacity, "boolean")

NoCount == [next |-> 0, count |-> 0]
RECURSIVE CountElements(_, _, _)
CountElements(s, p, count) ==
  LET value == ScanValueEndSwar(s, p)
      stop == SkipWhitespace(s, value)
      next == SkipWhitespace(s, stop + 1)
  IN IF p > Len(s) \/ value \in {0, p} THEN NoCount
     ELSE IF At(s, stop) = CloseBracket THEN [next |-> stop + 1, count |-> count + 1]
     ELSE IF At(s, stop) # Comma \/ At(s, next) \in {-1, CloseBracket} THEN NoCount
     ELSE CountElements(s, next, count + 1)
CountArrayElementsSwar(s) ==
  LET first == SkipWhitespace(s, 2)
  IN IF At(s, 1) # OpenBracket THEN NoCount
     ELSE IF At(s, first) = CloseBracket THEN [next |-> first + 1, count |-> 0]
     ELSE CountElements(s, first, 0)
=============================================================================
