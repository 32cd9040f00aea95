----------------------------- MODULE StringScan -----------------------------
(***************************************************************************)
(* The three kernels that find the end of a JSON string token: scalar      *)
(* (naive), 8 bytes at a time (SWAR) and 16 at a time (SIMD).  A token     *)
(* starts at address 1 of the text s with its opening quote.  A kernel     *)
(* answers the address after the closing quote and whether the payload has *)
(* an escape, or Failure.  A trusted caller vouches for UTF-8.             *)
(***************************************************************************)
EXTENDS Bytes

LOCAL INSTANCE FiniteSetsExt

Failure == [next |-> 0, escaped |-> FALSE]
Found(next, escaped) == [next |-> next, escaped |-> escaped]

ShortEscapes == {34, 92, 47, 98, 102, 110, 114, 116}
Continuation == 128..191

(* Address after the UTF-8 scalar at p, 0 if it is malformed. *)
SkipUtf8Scalar(s, p) ==
  LET first == s[p]
      Second(lo, hi) == s[p + 1] \in lo..hi
      More(i) == s[p + i] \in Continuation
      Bounded(n) == p + n - 1 <= Len(s)
  IN CASE first < 128 -> p + 1
       [] first \in 194..223 /\ Bounded(2) /\ More(1) -> p + 2
       [] /\ first \in 224..239 /\ Bounded(3) /\ More(2)
          /\ IF first = 224 THEN Second(160, 191)
             ELSE IF first = 237 THEN Second(128, 159) ELSE More(1) -> p + 3
       [] /\ first \in 240..244 /\ Bounded(4) /\ More(2) /\ More(3)
          /\ IF first = 240 THEN Second(144, 191)
             ELSE IF first = 244 THEN Second(128, 143) ELSE More(1) -> p + 4
       [] OTHER -> 0

(* Address after the escape whose backslash is at p, 0 if it is none. *)
SkipEscape(s, p) ==
  CASE p + 1 > Len(s) -> 0
    [] s[p + 1] = 117 ->
         IF p + 5 <= Len(s) /\ \A i \in 2..5 : s[p + i] \in HexDigits
         THEN p + 6 ELSE 0
    [] OTHER -> IF s[p + 1] \in ShortEscapes THEN p + 2 ELSE 0

(* What a loop does with a byte p that is not the closing quote: the
   address of the next byte it looks at, 0 on failure. *)
ScalarStep(s, p, trusted) ==
  CASE s[p] < Space -> 0
    [] s[p] = Backslash -> SkipEscape(s, p)
    [] s[p] >= 128 /\ ~trusted -> SkipUtf8Scalar(s, p)
    [] OTHER -> p + 1

(* One turn of a loop, which goes on with Loop. *)
Turn(s, p, trusted, escaped, Loop(_, _)) ==
  IF p > Len(s) THEN Failure
  ELSE IF s[p] = Quote THEN Found(p + 1, escaped)
  ELSE LET next == ScalarStep(s, p, trusted)
       IN IF next = 0 THEN Failure
          ELSE Loop(next, escaped \/ s[p] = Backslash)

-----------------------------------------------------------------------------
(* The scalar kernel.  A trusted call first skips plain bytes by eights.   *)

PlainBreaks(s, p) ==
  {i \in Lanes : s[p + i] \in {Quote, Backslash} \/ s[p + i] < Space}

RECURSIVE NaiveLoop(_, _, _, _)
NaiveLoop(s, p, trusted, escaped) ==
  Turn(s, p, trusted, escaped, LAMBDA q, e : NaiveLoop(s, q, trusted, e))

ScanNaive(s, trusted) ==
  LET Breaks(p) == PlainBreaks(s, p)
      from == IF trusted THEN Stride(s, 2, 8, Breaks) ELSE 2
  IN IF s = <<>> \/ s[1] # Quote THEN Failure
     ELSE NaiveLoop(s, from, trusted, FALSE)

-----------------------------------------------------------------------------
(* The SWAR kernel.                                                        *)

(* A trusted call tries strides of 32 and then of 8 bytes before each byte
   it looks at. *)
RECURSIVE SwarTrusted(_, _, _)
SwarTrusted(s, p, escaped) ==
  LET stop == TrustedStride(s, TrustedStride(s, p, 4), 1)
  IN Turn(s, stop, TRUE, escaped, LAMBDA q, e : SwarTrusted(s, q, e))

(* A strict call returns to strides only after an escape. *)
RECURSIVE SwarStrict(_, _, _, _)
SwarStrict(s, p, escaped, wide) ==
  LET stop == IF wide THEN StrictStride(s, p, 1) ELSE p
  IN Turn(s, stop, FALSE, escaped,
          LAMBDA q, e : SwarStrict(s, q, e, s[stop] = Backslash))

ScanSwar(s, trusted) ==
  IF s = <<>> \/ s[1] # Quote THEN Failure
  ELSE IF trusted THEN SwarTrusted(s, 2, FALSE)
  ELSE SwarStrict(s, StrictStride(s, 2, 2), FALSE, TRUE)

-----------------------------------------------------------------------------
(* The SIMD kernel.  Vector compares are exact, so its candidates are the  *)
(* special bytes themselves.  UTF-8 is checked by simdjson's tables: each  *)
(* of the nibbles of two adjacent bytes names the errors it allows, and    *)
(* what all three allow is an error.                                       *)

Block == 0..15

SpecialBytes(s, p, trusted) ==
  {i \in Block : \/ s[p + i] \in {Quote, Backslash} \union (0..31)
                 \/ ~trusted /\ s[p + i] >= 128}

Byte1High ==
  LET table == <<2,2,2,2,2,2,2,2,128,128,128,128,33,1,21,73>>
  IN [n \in Block |-> Bits(table[n + 1])]
Byte1Low ==
  LET table == <<231,163,131,131,139,203,203,203,203,203,203,203,203,219,203,203>>
  IN [n \in Block |-> Bits(table[n + 1])]
Byte2High ==
  LET table == <<1,1,1,1,1,1,1,1,230,174,186,186,1,1,1,1>>
  IN [n \in Block |-> Bits(table[n + 1])]

(* Mutant: every block is checked as if it were the first. *)
BlockErrorAlone(input, previous) ==
  LET Back(n, i) == IF i >= n THEN input[i - n] ELSE 0
      Special(i) == Byte1High[Back(1, i) \div 16]
                      \intersect Byte1Low[Back(1, i) % 16]
                      \intersect Byte2High[input[i] \div 16]
      Must23(i) == Back(2, i) >= 224 \/ Back(3, i) >= 240
  IN \E i \in Block : Special(i) # (IF Must23(i) THEN {7} ELSE {})

(* Whether the block is malformed after the previous one. *)
Lookup4Error(input, previous) ==
  LET Back(n, i) == IF i >= n THEN input[i - n] ELSE previous[16 + i - n]
      Special(i) == Byte1High[Back(1, i) \div 16]
                      \intersect Byte1Low[Back(1, i) % 16]
                      \intersect Byte2High[input[i] \div 16]
      Must23(i) == Back(2, i) >= 224 \/ Back(3, i) >= 240
  IN \E i \in Block : Special(i) # (IF Must23(i) THEN {7} ELSE {})

(* Blocks are compared for special bytes only.  The last one is cut off at
   the quote, and one that has another special byte sends the whole token
   back to the loop below. *)
RECURSIVE SimdInner(_, _, _, _, _, _), Lookup4(_, _, _, _)
Lookup4(s, p, previous, errors) ==
  LET within == {i \in Block : p + i <= Len(s)}
      breaks == {i \in within : s[p + i] \in {Quote, Backslash} \union (0..31)}
      kept == IF breaks = {} THEN within ELSE {i \in Block : i < Min(breaks)}
      input == [i \in Block |-> IF i \in kept THEN s[p + i] ELSE 0]
      wrong == \/ errors
               \/ /\ High(input) \union High(previous) # {}
                  /\ Lookup4Error(input, previous)
      stop == p + Min(breaks)
  IN IF p > Len(s) THEN Failure
     ELSE IF breaks = {} THEN Lookup4(s, p + 16, input, wrong)
     ELSE IF s[stop] # Quote THEN SimdInner(s, 2, FALSE, FALSE, FALSE, TRUE)
     ELSE IF wrong THEN Failure ELSE Found(stop + 1, FALSE)

SimdInner(s, p, trusted, escaped, useLookup4, wide) ==
  LET Special(q) == SpecialBytes(s, q, trusted)
      stop == IF wide THEN Stride(s, p, 16, Special) ELSE p
  IN IF useLookup4 /\ ~trusted /\ stop <= Len(s) /\ s[stop] >= 128
     THEN Lookup4(s, 2, [i \in Block |-> 0], FALSE)
     ELSE Turn(s, stop, trusted, escaped,
               LAMBDA q, e : SimdInner(s, q, trusted, e, useLookup4,
                                       s[stop] = Backslash))

ScanSimd(s, trusted) ==
  IF s = <<>> \/ s[1] # Quote THEN Failure
  ELSE SimdInner(s, 2, trusted, FALSE, TRUE, TRUE)

(* The policy of the SIMD build: short tokens are left to SWAR. *)
ScanStringKernel(s, trusted) ==
  IF Len(s) < 48 THEN ScanSwar(s, trusted) ELSE ScanSimd(s, trusted)
=============================================================================
