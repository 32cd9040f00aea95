----------------------------- MODULE Documents -----------------------------
(***************************************************************************)
(* The grammar scanner of assembly/deserialize/scanner.ts: it walks over a *)
(* value without building anything, counts the entries of a container,     *)
(* adds up the size of the graph the value will need and notices           *)
(* whitespace.  A scan that fails answers next = 0.                        *)
(***************************************************************************)
EXTENDS StringScan

LOCAL INSTANCE FiniteSetsExt
LOCAL INSTANCE SequencesExt

CONSTANTS
  MaxDepth,           \* deepest level of a value, the root being level 0
  Trusted             \* whether the sender vouches for UTF-8

ASSUME ScannerAssumption == MaxDepth \in Nat /\ Trusted \in BOOLEAN

OpenBrace == 123
CloseBrace == 125
Comma == 44
Colon == 58
Minus1 == 45
Plus1 == 43
Dot == 46
Exponent == {69, 101}

Whitespace == {32, 9, 10, 13}
SkipWhitespace(s, p) ==
  IF p \in DOMAIN s /\ s[p] \notin Whitespace THEN p
  ELSE Min({Len(s) + 1} \union {q \in p..Len(s) : s[q] \notin Whitespace})

At(s, p) == IF p \in DOMAIN s THEN s[p] ELSE -1

True == <<116, 114, 117, 101>>
False == <<102, 97, 108, 115, 101>>
Null == <<110, 117, 108, 108>>
LiteralAt(s, p, literal) ==
  /\ p + Len(literal) - 1 <= Len(s)
  /\ SubSeq(s, p, p + Len(literal) - 1) = literal

(* The address after the closing quote of the string at p, or 0. *)
SkipString(s, p) ==
  LET r == ScanStringKernel(SubSeq(s, p, Len(s)), Trusted)
  IN IF r = Failure THEN 0 ELSE p + r.next - 1

-----------------------------------------------------------------------------
(* Numbers: sign, integer part, fraction and exponent in turn.  A digit run
   ends at the first byte that is no digit. *)

AfterDigits(s, p) ==
  Min({Len(s) + 1} \union {q \in p..Len(s) : s[q] \notin Digits})

(* Mutant: digits may follow a leading zero. *)
SkipAnyInteger(s, p) == IF At(s, p) \in Digits THEN AfterDigits(s, p) ELSE 0
SkipInteger(s, p) ==
  IF At(s, p) = 48 THEN (IF At(s, p + 1) \in Digits THEN 0 ELSE p + 1)
  ELSE IF At(s, p) \in Digits THEN AfterDigits(s, p) ELSE 0
SkipFraction(s, p) ==
  IF p = 0 \/ At(s, p) # Dot THEN p
  ELSE IF At(s, p + 1) \in Digits THEN AfterDigits(s, p + 1) ELSE 0
SkipExponent(s, p) ==
  LET from == IF At(s, p + 1) \in {Plus1, Minus1} THEN p + 2 ELSE p + 1
  IN IF p = 0 \/ At(s, p) \notin Exponent THEN p
     ELSE IF At(s, from) \in Digits THEN AfterDigits(s, from) ELSE 0

SkipNumber(s, p) ==
  LET from == IF At(s, p) = Minus1 THEN p + 1 ELSE p
  IN SkipExponent(s, SkipFraction(s, SkipInteger(s, from)))

-----------------------------------------------------------------------------
(* Values.  A scan carries what it has learned: whether it met whitespace, *)
(* the bytes of graph and, in a container, the entries so far.  The scan   *)
(* for minified input is the same walk without the whitespace probes.      *)

Scan(next, minified, bytes, count) ==
  [next |-> next, minified |-> minified, bytes |-> bytes, count |-> count]
Failed == Scan(0, TRUE, 0, 0)
Gap(s, p, spaces) == IF spaces THEN SkipWhitespace(s, p) ELSE p

ContainerBytes == 8
(* Mutant: the keys are forgotten. *)
EntryBytesBare(close) == 16
EntryBytes(close) == IF close = CloseBracket THEN 16 ELSE 24

(* Where the value of the entry at p starts: after its key and colon. *)
EntryValue(s, p, close, spaces) ==
  LET key == SkipString(s, p)
      colon == Gap(s, key, spaces)
  IN IF close = CloseBracket THEN p
     ELSE IF At(s, p) # Quote \/ key = 0 \/ At(s, colon) # Colon THEN 0
     ELSE colon + 1

RECURSIVE ScanValue(_, _, _, _), Entries(_, _, _, _, _, _)

(* The entries of a container from p on, `so` being the scan so far. *)
Entries(s, p, depth, close, spaces, so) ==
  LET from == EntryValue(s, p, close, spaces)
      value == ScanValue(s, from, depth + 1, spaces)
      stop == Gap(s, value.next, spaces)
      next == Gap(s, stop + 1, spaces)
      key == IF close = CloseBracket THEN p ELSE SkipString(s, p)
      all == Scan(stop + 1,
                  /\ so.minified /\ value.minified
                  /\ stop = value.next
                  /\ close = CloseBrace => from = key + 1,
                  so.bytes + EntryBytes(close) + value.bytes, so.count + 1)
  IN IF p > Len(s) \/ from = 0 \/ value.next = 0 THEN Failed
     ELSE IF At(s, stop) = close THEN all
     ELSE IF At(s, stop) # Comma \/ At(s, next) \in {-1, close} THEN Failed
     ELSE Entries(s, next, depth, close, spaces,
                  [all EXCEPT !.minified = @ /\ next = stop + 1])

Container(s, p, depth, spaces) ==
  LET close == IF s[p] = OpenBracket THEN CloseBracket ELSE CloseBrace
      first == Gap(s, p + 1, spaces)
  IN IF At(s, first) = close
     THEN Scan(first + 1, first = p + 1, ContainerBytes, 0)
     ELSE Entries(s, first, depth, close, spaces,
                  Scan(0, first = p + 1, ContainerBytes, 0))

ScanValue(s, start, depth, spaces) ==
  LET p == Gap(s, start, spaces)
      Scalar(next) == Scan(next, p = start, 0, 0)
      literals == {l \in {True, False, Null} : LiteralAt(s, p, l)}
  IN IF depth > MaxDepth \/ p > Len(s) THEN Failed
     ELSE CASE s[p] = Quote -> Scalar(SkipString(s, p))
       [] s[p] \in {OpenBracket, OpenBrace} ->
            LET c == Container(s, p, depth, spaces)
            IN [c EXCEPT !.minified = @ /\ p = start]
       [] OTHER -> IF literals # {} THEN Scalar(p + Len(CHOOSE l \in literals : TRUE))
                   ELSE Scalar(SkipNumber(s, p))

SkipValue(s, p) == ScanValue(s, p, 0, TRUE)

(* The minified scan is tried first.  When it fails, the size it added up
   is dropped. *)
SkipValueMinified(s, p) ==
  LET fast == ScanValue(s, p, 0, FALSE)
  IN IF fast.next # 0 THEN fast ELSE SkipValue(s, p)

(* The entries of the container at p, whose values are at level 1. *)
CountEntries(s, p, open) ==
  LET at == SkipWhitespace(s, p)
  IN IF At(s, at) # open THEN Failed ELSE Container(s, at, 0, TRUE)
CountArrayElements(s, p) == CountEntries(s, p, OpenBracket)
CountObjectMembers(s, p) == CountEntries(s, p, OpenBrace)
=============================================================================
