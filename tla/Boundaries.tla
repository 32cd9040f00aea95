----------------------------- MODULE Boundaries -----------------------------
(***************************************************************************)
(* The scanners that find where a value ends when the caller vouches for   *)
(* the text, 8 bytes (SWAR) or 16 bytes (SIMD) at a time.  They follow     *)
(* quotes and brackets only.  A brace becomes the bracket of its side when *)
(* bit 5 is cleared.                                                       *)
(***************************************************************************)
EXTENDS Documents

LOCAL INSTANCE FiniteSetsExt
LOCAL INSTANCE SequencesExt

ScalarStops == {Comma, CloseBracket, CloseBrace} \union Whitespace
FirstIn(s, p, bytes) == Min({Len(s) + 1} \union {q \in p..Len(s) : s[q] \in bytes})

-----------------------------------------------------------------------------
(* SWAR: candidates, each confirmed by the loop that follows.              *)

RECURSIVE QuotedTail(_, _)
QuotedTail(s, p) ==
  IF p > Len(s) THEN 0
  ELSE IF s[p] = Backslash THEN QuotedTail(s, p + 2)
  ELSE IF s[p] = Quote THEN p + 1
  ELSE QuotedTail(s, p + 1)

ScanQuotedSwar(s, start) ==
  LET Candidates(p) == QuoteOrBackslash(Load(s, p))
  IN QuotedTail(s, Stride(s, start + 1, 8, Candidates))

(* A byte that is neither structural nor a separator starts a scalar, and
   only then do whole words pay. *)
RECURSIVE CompositeSwar(_, _, _)
CompositeSwar(s, p, depth) ==
  LET Candidates(q) == StructuralOrQuote(Load(s, q))
      quoted == ScanQuotedSwar(s, p)
  IN CASE p > Len(s) -> 0
       [] At(s, p) = Quote ->
            IF quoted = 0 THEN 0 ELSE CompositeSwar(s, quoted, depth)
       [] At(s, p) # -1 /\ Folded[s[p]] = OpenBracket -> CompositeSwar(s, p + 1, depth + 1)
       [] At(s, p) # -1 /\ Folded[s[p]] = CloseBracket ->
            IF depth = 1 THEN p + 1 ELSE CompositeSwar(s, p + 1, depth - 1)
       [] At(s, p) \in {Comma, Colon} -> CompositeSwar(s, p + 1, depth)
       [] OTHER -> CompositeSwar(s, Stride(s, p + 1, 8, Candidates), depth)

ScanValueEndSwar(s, start) ==
  IF start > Len(s) THEN 0
  ELSE IF s[start] = Quote THEN ScanQuotedSwar(s, start)
  ELSE IF s[start] \in {OpenBrace, OpenBracket} THEN CompositeSwar(s, start + 1, 1)
  ELSE FirstIn(s, start, ScalarStops)

-----------------------------------------------------------------------------
(* SIMD.                                                                   *)

RECURSIVE QuotedSimd(_, _)
QuotedSimd(s, p) ==
  LET Special(q) == {i \in Block : s[q + i] \in {Quote, Backslash}}
      stop == Stride(s, p, 16, Special)
  IN IF stop > Len(s) THEN 0
     ELSE IF s[stop] = Quote THEN stop + 1
     ELSE IF s[stop] = Backslash
          THEN IF stop + 1 > Len(s) THEN 0 ELSE QuotedSimd(s, stop + 2)
     ELSE QuotedSimd(s, stop + 1)

(* The backslashes just before p, not past the start of the value. *)
SlashRun(s, start, p) ==
  p - 1 - Max({start} \union {q \in start..(p - 1) : s[q] # Backslash})

(* The characters escaped in a block of 16, as simdjson finds them: an
   addition of the odd lanes carries through every run of backslashes.  The
   seventeenth bit says whether the run goes on in the next block. *)
Mask(lanes) == FoldSet(LAMBDA i, n : n + 2^i, 0, lanes)
OddLanes == 43690
(* Mutant: a run of backslashes ends with its block. *)
EscapedBlockOnly(backslashes, nextEscaped) ==
  [escaped |-> {i \in Block : \E j \in backslashes :
                 /\ i = j + 1 /\ Max({k \in {-1} \union Block : k <= j /\ k \notin backslashes}) % 2 # j % 2},
   next |-> 0]
EscapedMask16(backslashes, nextEscaped) ==
  LET b == Mask(backslashes)
      potential == b - (b & nextEscaped)
      terminal == ((((potential * 2) | OddLanes) - potential) ^^ OddLanes) % 65536
      escaped == terminal ^^ (b | nextEscaped)
  IN [escaped |-> {i \in Block : (escaped \div 2^i) % 2 = 1},
      next |-> (terminal & b) \div 32768]

(* Each lane with the exclusive or of the lanes up to it. *)
Shifted(bits, n) == {i + n : i \in bits}
PrefixXor16(bits) ==
  FoldLeft(LAMBDA acc, n : SymDiff(acc, Shifted(acc, n)), bits, <<1, 2, 4, 8>>)
    \intersect Block

(* A bracket outside strings: the level after it. *)
Level(s, p, depth) ==
  CASE Folded[s[p]] = OpenBracket -> depth + 1
    [] Folded[s[p]] = CloseBracket -> depth - 1
    [] OTHER -> depth

(* The last bytes, less than a block, go one by one.  Only Parity looks at
   the backslashes before a quote that opens a string. *)
RECURSIVE CompositeTail(_, _, _, _, _, _)
CompositeTail(s, start, p, depth, inString, parity) ==
  LET escaped == SlashRun(s, start, p) % 2 = 1
      level == IF inString \/ s[p] = Quote THEN depth ELSE Level(s, p, depth)
  IN IF p > Len(s) THEN 0
     ELSE IF level = 0 THEN p + 1
     ELSE CompositeTail(s, start, p + 1, level,
            IF s[p] # Quote THEN inString
            ELSE IF inString THEN escaped ELSE ~(parity /\ escaped), parity)

(* Walks the brackets of a block that its string mask leaves; the level, or
   the address after the value. *)
RECURSIVE Brackets(_, _, _, _)
Brackets(s, p, lanes, depth) ==
  LET i == Min(lanes)
      level == Level(s, p + i, depth)
  IN IF lanes = {} THEN [depth |-> depth, next |-> 0]
     ELSE IF level = 0 THEN [depth |-> 0, next |-> p + i + 1]
     ELSE Brackets(s, p, lanes \ {i}, level)

RECURSIVE Parity(_, _, _, _, _, _)
Parity(s, start, p, depth, inString, nextEscaped) ==
  LET quotes == {i \in Block : s[p + i] = Quote}
      slashes == {i \in Block : s[p + i] = Backslash}
      escapes == EscapedMask16(slashes, nextEscaped)
      prefix == PrefixXor16(quotes \ escapes.escaped)
      strings == IF inString THEN Block \ prefix ELSE prefix
      walked == Brackets(s, p,
        {i \in Block \ strings : Folded[s[p + i]] \in {OpenBracket, CloseBracket}}, depth)
  IN IF p + 15 > Len(s) THEN CompositeTail(s, start, p, depth, inString, TRUE)
     ELSE IF walked.next # 0 THEN walked.next
     ELSE Parity(s, start, p + 16, walked.depth, 15 \in strings, escapes.next)

(* Quotes and brackets in order.  A quote behind four or more backslashes
   sends the whole value to Parity; the test is made in whole blocks only. *)
RECURSIVE CompositeSimd(_, _, _, _, _)
CompositeSimd(s, start, p, depth, inString) ==
  LET run == SlashRun(s, start, p)
      inBlock == (p - start - 1) \div 16 < (Len(s) - start) \div 16
      level == IF inString \/ s[p] = Quote THEN depth ELSE Level(s, p, depth)
  IN IF ~inBlock THEN CompositeTail(s, start, p, depth, inString, FALSE)
     ELSE IF s[p] = Quote /\ inString /\ run >= 4
          THEN Parity(s, start, start + 1, 1, FALSE, 0)
     ELSE IF level = 0 THEN p + 1
     ELSE CompositeSimd(s, start, p + 1, level,
            IF s[p] = Quote THEN (inString => run % 2 = 1) ELSE inString)

(* Whole blocks also stop at vertical tab and form feed. *)
ScalarSimd(s, start) ==
  LET Stops(p) == {i \in Block :
        s[p + i] \in {Comma, CloseBracket, CloseBrace, 32} \union (9..13)}
      stop == Stride(s, start, 16, Stops)
      tail == start + 16 * ((Len(s) + 1 - start) \div 16)
  IN IF stop < tail THEN stop ELSE FirstIn(s, stop, ScalarStops)

ScanValueEndSimd(s, start) ==
  IF start > Len(s) THEN 0
  ELSE IF s[start] = Quote THEN QuotedSimd(s, start + 1)
  ELSE IF s[start] \in {OpenBrace, OpenBracket}
       THEN CompositeSimd(s, start, start + 1, 1, FALSE)
  ELSE ScalarSimd(s, start)

ScanValueEndParity(s, start) ==
  IF start <= Len(s) /\ s[start] \in {OpenBrace, OpenBracket}
  THEN Parity(s, start, start + 1, 1, FALSE, 0)
  ELSE ScanValueEndSimd(s, start)
=============================================================================
