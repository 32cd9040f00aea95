---------------------------- MODULE StringWrite ----------------------------
(***************************************************************************)
(* The kernels that print a string.  A retained payload is the text        *)
(* between the quotes of a token the parser accepted, so its escapes are   *)
(* well formed.  One without escapes is copied, one with escapes is        *)
(* printed the way JSON.stringify spells it.  The wide kernels first       *)
(* measure the text, claim that much of the output and then fill it.       *)
(***************************************************************************)
EXTENDS Bytes

LOCAL INSTANCE FiniteSetsExt
LOCAL INSTANCE SequencesExt

HexNibble(b) == IF b \in Digits THEN b - 48 ELSE (b | 32) - 97 + 10
DecodeHex4(s, p) ==
  HexNibble(s[p]) * 4096 + HexNibble(s[p + 1]) * 256
    + HexNibble(s[p + 2]) * 16 + HexNibble(s[p + 3])

(* The same on a packed word: the two bits above the low nibble of a
   letter's byte count the alphabet, and add nine. *)
Hex4ToU16(block) ==
  LET n == [i \in 0..3 |-> (block[i] & 15) + ((block[i] \div 64) % 4) * 9]
  IN (n[0] * 4096 + n[1] * 256 + n[2] * 16 + n[3]) % 65536

(* Four lowercase hex digits of a code unit, each nibble a lane. *)
U16ToHex4(code) ==
  LET nibble == <<code \div 4096, (code \div 256) % 16, (code \div 16) % 16,
                  code % 16>>
      alpha == [i \in 1..4 |-> ((nibble[i] + 6) \div 16) % 2]
  IN [i \in 1..4 |-> nibble[i] + 48 + alpha[i] * 39]

HasShortEscape == {8, 9, 10, 12, 13}
EscapedLength(b) ==
  IF b \in {Quote, Backslash} \union HasShortEscape THEN 2
  ELSE IF b < Space THEN 6 ELSE 1
ShortEscape(b) ==
  CASE b = 8 -> 98 [] b = 9 -> 116 [] b = 10 -> 110 [] b = 12 -> 102
    [] OTHER -> 114
EscapedByte(b) ==
  LET Lower(n) == IF n < 10 THEN 48 + n ELSE 87 + n
  IN CASE b \in {Quote, Backslash} -> <<Backslash, b>>
       [] b \in HasShortEscape -> <<Backslash, ShortEscape(b)>>
       [] b < Space /\ b \notin HasShortEscape ->
            <<Backslash, 117, 48, 48, Lower(b \div 16), Lower(b % 16)>>
       [] OTHER -> <<b>>

Utf8Length(code) ==
  IF code <= 127 THEN 1 ELSE IF code <= 2047 THEN 2
  ELSE IF code <= 65535 THEN 3 ELSE 4
WriteScalar(code) ==
  LET Low(k) == 128 + ((code \div (64^k)) % 64)
  IN CASE code <= 127 -> EscapedByte(code)
       [] code \in 128..2047 -> <<192 + code \div 64, Low(0)>>
       [] code \in 2048..65535 -> <<224 + code \div 4096, Low(1), Low(0)>>
       [] OTHER -> <<240 + code \div 262144, Low(2), Low(1), Low(0)>>

HighSurrogates == 55296..56319
LowSurrogates == 56320..57343
Surrogates == HighSurrogates \union LowSurrogates

(* Mutant: an escape at the very end of the payload is not taken for the
   second half of a pair. *)
DecodedShort(s, p) ==
  LET c == s[p + 1]
      code == DecodeHex4(s, p + 2)
      low == DecodeHex4(s, p + 8)
      paired == /\ code \in HighSurrogates
                /\ Len(s) + 1 - (p + 6) > 6
                /\ s[p + 6] = Backslash /\ s[p + 7] = 117
                /\ low \in LowSurrogates
      Short == CASE c \in {Quote, Backslash, 47} -> c
                 [] c = 98 -> 8 [] c = 102 -> 12 [] c = 110 -> 10
                 [] c = 114 -> 13 [] OTHER -> 9
  IN IF c # 117 THEN [code |-> Short, next |-> p + 2]
     ELSE IF paired
          THEN [code |-> 65536 + (code - 55296) * 1024 + low - 56320,
                next |-> p + 12]
          ELSE [code |-> code, next |-> p + 6]

(* What the escape at p stands for, and the address after it.  A high
   surrogate takes the low one that directly follows with it. *)
Decoded(s, p) ==
  LET c == s[p + 1]
      code == DecodeHex4(s, p + 2)
      low == DecodeHex4(s, p + 8)
      paired == /\ code \in HighSurrogates
                /\ Len(s) + 1 - (p + 6) >= 6
                /\ s[p + 6] = Backslash /\ s[p + 7] = 117
                /\ low \in LowSurrogates
      Short == CASE c \in {Quote, Backslash, 47} -> c
                 [] c = 98 -> 8 [] c = 102 -> 12 [] c = 110 -> 10
                 [] c = 114 -> 13 [] OTHER -> 9
  IN IF c # 117 THEN [code |-> Short, next |-> p + 2]
     ELSE IF paired
          THEN [code |-> 65536 + (code - 55296) * 1024 + low - 56320,
                next |-> p + 12]
          ELSE [code |-> code, next |-> p + 6]

(* Mutant: a lone surrogate keeps its own encoding. *)
KeyAsIs(code) == code

(* A key against the name of a field, which is UTF-8 without escapes.  A
   surrogate without its other half stands for U+FFFD, as it does in the
   name. *)
KeyScalar(code) == IF code \in Surrogates THEN 65533 ELSE code
RECURSIVE MatchJsonKey(_, _, _, _)
MatchJsonKey(s, p, expected, q) ==
  LET escape == Decoded(s, p)
      escaped == s[p] = Backslash
      code == IF escaped THEN KeyScalar(escape.code) ELSE s[p]
      bytes == IF ~escaped \/ code < 128 THEN <<code>> ELSE WriteScalar(code)
      after == q + Len(bytes)
  IN IF p > Len(s) THEN q = Len(expected) + 1
     ELSE /\ after <= Len(expected) + 1
          /\ SubSeq(expected, q, after - 1) = bytes
          /\ MatchJsonKey(s, IF escaped THEN escape.next ELSE p + 1, expected, after)

(* Mutant: a lone surrogate is measured as the three bytes of its UTF-8. *)
CodeLengthUtf8(code) ==
  IF code < 32 \/ code \in {Quote, Backslash} THEN EscapedLength(code)
  ELSE Utf8Length(code)

CodeLength(code) ==
  IF code \in Surrogates THEN 6
  ELSE IF code < 32 \/ code \in {Quote, Backslash} THEN EscapedLength(code)
  ELSE Utf8Length(code)
WriteCode(code) ==
  IF code \in Surrogates THEN <<Backslash, 117>> \o U16ToHex4(code)
  ELSE WriteScalar(code)

-----------------------------------------------------------------------------
(* The scalar kernel writes as it goes: a clean run, then an escape.       *)

WriteCanonicalCodeUnit(code) ==
  CASE code \in {Quote, Backslash} \union HasShortEscape -> EscapedByte(code)
    [] code \in Surrogates \union ((0..31) \ HasShortEscape) ->
         <<Backslash, 117>> \o U16ToHex4(code)
    [] OTHER -> WriteScalar(code)

RECURSIVE EscapedSpan(_, _, _)
EscapedSpan(s, run, p) ==
  IF p > Len(s) THEN SubSeq(s, run, p - 1)
  ELSE IF s[p] # Backslash THEN EscapedSpan(s, run, p + 1)
  ELSE LET d == Decoded(s, p)
       IN SubSeq(s, run, p - 1) \o WriteCanonicalCodeUnit(d.code)
            \o EscapedSpan(s, d.next, d.next)

Quoted(body) == <<Quote>> \o body \o <<Quote>>

SerializeNaive(s, escaped) ==
  Quoted(IF escaped THEN EscapedSpan(s, 1, 1) ELSE s)

-----------------------------------------------------------------------------
(* The SWAR kernel.  Its two passes each decode every escape.              *)

RECURSIVE SwarRequired(_, _)
SwarRequired(s, p) ==
  IF p > Len(s) THEN 0
  ELSE IF s[p] # Backslash THEN 1 + SwarRequired(s, p + 1)
  ELSE LET d == Decoded(s, p) IN CodeLength(d.code) + SwarRequired(s, d.next)

RECURSIVE SwarRuns(_, _, _)
SwarRuns(s, run, p) ==
  IF p > Len(s) THEN SubSeq(s, run, p - 1)
  ELSE IF s[p] # Backslash THEN SwarRuns(s, run, p + 1)
  ELSE LET d == Decoded(s, p)
       IN SubSeq(s, run, p - 1) \o WriteCode(d.code)
            \o SwarRuns(s, d.next, d.next)

SerializeSwar(s, escaped) ==
  IF escaped
  THEN [required |-> 2 + SwarRequired(s, 1), bytes |-> Quoted(SwarRuns(s, 1, 1))]
  ELSE [required |-> Len(s) + 2, bytes |-> Quoted(s)]

-----------------------------------------------------------------------------
(* The SIMD kernel skips clean blocks of 16 in both passes.  Four escapes  *)
(* in a block make it start over as the SWAR kernel.                       *)

Backslashes(s, p) == {i \in 0..15 : s[p + i] = Backslash}

Clean(s, p) ==
  LET Slash(q) == Backslashes(s, q)
      stop == Stride(s, p, 16, Slash)
      rest == {q \in stop..Len(s) : s[q] = Backslash}
  IN IF rest = {} THEN Len(s) + 1 ELSE Min(rest)

(* Whether the measuring pass meets a dense block: one it loads, with its
   first escape, on the way to the escape at hand. *)
Dense(s, p) ==
  LET Slash(q) == Backslashes(s, q)
      blocks == {q \in p..(Len(s) - 15) :
                   (q - p) % 16 = 0 /\ Slash(q) # {}}
  IN blocks # {} /\ Cardinality(Slash(Min(blocks))) >= 4

RECURSIVE SimdRequired(_, _)
SimdRequired(s, p) ==
  LET stop == Clean(s, p)
      d == Decoded(s, stop)
  IN IF stop > Len(s) THEN [dense |-> FALSE, length |-> Len(s) + 1 - p]
     ELSE IF Dense(s, p) THEN [dense |-> TRUE, length |-> 0]
     ELSE LET rest == SimdRequired(s, d.next)
          IN [rest EXCEPT !.length = @ + stop - p + CodeLength(d.code)]

RECURSIVE SimdRuns(_, _)
SimdRuns(s, run) ==
  LET stop == Clean(s, run)
      d == Decoded(s, stop)
  IN SubSeq(s, run, stop - 1)
       \o (IF stop > Len(s) THEN <<>> ELSE WriteCode(d.code) \o SimdRuns(s, d.next))

SerializeSimd(s, escaped) ==
  LET measured == SimdRequired(s, 1)
  IN IF ~escaped THEN [required |-> Len(s) + 2, bytes |-> Quoted(s)]
     ELSE IF measured.dense THEN SerializeSwar(s, TRUE)
     ELSE [required |-> 2 + measured.length, bytes |-> Quoted(SimdRuns(s, 1))]

-----------------------------------------------------------------------------
(* Printing a string of the host, UTF-8 without escapes.  Words without a  *)
(* candidate are copied; after two words in a row that have one, the rest  *)
(* goes byte by byte.                                                      *)

(* The text in order, cut into what is copied and what goes byte by byte. *)
RECURSIVE Chunks(_, _, _)
Chunks(s, p, specials) ==
  LET word == SubSeq(s, p, p + 7)
  IN IF Len(s) + 1 - p < 8 \/ specials >= 2
     THEN <<[copied |-> FALSE, bytes |-> SubSeq(s, p, Len(s))]>>
     ELSE LET clean == Escapable(Load(s, p)) = {}
          IN <<[copied |-> clean, bytes |-> word]>>
               \o Chunks(s, p + 8, IF clean THEN 0 ELSE specials + 1)

MeasureUtf8(s) ==
  LET Length(c) == IF c.copied THEN 8
                   ELSE FoldLeft(LAMBDA n, b : n + EscapedLength(b), 0, c.bytes)
  IN FoldLeft(LAMBDA n, c : n + Length(c), 2, Chunks(s, 1, 0))

WriteUtf8(s) ==
  LET Written(c) == IF c.copied THEN c.bytes
        ELSE FlattenSeq([i \in DOMAIN c.bytes |-> EscapedByte(c.bytes[i])])
      chunks == Chunks(s, 1, 0)
  IN Quoted(FlattenSeq([i \in DOMAIN chunks |-> Written(chunks[i])]))
=============================================================================
