---------------------------- MODULE JsonStrings ----------------------------
(***************************************************************************)
(* What a JSON string token is, after RFC 8259 and the table of            *)
(* well-formed UTF-8, and how JSON.stringify spells the string it stands   *)
(* for.  The kernels are compared with these definitions.                  *)
(***************************************************************************)
EXTENDS Bytes

LOCAL INSTANCE FiniteSetsExt
LOCAL INSTANCE SequencesExt
LOCAL INSTANCE TLC

(* A unit is one character of a payload as it is spelled: each form gives
   the bytes allowed at each place. *)
Follow == 128..191
RawForms ==
  { <<(32..127) \ {Quote, Backslash}>>, <<194..223, Follow>>,
    <<{224}, 160..191, Follow>>, <<(225..239) \ {237}, Follow, Follow>>,
    <<{237}, 128..159, Follow>>, <<{240}, 144..191, Follow, Follow>>,
    <<241..243, Follow, Follow, Follow>>, <<{244}, 128..143, Follow, Follow>> }
EscapeForms ==
  { <<{Backslash}, {34, 47, 92, 98, 102, 110, 114, 116}>>,
    <<{Backslash}, {117}, HexDigits, HexDigits, HexDigits, HexDigits>> }

(* With trust in the sender every byte from 128 on is a unit. *)
Forms(trusted) ==
  EscapeForms \union (IF trusted THEN {<<(32..255) \ {Quote, Backslash}>>}
                      ELSE RawForms)

Matches(s, p, form) ==
  /\ p + Len(form) - 1 <= Len(s)
  /\ \A i \in DOMAIN form : s[p + i - 1] \in form[i]

(* The address after the payload that starts at p: the first byte where no
   unit starts. *)
RECURSIVE AfterUnits(_, _, _)
AfterUnits(s, p, forms) ==
  LET matching == {f \in forms : Matches(s, p, f)}
  IN IF matching = {} THEN p
     ELSE AfterUnits(s, p + Len(CHOOSE f \in matching : TRUE), forms)

(* The token at the start of s. *)
Token(s, trusted) ==
  LET stop == AfterUnits(s, 2, Forms(trusted))
  IN IF s # <<>> /\ s[1] = Quote /\ stop <= Len(s) /\ s[stop] = Quote
     THEN [next |-> stop + 1,
           escaped |-> \E p \in 2..(stop - 1) : s[p] = Backslash]
     ELSE [next |-> 0, escaped |-> FALSE]

IsPayload(s) == AfterUnits(s, 1, Forms(FALSE)) = Len(s) + 1

(* The elements of a payload: raw characters as their bytes, escapes as
   UTF-16 code units. *)
Raw(bytes) == [raw |-> bytes, unit |-> -1]
Unit(u) == [raw |-> <<>>, unit |-> u]
Short == (34 :> 34) @@ (47 :> 47) @@ (92 :> 92) @@ (98 :> 8) @@ (102 :> 12)
           @@ (110 :> 10) @@ (114 :> 13) @@ (116 :> 9)
HexValue(b) ==
  CASE b \in 48..57 -> b - 48 [] b \in 65..70 -> b - 55 [] OTHER -> b - 87
Element(u) ==
  CASE u[1] # Backslash -> Raw(u)
    [] Len(u) = 2 -> Unit(Short[u[2]])
    [] OTHER -> Unit(FoldLeft(LAMBDA n, b : 16 * n + HexValue(b), 0,
                              SubSeq(u, 3, 6)))

RECURSIVE Elements(_)
Elements(s) ==
  IF s = <<>> THEN <<>>
  ELSE LET form == CHOOSE f \in Forms(FALSE) : Matches(s, 1, f)
           n == Len(form)
       IN <<Element(SubSeq(s, 1, n))>> \o Elements(SubSeq(s, n + 1, Len(s)))

(* QuoteJSONString of ECMA-262 over those elements: surrogates that pair up
   are one character, a lone one is escaped. *)
Lower == <<48,49,50,51,52,53,54,55,56,57,97,98,99,100,101,102>>
UnicodeEscape(u) ==
  <<Backslash, 117>> \o [i \in 1..4 |-> Lower[((u \div 16^(4 - i)) % 16) + 1]]
Named == {8, 9, 10, 12, 13, Quote, Backslash}
Spelling(u) ==
  CASE u \in Named -> <<Backslash, CHOOSE c \in DOMAIN Short : Short[c] = u>>
    [] u \in (0..31) \ Named -> UnicodeEscape(u)
    [] u \in (32..127) \ Named -> <<u>>
    [] u \in 128..2047 -> <<192 + (u \div 64), 128 + (u % 64)>>
    [] u \in 55296..57343 -> UnicodeEscape(u)
    [] u \in (2048..65535) \ (55296..57343) ->
         <<224 + (u \div 4096), 128 + ((u \div 64) % 64), 128 + (u % 64)>>
PairSpelling(high, low) ==
  LET u == 65536 + (high - 55296) * 1024 + (low - 56320)
  IN <<240 + (u \div 262144), 128 + ((u \div 4096) % 64),
       128 + ((u \div 64) % 64), 128 + (u % 64)>>

RECURSIVE Spelled(_)
Spelled(e) ==
  IF e = <<>> THEN <<>>
  ELSE IF /\ Len(e) > 1 /\ e[1].unit \in 55296..56319
          /\ e[2].unit \in 56320..57343
       THEN PairSpelling(e[1].unit, e[2].unit) \o Spelled(SubSeq(e, 3, Len(e)))
  ELSE (IF e[1].unit = -1 THEN e[1].raw ELSE Spelling(e[1].unit))
         \o Spelled(Tail(e))

(* The string itself in UTF-8, U+FFFD standing for a lone surrogate. *)
Utf8(u) ==
  IF u < 128 THEN <<u>>
  ELSE IF u \in 55296..57343 THEN <<239, 191, 189>> ELSE Spelling(u)
RECURSIVE Meaning(_)
Meaning(e) ==
  IF e = <<>> THEN <<>>
  ELSE IF /\ Len(e) > 1 /\ e[1].unit \in 55296..56319
          /\ e[2].unit \in 56320..57343
       THEN PairSpelling(e[1].unit, e[2].unit) \o Meaning(SubSeq(e, 3, Len(e)))
  ELSE (IF e[1].unit = -1 THEN e[1].raw ELSE Utf8(e[1].unit)) \o Meaning(Tail(e))

Canonical(s) == <<Quote>> \o Spelled(Elements(s)) \o <<Quote>>

(* The spelling of a string given as UTF-8 without escapes. *)
QuotedText(s) ==
  <<Quote>> \o FlattenSeq([i \in DOMAIN s |->
      IF s[i] < 128 THEN Spelling(s[i]) ELSE <<s[i]>>]) \o <<Quote>>
=============================================================================
