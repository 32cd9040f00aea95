----------------------------- MODULE JsonTexts -----------------------------
(***************************************************************************)
(* The JSON texts of RFC 8259, as what they say: Readings(s, depth) are    *)
(* the values that s spells with at most `depth` levels below the root,    *)
(* none for a text that is not JSON and never two.  A value keeps the      *)
(* spelling of its strings, numbers and literals.                          *)
(***************************************************************************)
EXTENDS Bytes

LOCAL INSTANCE SequencesExt
LOCAL INSTANCE FiniteSetsExt

Strings == INSTANCE JsonStrings
Decimals == INSTANCE JsonNumbers

Blank == {32, 9, 10, 13}
Trimmed(s) ==
  LET solid == {i \in DOMAIN s : s[i] \notin Blank}
  IN IF solid = {} THEN <<>> ELSE SubSeq(s, Min(solid), Max(solid))

IsString(s) == Strings!Token(s, FALSE).next = Len(s) + 1
AllDigits(s) == s # <<>> /\ \A i \in DOMAIN s : s[i] \in Digits
IsInteger(s) == AllDigits(s) /\ (s[1] = 48 => Len(s) = 1)
IsFraction(s) == s # <<>> /\ s[1] = 46 /\ AllDigits(Tail(s))
IsExponent(s) ==
  /\ s # <<>> /\ s[1] \in {69, 101}
  /\ \/ AllDigits(Tail(s))
     \/ Len(s) > 1 /\ s[2] \in {43, 45} /\ AllDigits(SubSeq(s, 3, Len(s)))
IsNumber(s) ==
  \E sign \in 0..Min({1, Len(s)}) : \E i \in sign..Len(s) : \E j \in i..Len(s) :
    /\ sign = 1 => s[1] = 45
    /\ IsInteger(SubSeq(s, sign + 1, i))
    /\ i = j \/ IsFraction(SubSeq(s, i + 1, j))
    /\ j = Len(s) \/ IsExponent(SubSeq(s, j + 1, Len(s)))
Literals ==
  {<<116, 114, 117, 101>>, <<102, 97, 108, 115, 101>>, <<110, 117, 108, 108>>}

Value(kind, key, text, items) ==
  [kind |-> kind, key |-> key, text |-> text, items |-> items]
Cuts(s, byte) == {i \in DOMAIN s : s[i] = byte}
Inside(s) == SubSeq(s, 2, Len(s) - 1)
Before(s, i) == SubSeq(s, 1, i - 1)
After(s, i) == SubSeq(s, i + 1, Len(s))

RECURSIVE Readings(_, _), Lists(_, _, _), Entry(_, _, _)
Entry(s, depth, kind) ==
  IF kind = "array" THEN Readings(s, depth)
  ELSE UNION {{[v EXCEPT !.key = Trimmed(Before(s, i))] : v \in Readings(After(s, i), depth)} :
                i \in {c \in Cuts(s, 58) : IsString(Trimmed(Before(s, c)))}}
Lists(s, depth, kind) ==
  LET FirstUpTo(i) ==
        LET firsts == Entry(Before(s, i), depth, kind)
            rests == IF firsts = {} THEN {} ELSE Lists(After(s, i), depth, kind)
        IN {<<v>> \o rest : v \in firsts, rest \in rests}
  IN {<<v>> : v \in Entry(s, depth, kind)} \union UNION {FirstUpTo(i) : i \in Cuts(s, 44)}
Readings(s, depth) ==
  LET t == Trimmed(s)
      Bracketed(open, close) == Len(t) > 1 /\ t[1] = open /\ Last(t) = close
      Of(kind) ==
        IF Trimmed(Inside(t)) = <<>> THEN {Value(kind, <<>>, <<>>, <<>>)}
        ELSE {Value(kind, <<>>, <<>>, items) : items \in Lists(Inside(t), depth - 1, kind)}
  IN CASE t = <<>> \/ depth < 0 -> {}
       [] Bracketed(91, 93) -> Of("array")
       [] Bracketed(123, 125) -> Of("object")
       [] OTHER -> IF IsString(t) \/ IsNumber(t) \/ t \in Literals
                   THEN {Value("scalar", <<>>, t, <<>>)} ELSE {}

(* The text of a value as JSON.stringify spells it; keys keep their spelling. *)
RECURSIVE Compact(_)
Compact(t) ==
  LET key == IF t.key = <<>> THEN <<>> ELSE t.key \o <<58>>
      items == FlattenSeq([i \in DOMAIN t.items |->
                 (IF i > 1 THEN <<44>> ELSE <<>>) \o Compact(t.items[i])])
  IN key \o
     CASE t.kind = "array" -> <<91>> \o items \o <<93>>
       [] t.kind = "object" -> <<123>> \o items \o <<125>>
       [] t.kind = "scalar" /\ t.text[1] = Quote ->
            Strings!Canonical(SubSeq(t.text, 2, Len(t.text) - 1))
       [] t.kind = "scalar" /\ t.text[1] \in Digits \union {45} -> Decimals!Canonical(t.text)
       [] OTHER -> t.text

(* Whether a text has whitespace between its tokens. *)
RECURSIVE Spaced(_, _)
Spaced(s, inString) ==
  IF s = <<>> THEN FALSE
  ELSE IF inString /\ s[1] = Backslash THEN Spaced(SubSeq(s, 3, Len(s)), TRUE)
  ELSE (~inString /\ s[1] \in Blank) \/ Spaced(Tail(s), inString # (s[1] = Quote))
=============================================================================
