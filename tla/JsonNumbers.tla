---------------------------- MODULE JsonNumbers ----------------------------
(***************************************************************************)
(* What a JSON number says, and how ECMA-262 spells it, for spellings that *)
(* a double holds apart (at most 15 digits and a moderate exponent).  A    *)
(* value is a sign, its significant digits (no zero at either end, none    *)
(* for zero) and the power of ten of the last digit.                       *)
(***************************************************************************)
EXTENDS Bytes

LOCAL INSTANCE SequencesExt
LOCAL INSTANCE FiniteSetsExt

Decimal(digits) == FoldLeft(LAMBDA n, d : 10 * n + d - 48, 0, digits)
AsDigits(n) ==
  LET size == CHOOSE k \in 1..10 : n < 10^k /\ (k = 1 \/ n >= 10^(k - 1))
  IN [i \in 1..size |-> 48 + ((n \div 10^(size - i)) % 10)]
Zeros(n) == [i \in 1..n |-> 48]

(* The first place of a byte of the set, or the end. *)
Place(s, bytes) == Min({Len(s) + 1} \union {i \in DOMAIN s : s[i] \in bytes})

Number(s) ==
  LET e == Place(s, {69, 101})
      unsigned == SelectSeq(SubSeq(s, 1, e - 1), LAMBDA b : b # 45)
      point == Place(unsigned, {46})
      all == SelectSeq(unsigned, LAMBDA b : b # 46)
      places == Len(all) - (point - 1)
      power == SelectSeq(SubSeq(s, e + 1, Len(s)), LAMBDA b : b \in Digits)
      scale == Decimal(power) * IF e < Len(s) /\ s[e + 1] = 45 THEN -1 ELSE 1
      solid == {i \in DOMAIN all : all[i] # 48}
  IN IF solid = {} THEN [negative |-> s[1] = 45, digits |-> <<>>, power |-> 0]
     ELSE [negative |-> s[1] = 45,
           digits |-> SubSeq(all, Min(solid), Max(solid)),
           power |-> scale - places + (Len(all) - Max(solid))]

(* Number::toString; the sign of zero is not printed. *)
Canonical(s) ==
  LET v == Number(s)
      d == v.digits
      n == Len(d) + v.power
      exponent == <<101, IF n < 1 THEN 45 ELSE 43>> \o AsDigits(IF n < 1 THEN 1 - n ELSE n - 1)
      magnitude ==
        CASE d = <<>> -> <<48>>
          [] d # <<>> /\ v.power >= 0 /\ n <= 21 -> d \o Zeros(v.power)
          [] d # <<>> /\ v.power < 0 /\ n \in 1..21 ->
               SubSeq(d, 1, n) \o <<46>> \o SubSeq(d, n + 1, Len(d))
          [] d # <<>> /\ n \in -5..0 -> <<48, 46>> \o Zeros(-n) \o d
          [] OTHER -> (IF Len(d) = 1 THEN d ELSE <<d[1], 46>> \o Tail(d)) \o exponent
  IN (IF v.negative /\ d # <<>> THEN <<45>> ELSE <<>>) \o magnitude
=============================================================================
