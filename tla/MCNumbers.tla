----------------------------- MODULE MCNumbers -----------------------------
(***************************************************************************)
(* Numbers put together from a sign, an integer, a fraction, an exponent   *)
(* and what follows, at the edges of every kernel; arrays of up to three   *)
(* elements; and a writer of a few small outputs.                          *)
(***************************************************************************)
EXTENDS Numbers, Writer

LOCAL INSTANCE SequencesExt
LOCAL INSTANCE FiniteSetsExt

CONSTANT MaxElements

Json == INSTANCE JsonNumbers

MCOutputs == {16} \X {12, 49, 60, 130}

VARIABLES
  text, stage,        \* a number, and how much of it is there
  elements            \* of an array
vars == <<text, stage, elements, writer>>

Ones(n) == [i \in 1..n |-> 49]
Nines(n) == [i \in 1..n |-> 57]
ZerosOf(n) == [i \in 1..n |-> 48]
Last1(d, digit) == [d EXCEPT ![Len(d)] = digit]

Integers0 ==
  { <<>>, <<48>>, <<55>>, <<48, 48, 52, 50>>, Ones(3), Ones(4), Ones(8), Nines(8), Ones(9),
    Nines(10), ZerosOf(7) \o <<49>>, <<50, 53, 53>>, <<50, 53, 54>>,
    <<52, 50, 57, 52, 57, 54, 55, 50, 57, 53>>, <<52, 50, 57, 52, 57, 54, 55, 50, 57, 54>>,
    MaxSafe, Last1(MaxSafe, 51), Nines(19), I64Max, I64MinMagnitude, Last1(I64Max, 57),
    U64Max, Last1(U64Max, 54), Ones(21), Ones(12), <<49>> \o ZerosOf(18) }
Fractions ==
  { <<>>, <<Dot>>, <<Dot, 53>>, <<Dot, 48>>, <<Dot, 49, 50, 97, 52>>,
    <<Dot>> \o Ones(4), <<Dot>> \o Ones(9), <<Dot>> \o Ones(12) \o ZerosOf(4),
    <<Dot>> \o ZerosOf(24) \o <<53>>, <<Dot>> \o ZerosOf(90) \o Ones(2) }
Exponents ==
  { <<>>, <<101>>, <<69, Plus1>>, <<69, 53>>, <<101, Minus1, 53>>, <<101, Plus1, 50, 50>>,
    <<101, 50, 51>>, <<101, 48, 48, 49, 50>>, <<101, 49, 48, 48, 48>> }
Followers == {<<>>, <<Comma>>, <<120, 49>>}

Elements ==
  { <<>>, <<55>>, <<48>>, <<48, 48>>, <<32, 49, 32>>, U64Max, Last1(U64Max, 54), Nines(19),
    True, False, Null }

Init ==
  /\ text = <<>> /\ elements = <<>>
  /\ \/ stage = "sign" /\ BeginWriter(0, 0)
     \/ stage = "array" /\ BeginWriter(0, 0)
     \/ stage = "writer" /\ \E output \in Outputs : BeginWriter(output[1], output[2])

Add(from, to, parts) ==
  /\ stage = from /\ stage' = to
  /\ \E part \in parts : text' = text \o part
  /\ UNCHANGED <<elements, writer>>
AddElement ==
  /\ stage = "array" /\ Len(elements) < MaxElements
  /\ \E e \in Elements : elements' = elements \o <<e>>
  /\ UNCHANGED <<text, stage, writer>>
WriteMore == stage = "writer" /\ Write /\ UNCHANGED <<text, stage, elements>>
Next ==
  \/ Add("sign", "integer", {<<>>, <<Minus1>>})
  \/ Add("integer", "fraction", Integers0)
  \/ Add("fraction", "exponent", Fractions)
  \/ Add("exponent", "rest", Exponents)
  \/ Add("rest", "done", Followers)
  \/ AddElement
  \/ WriteMore
Spec == Init /\ [][Next]_vars

-----------------------------------------------------------------------------
IsText == stage \in {"fraction", "exponent", "rest", "done"}

(* A number of four digits that begins with a zero. *)
QuickZero ==
  /\ At(text, 1) = 48 /\ Parse4Digits(text, 1) # NoDigits
  /\ At(text, 5) \notin NumberBytes

Says(r) ==
  LET solid == {i \in DOMAIN r.mantissa : r.mantissa[i] # 48}
  IN IF solid = {} THEN [negative |-> r.negative, digits |-> <<>>, power |-> 0]
     ELSE [negative |-> r.negative, digits |-> SubSeq(r.mantissa, 1, Max(solid)),
           power |-> r.scale + Len(r.mantissa) - Max(solid)]
Faithful(r) ==
  /\ r.next = SkipNumber(text, 1)
  /\ r.next # 0 /\ r.way # "host" =>
       /\ Says(r) = Json!Number(SubSeq(text, 1, r.next - 1))
       /\ r.way = "exact" => ~Exceeds(r.mantissa, MaxSafe)
       /\ r.scale \in -22..22

(* Every kernel reads the number that the grammar delimits.  Where it does
   not leave the conversion to the host, its significand and scale are the
   number itself: no digit lost, nothing wrapped, and within the range where
   one rounding is exact (scanner.ts parseNumber, swar/float.ts at each
   packing width).  Numbers of four digits that begin with a zero are set
   apart: the packed paths take a leading zero that RFC 8259 forbids. *)
NumbersExact ==
  IsText =>
    /\ Faithful(ParseNumber(text, 1))
    /\ Faithful(DeserializeFloat(text, 1, 0))
    /\ ~QuickZero => \A width \in {4, 8} : Faithful(DeserializeFloat(text, 1, width))

(* Integers are read to the end of their digits, refused when they do not
   fit their type or begin with a superfluous zero, whatever chunks they are
   read in, and print back to their digits (swar/integer.ts, util/swar-int.ts,
   serialize/integer.ts). *)
U32Max == <<52, 50, 57, 52, 57, 54, 55, 50, 57, 53>>
Maxima == {<<50, 53, 53>>, <<54, 53, 53, 51, 53>>, U32Max, U64Max}
Reads(r, from, maximum) ==
  LET next == SkipInteger(text, from)
      value == Stripped(SubSeq(text, from, next - 1))
  IN r = IF next = 0 \/ Exceeds(value, maximum) THEN NoInteger ELSE Stop(next, value)
IntegersExact ==
  IsText =>
    LET negative == At(text, 1) = Minus1
        from == IF negative THEN 2 ELSE 1
        digits == text # <<>> /\ \A i \in DOMAIN text : text[i] \in Digits
        n == Len(text)
        upper == IF n > 8 THEN Json!Decimal(SubSeq(text, 1, n - 8)) ELSE 0
        lower == Json!Decimal(IF n > 8 THEN SubSeq(text, n - 7, n) ELSE text)
    IN /\ \A maximum \in Maxima : Reads(DeserializeUnsigned(text, 1, maximum), 1, maximum)
       /\ Reads(ParseU64Element(text, 1), 1, U64Max)
       /\ Reads(DeserializeInteger(text, 1), from,
                IF negative THEN I64MinMagnitude ELSE I64Max)
       /\ digits => \A maximum \in Maxima :
            LET exact == ParseUnsignedExact(text, maximum)
            IN IF Exceeds(Stripped(text), maximum) THEN exact = NoInteger
               ELSE exact.value = Stripped(text)
       /\ digits /\ SkipInteger(text, 1) = n + 1 /\ ~Exceeds(text, U32Max) =>
            WriteU32(upper, lower) = text

(* An array of scalars holds its elements, in order, in exactly the places
   that counting them provided; one bad element, or one place too few, and
   there is no array (swar/array: shared, integer and bool). *)
ArrayText ==
  <<OpenBracket>>
    \o FlattenSeq([i \in DOMAIN elements |->
         (IF i > 1 THEN <<Comma, Space>> ELSE <<>>) \o elements[i]])
    \o <<CloseBracket>>
Bare(e) == SelectSeq(e, LAMBDA b : b # Space)
Legal(e, kind) ==
  LET b == Bare(e)
  IN IF kind = "boolean" THEN b \in {True, False}
     ELSE b # <<>> /\ SkipInteger(b, 1) = Len(b) + 1 /\ ~Exceeds(b, U64Max)
Meant(e, kind) ==
  IF kind = "boolean" THEN (IF e = True THEN 1 ELSE 0) ELSE Stripped(Bare(e))
ArraysExact ==
  LET n == Len(elements)
      counted == CountArrayElementsSwar(ArrayText)
  IN stage = "array" =>
       \A kind \in {"integer", "boolean"} :
         LET Read(capacity) == IF kind = "integer" THEN DeserializeU64Array(ArrayText, capacity)
                               ELSE DeserializeBooleanArray(ArrayText, capacity)
             legal == elements = <<<<>>>> \/ \A i \in 1..n : Legal(elements[i], kind)
             items == IF elements = <<<<>>>> THEN <<>> ELSE elements
         IN IF legal
            THEN /\ counted.count = Len(items) /\ counted.next = Len(ArrayText) + 1
                 /\ Read(counted.count) =
                      Stop(Len(ArrayText) + 1, [i \in DOMAIN items |-> Meant(items[i], kind)])
                 /\ items # <<>> => Read(counted.count - 1) = NoInteger
            ELSE Read(n) = NoInteger
=============================================================================
