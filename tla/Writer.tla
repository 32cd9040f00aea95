------------------------------- MODULE Writer -------------------------------
(***************************************************************************)
(* The JSON writer that the serializers share (assembly/serialize/writer.ts*)
(* and integer.ts).  Bytes go to the output between `start` and `end`; an  *)
(* operation that does not fit changes nothing but records how much would  *)
(* have been needed.  The content is abstracted to its length, and         *)
(* `touched` is the end of the furthest store: formatting in place writes  *)
(* wider characters than it leaves.  Sizes and addresses are words, whose  *)
(* sums wrap.                                                              *)
(***************************************************************************)
EXTENDS Integers, Sequences

CONSTANTS
  Addresses,          \* how many there are, 2^32
  Outputs,            \* where an output may be: pairs of an address and a size
  Lengths,            \* lengths of literals, raw bytes and claimed regions
  ArrayLengths,       \* lengths of arrays of doubles
  Widths              \* formatted lengths of doubles that are no integers

NumberScratch == 128

(* The host keeps the number scratch between an output and the heap. *)
ASSUME WriterAssumption ==
  /\ Addresses \in Nat /\ Addresses > NumberScratch
  /\ Outputs \subseteq Nat \X Nat
  /\ \A output \in Outputs : output[1] + output[2] + NumberScratch < Addresses
  /\ Lengths \subseteq 0..(Addresses - 1) /\ ArrayLengths \subseteq 0..(Addresses - 1)
  /\ Widths \subseteq 1..24           \* the longest double takes 24 characters

VARIABLES
  start, cursor, end, required, touched, failed,
  place, left         \* in an array: where the next element goes, how many are left
writer == <<start, cursor, end, required, touched, failed, place, left>>

Larger(a, b) == IF a < b THEN b ELSE a

(* The sum of two words. *)
Wrap(n) == IF n < Addresses THEN n ELSE n - Addresses

BeginWriter(output, capacity) ==
  /\ start = output /\ cursor = output /\ end = output + capacity
  /\ required = 0 /\ touched = output /\ failed = FALSE
  /\ place = 0 /\ left = 0

Reserve(length) == LET next == Wrap(cursor + length) IN next <= end /\ next >= cursor
Refuse(length) ==
  /\ required' = Larger(required, Wrap(cursor - start + length))
  /\ failed' = TRUE
  /\ UNCHANGED <<start, cursor, end, touched, place, left>>
Store(length, extent) ==
  /\ cursor' = cursor + length
  /\ touched' = Larger(touched, extent)
  /\ UNCHANGED <<start, end, required, failed, place, left>>
WriteExactly(length) ==
  IF Reserve(length) THEN Store(length, cursor + length) ELSE Refuse(length)

(* Digits of a 32-bit integer, at the cursor with room to spare, else by way
   of the number scratch. *)
WriteShortInteger(length, headroom) ==
  IF cursor + headroom <= end THEN Store(length, cursor + length) ELSE WriteExactly(length)

(* Mutant: room for one character of each is enough. *)
NarrowHeadroom == 24

(* 24 characters of two bytes, narrowed in place. *)
Headroom == 48
WriteFormatted(width) ==
  IF cursor + Headroom <= end THEN Store(width, cursor + 2 * width) ELSE WriteExactly(width)

(* A number: how it is written, and its length. *)
Numbers32 == [kind : {"integer"}, length : 1..10] \union [kind : {"negative"}, length : 2..11]
Doubles == [kind : {"double"}, length : Widths] \union [kind : {"null"}, length : {4}]
Values == Numbers32 \union Doubles
WriteF64(v) ==
  \/ v.kind = "null" /\ WriteExactly(4)
  \/ v.kind = "integer" /\ WriteShortInteger(v.length, 10)
  \/ v.kind = "negative" /\ WriteShortInteger(v.length, 11)
  \/ v.kind = "double" /\ WriteFormatted(v.length)

(* All numbers of an array behind one check: each takes at most 24
   characters and a comma, and the last is formatted two bytes wide. *)
ArrayBytes(n) == Wrap(50 + 25 * n)
MaxArray == (Addresses - 3) \div 25
WriteF64Array(n) ==
  \/ /\ n > MaxArray
     /\ failed' = TRUE
     /\ UNCHANGED <<start, cursor, end, required, touched, place, left>>
  \/ n <= MaxArray /\ ~Reserve(ArrayBytes(n)) /\ Refuse(ArrayBytes(n))
  \/ n = 0 /\ Reserve(ArrayBytes(n)) /\ Store(2, cursor + 2)
  \/ /\ n \in 1..MaxArray /\ Reserve(ArrayBytes(n))
     /\ place' = cursor + 1 /\ left' = n
     /\ touched' = Larger(touched, cursor + 1)
     /\ UNCHANGED <<start, cursor, end, required, failed>>

(* One turn of its loop: an element and a comma, which becomes the bracket
   behind the last. *)
Extent(v) == IF v.kind = "double" THEN 2 * v.length ELSE v.length
WriteElement(v) ==
  LET next == place + v.length + 1
  IN /\ left > 0
     /\ left' = left - 1
     /\ touched' = Larger(touched, Larger(place + Extent(v), next))
     /\ place' = IF left = 1 THEN 0 ELSE next
     /\ cursor' = IF left = 1 THEN next ELSE cursor
     /\ UNCHANGED <<start, end, required, failed>>

(* The caller stops at the first refusal and reports what is required. *)
Write ==
  \/ /\ ~failed /\ left = 0
     /\ \/ WriteExactly(1)
        \/ \E length \in Lengths : WriteExactly(length)
        \/ \E v \in Values : WriteF64(v)
        \/ \E n \in ArrayLengths : WriteF64Array(n)
  \/ \E v \in Values : WriteElement(v)

WriterSpec ==
  /\ \E output \in Outputs : BeginWriter(output[1], output[2])
  /\ [][Write]_writer

(* Nothing is stored outside the output, not even for a moment: by a number
   formatted in place, nor by the elements of an array of doubles, which are
   checked once for all (reserve and writeF64Array). *)
InBounds == start <= cursor /\ cursor <= end /\ touched <= end

-----------------------------------------------------------------------------
(* Decimal digits of a 32-bit integer two at a time.  The integer is given
   as its upper digits and its lowest eight. *)
Pair(n) == <<48 + (n \div 10), 48 + (n % 10)>>
Lead(n) == IF n < 10 THEN <<48 + n>> ELSE Pair(n)

WriteU32(top, rest) ==
  LET P(unit) == Pair((rest \div unit) % 100)
  IN CASE top > 0 -> Lead(top) \o P(1000000) \o P(10000) \o P(100) \o P(1)
       [] top = 0 /\ rest < 100 -> Lead(rest)
       [] top = 0 /\ 100 <= rest /\ rest < 10000 -> Lead(rest \div 100) \o P(1)
       [] top = 0 /\ 10000 <= rest /\ rest < 1000000 ->
            Lead(rest \div 10000) \o P(100) \o P(1)
       [] OTHER -> Lead(rest \div 1000000) \o P(10000) \o P(100) \o P(1)
=============================================================================
