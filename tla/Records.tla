------------------------------ MODULE Records ------------------------------
(***************************************************************************)
(* The parsers that the compiler generates for records of known shape      *)
(* (compiler/src/record-codegen, compiler/src/emit/assembly), at the level *)
(* of what the generated code does to memory.  A record is a run of        *)
(* bitmaps (fields present, fields null), one slot of 8 bytes per field    *)
(* and the bitmap of the fields left as spans.  Each record is tried in    *)
(* three tiers: keys in order without blanks, keys in order with blanks,   *)
(* then any order; a tier that fails starts over.                          *)
(***************************************************************************)
EXTENDS DynamicGraph

LOCAL INSTANCE TLC
LOCAL INSTANCE SequencesExt
LOCAL INSTANCE FiniteSetsExt

CONSTANTS
  Schemas,            \* the fields of every layout, by its name
  WordBits,           \* fields per bitmap word and per chunk: 32
  ChunkElements,      \* array elements per piece of scratch: 16
  GraphDepth          \* typed records and arrays inside each other: 256

ASSUME RecordAssumption ==
  /\ WordBits \in Nat \ {0} /\ GraphDepth \in Nat
  /\ ChunkElements \in Nat \ {0} /\ ChunkElements % 2 = 0

Fields(name) == Schemas[name]
Deferred(field) == field.lazy /\ field.type.kind # "string"
Composite(type) == type.kind \in {"object", "array", "tuple", "union"}
Flat(name) == \A i \in DOMAIN Fields(name) : ~Composite(Fields(name)[i].type)
HasDeferred(name) == \E i \in DOMAIN Fields(name) : Deferred(Fields(name)[i])
Retains(name) ==
  \E i \in DOMAIN Fields(name) :
    Fields(name)[i].type.kind \in {"string", "host"} \/ Deferred(Fields(name)[i])

(* The places of a record. *)
BitmapWords(name) ==
  Max({1, (Len(Fields(name)) + WordBits - 1) \div WordBits})
WordOf(i) == (i - 1) \div WordBits
NullOffset(name) == 4 * BitmapWords(name)
SlotOffset(name, i) == 8 * BitmapWords(name) + 8 * (i - 1)
LazyOffset(name) == SlotOffset(name, Len(Fields(name)) + 1)
RecordSize(name) ==
  Align8(LazyOffset(name) + IF HasDeferred(name) THEN 4 * BitmapWords(name) ELSE 0)
ElementStride(type) ==
  CASE type.kind = "tuple" -> 16
    [] type.kind \in {"number", "string", "host", "union", "array"} -> 8
    [] OTHER -> 4

(* A cell of memory that was filled: the number 0, false, no reference, or
   an empty bitmap. *)
Zero == Slot("zero", {}, 0)
Fill(g, at, size) ==
  [g EXCEPT !.words = [a \in {at + 4 * k : k \in 0..(size \div 4 - 1)} |-> Zero] @@ @]

(* A parse in progress: the cursor in the text (0 after a failure), whether
   the failure is final, the two ends of the free memory, whether they met,
   the typed nesting, whether only ordered tiers were used and no blank was
   met, the bitmaps of the record at hand and the length of the array that
   was read last. *)
NoBits == [presence |-> {}, nulls |-> {}, lazy |-> {}]
Parsing(flat, trustedBoundary, cursor, scratch) ==
  [next |-> 1, fatal |-> FALSE, cursor |-> cursor, scratch |-> scratch, full |-> FALSE,
   depth |-> 0, ordered |-> TRUE, minified |-> TRUE, words |-> << >>, bits |-> NoBits,
   count |-> 0, flat |-> flat, trustedBoundary |-> trustedBoundary]
OutOfSpace(g) == [g EXCEPT !.next = 0, !.full = TRUE]
Moved(g, next) == [g EXCEPT !.next = next]
Skip(g, s) ==
  LET p == SkipWhitespace(s, g.next)
  IN IF g.next = 0 THEN g ELSE [g EXCEPT !.next = p, !.minified = @ /\ p = g.next]
Expect(g, s, byte) ==
  IF g.next # 0 /\ At(s, g.next) = byte THEN Moved(g, g.next + 1) ELSE Stopped(g)

Aligned(n, alignment) == ((n + alignment - 1) \div alignment) * alignment
GraphAllocate(g, size, alignment) ==
  LET at == Aligned(g.cursor, alignment)
  IN IF at + size > g.scratch THEN OutOfSpace(g)
     ELSE [Fill(g, at, size) EXCEPT !.cursor = at + size]
GraphReserveScratch(g, size) ==
  IF g.scratch - size < g.cursor THEN OutOfSpace(g)
  ELSE [g EXCEPT !.scratch = @ - size]

(* The bitmaps, one word of each kind at a time. *)
BitsOf(set, w) == Slot("bits", {i \in set : WordOf(i) = w}, 0)
StoreWord(g, name, record, w) ==
  LET lazy == record + LazyOffset(name) + 4 * w
      marked == Store(Store(g, record + 4 * w, BitsOf(g.bits.presence, w)),
                      record + NullOffset(name) + 4 * w, BitsOf(g.bits.nulls, w))
  IN IF HasDeferred(name) THEN Store(marked, lazy, BitsOf(g.bits.lazy, w)) ELSE marked
StoreBits(g, name, record) ==
  IF g.next = 0 THEN g
  ELSE FoldLeft(LAMBDA h, w : StoreWord(h, name, record, w - 1), g,
                [w \in 1..BitmapWords(name) |-> w])
Bitmap(words, at, name) ==
  UNION {words[at + 4 * w].payload : w \in 0..(BitmapWords(name) - 1)}
LoadBits(words, name, record) ==
  [presence |-> Bitmap(words, record, name),
   nulls |-> Bitmap(words, record + NullOffset(name), name),
   lazy |-> IF HasDeferred(name)
            THEN Bitmap(words, record + LazyOffset(name), name) ELSE {}]

-----------------------------------------------------------------------------
(* Values by type (emit/assembly).                                         *)

PositiveZero(text) ==
  /\ text[1] # Minus1
  /\ \A i \in DOMAIN text :
       text[i] \in 49..57 => \E j \in 1..(i - 1) : text[j] \in Exponent
Put(g, slot, value, next) ==
  IF next = 0 THEN Stopped(g) ELSE [Store(g, slot, value) EXCEPT !.next = next]
ParseFloat(g, s, slot) ==
  LET p == g.next
      next == IF At(s, p) \in Digits \union {Minus1} THEN DeserializeFloat(s, p, 8).next ELSE 0
  IN Put(g, slot, IF next # 0 /\ PositiveZero(SubSeq(s, p, next - 1))
                  THEN Zero ELSE Slot("number", p, next - p), next)
ParseBoolean(g, s, slot) ==
  IF LiteralAt(s, g.next, True) THEN Put(g, slot, Slot("true", 0, 0), g.next + 4)
  ELSE Put(g, slot, Zero, IF LiteralAt(s, g.next, False) THEN g.next + 5 ELSE 0)
ParseString(g, s, slot) ==
  LET p == g.next
      next == IF p > Len(s) THEN 0 ELSE SkipString(s, p)
  IN Put(g, slot, Slot("string", p + 1, next - p - 2), next)
ParseNull(g, s) == IF LiteralAt(s, g.next, Null) THEN Moved(g, g.next + 4) ELSE Stopped(g)
ParseHost(g, s, slot) ==
  LET raw == SkipValue(s, g.next)
  IN [Put(g, slot, Slot("raw", g.next, raw.next - g.next), raw.next)
        EXCEPT !.minified = @ /\ raw.minified]

(* The variant that the last discriminator in an object names, or 0. *)
KeyMatches(content, key) == content = key \/ MatchJsonKey(content, 1, key, 1)
RECURSIVE DetectFrom(_, _, _, _)
DetectFrom(s, p, type, found) ==
  LET key == SkipString(s, p)
      colon == SkipWhitespace(s, key)
      from == SkipWhitespace(s, colon + 1)
      value == SkipValue(s, from).next
      named == {v \in DOMAIN type.variants : SubSeq(s, from, value - 1) = type.variants[v].value}
      now == IF ~KeyMatches(SubSeq(s, p + 1, key - 2), type.discriminator) THEN found
             ELSE IF named = {} THEN 0 ELSE Min(named)
      stop == SkipWhitespace(s, value)
      next == SkipWhitespace(s, stop + 1)
  IN IF At(s, p) = CloseBrace THEN found
     ELSE IF At(s, p) # Quote \/ key = 0 \/ At(s, colon) # Colon \/ value = 0 THEN 0
     ELSE IF At(s, stop) = CloseBrace THEN now
     ELSE IF At(s, stop) # Comma \/ At(s, next) \in {-1, CloseBrace} THEN 0
     ELSE DetectFrom(s, next, type, now)
DetectVariant(s, start, type) ==
  LET p == SkipWhitespace(s, start)
  IN IF At(s, p) # OpenBrace THEN 0
     ELSE DetectFrom(s, SkipWhitespace(s, p + 1), type, 0)

RECURSIVE ParseTyped(_, _, _, _), ParseRecord(_, _, _, _), OrderedFields(_, _, _, _, _),
  SpacedFields(_, _, _, _, _, _), Members(_, _, _, _), Elements(_, _, _, _, _, _),
  TupleElements(_, _, _, _, _)

ParseNested(g, s, name, slot, variant) ==
  LET record == Aligned(g.cursor, 8)
      begun == GraphAllocate(g, RecordSize(name), 8)
      parsed == ParseRecord(begun, s, name, record)
  IN IF begun.next = 0 THEN begun
     ELSE Put(parsed, slot, Slot("reference", record, variant), parsed.next)
ParseUnion(g, s, type, slot) ==
  LET variant == DetectVariant(s, g.next, type)
  IN IF variant = 0 THEN Stopped(g)
     ELSE ParseNested(g, s, type.variants[variant].name, slot, variant)

(* The elements go to pieces of scratch at the high end, which the end of
   the array copies, piece by piece, behind the header. *)
NullAt(type, g, s) == type.nullable /\ LiteralAt(s, g.next, Null)
Elements(g, s, type, chunk, used, count) ==
  LET stride == ElementStride(type.element)
      here == IF used < ChunkElements THEN g
              ELSE GraphReserveScratch(g, stride * ChunkElements)
      piece == IF used < ChunkElements THEN chunk ELSE here.scratch
      place == used % ChunkElements
      slot == piece + stride * place
      parsed == IF NullAt(type, here, s)
                THEN Moved(Fill(here, slot, stride), here.next + 4)
                ELSE ParseTyped(here, s, type.element, slot)
      stop == Skip(parsed, s)
      more == Skip(Expect(stop, s, Comma), s)
  IN IF here.next = 0 THEN here
     ELSE IF stop.next # 0 /\ At(s, stop.next) = CloseBracket
          THEN [stop EXCEPT !.next = @ + 1, !.count = count + 1]
     ELSE IF more.next = 0 THEN more
     ELSE Elements(more, s, type, piece, place + 1, count + 1)

PieceOf(saved, stride, k) ==
  saved - stride * ChunkElements * (k \div ChunkElements + 1)
CopyElements(g, data, saved, stride) ==
  LET From(k) == PieceOf(saved, stride, k) + stride * (k % ChunkElements)
      copied == {k \in 0..(g.count - 1) : From(k) \in DOMAIN g.words}
  IN [g EXCEPT !.words =
        [a \in {data + stride * k : k \in copied} |-> g.words[From((a - data) \div stride)]] @@ @]
FinishArray(g, saved, stride, slot) ==
  LET header == Aligned(g.cursor, 8)
      data == Aligned(header + 16, Min({stride, 8}))
      room == GraphAllocate(GraphAllocate(g, 16, 8), g.count * stride, Min({stride, 8}))
      copied == CopyElements(room, data, saved, stride)
  IN IF room.next = 0 THEN room
     ELSE [Store(Store(copied, header, Slot("array", data, g.count)),
                 slot, Slot("reference", header, g.count))
             EXCEPT !.scratch = saved, !.depth = @ - 1]
ParseArray(g, s, type, slot) ==
  LET entered == [g EXCEPT !.depth = @ + 1]
      first == Skip(Expect(entered, s, OpenBracket), s)
      read == IF first.next # 0 /\ At(s, first.next) = CloseBracket
              THEN [first EXCEPT !.next = @ + 1, !.count = 0]
              ELSE Elements(first, s, type, 0, ChunkElements, 0)
  IN IF g.depth >= GraphDepth THEN Stopped(g)
     ELSE IF first.next = 0 THEN first
     ELSE IF read.next = 0 THEN read
     ELSE FinishArray(read, g.scratch, ElementStride(type.element), slot)

(* A tuple is laid out before its elements are read. *)
TupleElements(g, s, types, data, i) ==
  LET parsed == ParseTyped(g, s, types[i], data + 16 * (i - 1))
  IN IF g.next = 0 \/ i > Len(types) THEN g
     ELSE TupleElements(IF i = Len(types) THEN parsed
                        ELSE Skip(Expect(Skip(parsed, s), s, Comma), s),
                        s, types, data, i + 1)
ParseTuple(g, s, types, slot) ==
  LET entered == Expect([g EXCEPT !.depth = @ + 1], s, OpenBracket)
      header == Aligned(g.cursor, 8)
      room == GraphAllocate(GraphAllocate(entered, 16, 8), 16 * Len(types), 8)
      begun == Store(Store(room, header, Slot("array", header + 16, Len(types))),
                     slot, Slot("reference", header, Len(types)))
      read == Expect(TupleElements(Skip(begun, s), s, types, header + 16, 1), s, CloseBracket)
  IN IF g.depth >= GraphDepth THEN Stopped(g)
     ELSE IF room.next = 0 THEN room
     ELSE IF read.next = 0 THEN read ELSE [read EXCEPT !.depth = @ - 1]

ParseTyped(g, s, type, slot) ==
  CASE type.kind = "object" -> ParseNested(g, s, type.name, slot, 0)
    [] type.kind = "union" -> ParseUnion(g, s, type, slot)
    [] type.kind = "array" -> ParseArray(g, s, type, slot)
    [] type.kind = "tuple" -> ParseTuple(g, s, type.elements, slot)
    [] type.kind = "number" -> ParseFloat(g, s, slot)
    [] type.kind = "boolean" -> ParseBoolean(g, s, slot)
    [] type.kind = "string" -> ParseString(g, s, slot)
    [] type.kind = "null" -> ParseNull(g, s)
    [] OTHER -> ParseHost(g, s, slot)

-----------------------------------------------------------------------------
(* Records.  A field is a key and what its value leaves behind.            *)

(* A span to be parsed when it is read.  The ordered tiers skip it as
   minified text, by its brackets alone when the caller vouches for it. *)
Defer(g, s, slot, ordered) ==
  LET p == g.next
      scan == IF ordered THEN SkipValueMinified(s, p) ELSE SkipValue(s, p)
      next == IF ordered /\ g.trustedBoundary THEN ScanValueEndSimd(s, p) ELSE scan.next
  IN [Put(g, slot, Slot("raw", p, next - p), next) EXCEPT !.minified = @ /\ scan.minified]

(* Mutant: a null that is repeated with a value remains. *)
MarkKept(bits, field, i, null) ==
  [presence |-> bits.presence \union {i},
   nulls |-> IF null THEN bits.nulls \union {i} ELSE bits.nulls,
   lazy |-> IF null THEN bits.lazy \ {i}
            ELSE IF Deferred(field) THEN bits.lazy \union {i} ELSE bits.lazy]
Mark(bits, field, i, null) ==
  [presence |-> bits.presence \union {i},
   nulls |-> IF null THEN bits.nulls \union {i} ELSE bits.nulls \ {i},
   lazy |-> IF null THEN bits.lazy \ {i}
            ELSE IF Deferred(field) THEN bits.lazy \union {i} ELSE bits.lazy]

(* In a flat record a value of the wrong kind is final, and a string has to
   begin with its quote. *)
ParseField(g, s, name, record, i, ordered) ==
  LET field == Fields(name)[i]
      slot == record + SlotOffset(name, i)
      null == NullAt(field, g, s)
      unquoted == g.flat /\ field.type.kind = "string" /\ At(s, g.next) # Quote
      value == IF Deferred(field) THEN Defer(g, s, slot, ordered)
               ELSE IF unquoted THEN Stopped(g)
               ELSE ParseTyped(g, s, field.type, slot)
      parsed == IF null THEN Moved(g, g.next + 4) ELSE value
  IN IF g.next = 0 THEN g
     ELSE IF parsed.next = 0 THEN [parsed EXCEPT !.fatal = g.flat]
     ELSE [parsed EXCEPT !.bits = Mark(g.bits, field, i, null)]

Quoted1(field) == <<Quote>> \o field.key \o <<Quote>>

(* Tier 1: every key in order and not a byte between tokens.  The bitmaps
   are written a word, or chunk, at a time. *)
OrderedFields(g, s, name, record, i) ==
  LET key == Quoted1(Fields(name)[i]) \o <<Colon>>
      last == Len(Fields(name))
      parsed == ParseField(Moved(g, g.next + Len(key)), s, name, record, i, TRUE)
      closed == Expect(parsed, s, IF i = last THEN CloseBrace ELSE Comma)
      kept == IF closed.next # 0 /\ (i = last \/ i % WordBits = 0)
              THEN StoreWord(closed, name, record, WordOf(i)) ELSE closed
  IN IF g.next = 0 \/ i > last THEN g
     ELSE IF ~LiteralAt(s, g.next, key) THEN Stopped(g)
     ELSE OrderedFields(kept, s, name, record, i + 1)
ParseOrdered(g, s, name, record) ==
  OrderedFields(Expect(g, s, OpenBrace), s, name, record, 1)

(* Tier 2: keys in order, some of them missing, and blanks anywhere. *)
(* Mutant: the comma between two fields may be missing. *)
CandidateLoose(g, s, wrote) ==
  LET here == Skip(g, s)
  IN IF wrote /\ At(s, here.next) = Comma THEN Skip(Moved(here, here.next + 1), s) ELSE here
Candidate(g, s, wrote) ==
  IF wrote THEN Skip(Expect(Skip(g, s), s, Comma), s) ELSE Skip(g, s)
SpacedFields(g, s, name, record, i, wrote) ==
  LET key == Quoted1(Fields(name)[i])
      candidate == Candidate(g, s, wrote)
      matched == candidate.next # 0 /\ LiteralAt(s, candidate.next, key)
      colon == Expect(Skip(Moved(candidate, candidate.next + Len(key)), s), s, Colon)
      parsed == ParseField(Skip(colon, s), s, name, record, i, FALSE)
  IN IF g.next = 0 \/ i > Len(Fields(name)) THEN g
     ELSE IF matched THEN SpacedFields(parsed, s, name, record, i + 1, TRUE)
     ELSE SpacedFields(g, s, name, record, i + 1, wrote)
ParseSpaced(g, s, name, record) ==
  LET begun == Expect(IF g.flat THEN g ELSE Skip(g, s), s, OpenBrace)
      fields == SpacedFields(begun, s, name, record, 1, FALSE)
  IN StoreBits(Expect(Skip(fields, s), s, CloseBrace), name, record)

(* Tier 3: any object, its keys in any order and any spelling. *)
Members(g0, s, name, record) ==
  LET g == Skip(g0, s)
      key == SkipString(s, g.next)
      content == SubSeq(s, g.next + 1, key - 2)
      from == Skip(Expect(Skip(Moved(g, key), s), s, Colon), s)
      raw == SkipValue(s, from.next)
      named == {i \in DOMAIN Fields(name) : KeyMatches(content, Fields(name)[i].key)}
      value == IF from.next = 0 THEN from
               ELSE IF named = {}
               THEN [from EXCEPT !.next = raw.next, !.minified = @ /\ raw.minified]
               ELSE ParseField(from, s, name, record, Min(named), FALSE)
      stop == Skip(value, s)
      more == Skip(Expect(stop, s, Comma), s)
  IN IF g.next = 0 THEN g
     ELSE IF At(s, g.next) = CloseBrace THEN Moved(g, g.next + 1)
     ELSE IF At(s, g.next) # Quote \/ key = 0 THEN Stopped(g)
     ELSE IF stop.next = 0 THEN stop
     ELSE IF At(s, stop.next) = CloseBrace THEN Moved(stop, stop.next + 1)
     ELSE IF more.next = 0 \/ At(s, more.next) = CloseBrace THEN Stopped(more)
     ELSE Members(more, s, name, record)
ParseGeneral(g, s, name, record) ==
  StoreBits(Members(Expect(Skip(g, s), s, OpenBrace), s, name, record), name, record)

(* From one tier to the next: `from` is where the record began. *)
Restart(g, from, name, record) ==
  Fill([g EXCEPT !.next = from.next, !.cursor = from.cursor, !.scratch = from.scratch,
                 !.ordered = FALSE, !.bits = NoBits], record, RecordSize(name))

(* A record of a graph.  The nesting that a failed tier leaves behind stays
   counted. *)
ParseRecord(g, s, name, record) ==
  LET entered == [g EXCEPT !.depth = @ + 1, !.bits = NoBits]
      ordered == ParseOrdered(entered, s, name, record)
      spaced == ParseSpaced(Restart(ordered, g, name, record), s, name, record)
      general == ParseGeneral(
                   Restart(IF Fields(name) = <<>> THEN entered ELSE spaced, g, name, record),
                   s, name, record)
      best == IF Fields(name) = <<>> THEN general
              ELSE IF ordered.next # 0 THEN ordered
              ELSE IF spaced.next # 0 THEN spaced ELSE general
  IN IF g.depth >= GraphDepth THEN Stopped(g)
     ELSE IF best.next = 0 THEN best ELSE [best EXCEPT !.depth = @ - 1]
=============================================================================
