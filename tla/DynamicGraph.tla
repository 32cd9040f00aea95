---------------------------- MODULE DynamicGraph ----------------------------
(***************************************************************************)
(* The graph of an unknown-shape value (assembly/deserialize/dynamic.ts).  *)
(* A slot is a tag with two words: a scalar, a container that is built, or *)
(* the source span of one that is not.  A built container is a header      *)
(* (length, first entry) and a list of entries, each with a slot and, in   *)
(* an object, a key.  Headers and entries are bumped off the arena that    *)
(* follows the root slot.                                                  *)
(***************************************************************************)
EXTENDS Numbers, StringWrite

LOCAL INSTANCE TLC
LOCAL INSTANCE SequencesExt
LOCAL INSTANCE FiniteSetsExt

Decimals == INSTANCE JsonNumbers

(* What a new document has beyond its source and a share of its length:
   64 and 1040 bytes in the code. *)
CONSTANTS EagerOverhead, RetainedOverhead

ASSUME OverheadAssumption ==
  EagerOverhead \in Nat /\ RetainedOverhead \in Nat

Scalar == "scalar"
Array == "array"
Object == "object"
LazyArray == "lazy array"
LazyObject == "lazy object"
LazyTags == {LazyArray, LazyObject}

SlotSize == 12
HeaderSize == 8
ArrayEntrySize == 16
ObjectEntrySize == 24
ArraySlotOffset == 4
ObjectSlotOffset == 12

(* A parse in progress: the next byte of the text (0 after a failure),
   whether it met whitespace, the arena cursor and limit, how far the heap
   would let the document grow, the words written so far, and the bytes that
   the containers left unbuilt will need. *)
Progress(cursor, limit, room) ==
  [next |-> 1, minified |-> TRUE, cursor |-> cursor, limit |-> limit, room |-> room,
   words |-> << >>, deferred |-> 0]
Stopped(g) == [g EXCEPT !.next = 0]

Slot(tag, payload, aux) == [tag |-> tag, payload |-> payload, aux |-> aux]
Header(count, first) == [count |-> count, first |-> first]
Entry(next, key, keyLength) == [next |-> next, key |-> key, keyLength |-> keyLength]
Store(g, at, word) == [g EXCEPT !.words = (at :> word) @@ @]

(* Every size is a multiple of 8 and so is the first cursor: no allocation
   is padded.  A document that ends the heap grows in place. *)
(* Mutant: the last byte of the arena is never used. *)
FullEarly(g, size) == g.cursor + size >= g.room
Full(g, size) == g.cursor + size > g.room
AllocateGraph(g, size) ==
  [g EXCEPT !.cursor = @ + size, !.limit = Max({@, g.cursor + size})]

(* Keep the span of the container at p.  Once the text is known to be valid
   its end is found by brackets alone. *)
DeferComposite(g, s, p, slot, validated) ==
  LET scan == SkipValueMinified(s, p)
      next == IF validated THEN ScanValueEndSimd(s, p) ELSE scan.next
      tag == IF s[p] = OpenBracket THEN LazyArray ELSE LazyObject
  IN IF next = 0 THEN Stopped(g)
     ELSE [Store(g, slot, Slot(tag, p, next - p)) EXCEPT
             !.next = next,
             !.minified = @ /\ scan.minified,
             !.deferred = @ + IF validated THEN 0 ELSE scan.bytes]

RECURSIVE ParseSlot(_, _, _, _, _, _, _), ParseEntries(_, _, _, _, _, _, _)

(* How a parse goes: whether containers below the one at hand are left as
   spans, and whether the text is known to be valid. *)
Mode(deferNested, validated) == [deferNested |-> deferNested, validated |-> validated]

(* The entries from p on of the container whose slot, header and last entry
   so far are in `at`. *)
ParseEntries(g, s, p, at, count, depth, mode) ==
  LET object == at.tag = Object
      close == IF object THEN CloseBrace ELSE CloseBracket
      size == IF object THEN ObjectEntrySize ELSE ArrayEntrySize
      entry == g.cursor
      key == SkipString(s, p)
      colon == SkipWhitespace(s, key)
      from == IF object THEN colon + 1 ELSE p
      linked == IF at.last = 0
                THEN Store(g, at.header, Header(0, entry))
                ELSE Store(g, at.last, [g.words[at.last] EXCEPT !.next = entry])
      keyed == Store(AllocateGraph(linked, size), entry,
                     IF object THEN Entry(0, p + 1, key - p - 2) ELSE Entry(0, 0, 0))
      parsed == ParseSlot(keyed, s, from,
                  entry + (IF object THEN ObjectSlotOffset ELSE ArraySlotOffset),
                  depth + 1, mode.deferNested, mode)
      stop == SkipWhitespace(s, parsed.next)
      next == SkipWhitespace(s, stop + 1)
      tight == stop = parsed.next /\ (object => colon = key)
  IN IF p > Len(s) \/ Full(g, size) THEN Stopped(g)
     ELSE IF object /\ (At(s, p) # Quote \/ key = 0 \/ At(s, colon) # Colon)
          THEN Stopped(keyed)
     ELSE IF parsed.next = 0 THEN parsed
     ELSE IF At(s, stop) = close
          THEN [Store(Store(parsed, at.header,
                            [parsed.words[at.header] EXCEPT !.count = count + 1]),
                      at.slot, Slot(at.tag, at.header, count + 1))
                EXCEPT !.next = stop + 1, !.minified = @ /\ tight]
     ELSE IF At(s, stop) # Comma \/ At(s, next) \in {-1, close} THEN Stopped(parsed)
     ELSE ParseEntries([parsed EXCEPT !.minified = @ /\ tight /\ next = stop + 1], s, next, [at EXCEPT !.last = entry], count + 1, depth, mode)

(* The container at p, built into its slot. *)
ParseContainer(g, s, p, slot, depth, mode) ==
  LET tag == IF s[p] = OpenBracket THEN Array ELSE Object
      header == g.cursor
      first == SkipWhitespace(s, p + 1)
      begun == Store(Store(AllocateGraph(g, HeaderSize), header, Header(0, 0)),
                     slot, Slot(tag, header, 0))
  IN IF Full(g, HeaderSize) THEN Stopped(g)
     ELSE IF At(s, first) = (IF tag = Array THEN CloseBracket ELSE CloseBrace)
          THEN [begun EXCEPT !.next = first + 1, !.minified = @ /\ first = p + 1]
     ELSE ParseEntries([begun EXCEPT !.minified = @ /\ first = p + 1], s, first,
            [tag |-> tag, slot |-> slot, header |-> header, last |-> 0], 0, depth, mode)

(* Numbers are read by the kernel that also converts them. *)
ScalarEnd(s, p) ==
  IF s[p] \in Digits \union {Minus1} THEN DeserializeFloat(s, p, 8).next
  ELSE SkipValue(s, p).next
ParseSlot(g0, s, start, slot, depth, defer, mode) ==
  LET p == SkipWhitespace(s, start)
      g == [g0 EXCEPT !.minified = @ /\ p = start]
      next == ScalarEnd(s, p)
  IN IF depth > MaxDepth \/ p > Len(s) THEN Stopped(g)
     ELSE IF s[p] \in {OpenBracket, OpenBrace}
          THEN IF defer THEN DeferComposite(g, s, p, slot, mode.validated)
               ELSE ParseContainer(g, s, p, slot, depth, mode)
     ELSE IF next = 0 THEN Stopped(g)
     ELSE [Store(g, slot, Slot(Scalar, p, next - p)) EXCEPT !.next = next]

(* The whole document at once, in an arena that cannot grow; the bytes used
   count from the document's base. *)
ParseValue(g, s, slot) == ParseSlot(g, s, 1, slot, 0, FALSE, Mode(FALSE, FALSE))
DeserializeDynamicDocument(s, root, arena, limit) ==
  LET g == ParseValue(Progress(arena, limit, limit), s, root)
      complete == g.next # 0 /\ SkipWhitespace(s, g.next) = Len(s) + 1
  IN [used |-> IF complete THEN g.cursor ELSE 0, words |-> g.words]

(* A parse into a new document of a heap with `room` bytes for it.  The
   eager one builds everything; the retained one builds the root container
   and reserves what the others will need. *)
Align8(n) == ((n + 7) \div 8) * 8
RootOffset(length) == Align8(24 + length) + 4
Seed(length, eager) == 
  IF eager THEN EagerOverhead + (length \div 4) ELSE RetainedOverhead + length
Refused(status, g) == [status |-> status, graph |-> g, length |-> 0,
   candidate |-> FALSE, canonical |-> FALSE]
ParseDynamicCore(s, eager, room) ==
  LET root == RootOffset(Len(s))
      capacity == root + Seed(Len(s), eager)
      g == ParseSlot(Progress(root + SlotSize, capacity, room), s, 1, root, 0, FALSE,
                     Mode(~eager, FALSE))
      required == g.cursor + g.deferred
      reserved == IF g.deferred = 0 THEN g ELSE [g EXCEPT !.limit = Max({@, required})]
  IN IF capacity > room THEN Refused(3, g)
     ELSE IF g.next = 0 THEN Refused(16, g)
     ELSE IF SkipWhitespace(s, g.next) # Len(s) + 1 THEN Refused(20, g)
     ELSE IF required > room THEN Refused(3, g)
     ELSE [status |-> 0, graph |-> reserved, length |-> g.next - 1,
           candidate |-> g.minified, canonical |-> FALSE]

(* Build the deferred container of a slot; the document keeps its cursor
   when that fails. *)
MaterializeDynamic(g, s, slot) ==
  LET at == g.words[slot]
      stop == at.payload + at.aux
      built == ParseSlot(g, SubSeq(s, 1, stop - 1), at.payload, slot, 0, FALSE,
                         Mode(TRUE, TRUE))
  IN IF at.tag \notin LazyTags THEN g
     ELSE IF built.next # stop
          THEN [built EXCEPT !.next = 0, !.cursor = g.cursor] ELSE built

(* The entries of a built container, in order, and their slots. *)
RECURSIVE EntryList(_, _, _)
EntryList(words, entry, n) ==
  IF n = 0 THEN <<>> ELSE <<entry>> \o EntryList(words, words[entry].next, n - 1)
EntriesOf(words, slot) ==
  LET header == words[words[slot].payload]
  IN EntryList(words, header.first, header.count)
SlotOf(tag, entry) ==
  entry + IF tag = Array THEN ArraySlotOffset ELSE ObjectSlotOffset

RECURSIVE MaterializeTree(_, _, _, _)
MaterializeTree(g, s, slot, depth) ==
  LET built == MaterializeDynamic(g, s, slot)
      tag == built.words[slot].tag
      Child(h, entry) == IF h.next = 0 THEN h
                         ELSE MaterializeTree(h, s, SlotOf(tag, entry), depth + 1)
  IN IF depth > MaxDepth \/ built.next = 0 THEN Stopped(built)
     ELSE IF tag = Scalar THEN built
     ELSE FoldLeft(Child, built, EntriesOf(built.words, slot))

-----------------------------------------------------------------------------
(* Printing (assembly/serialize/dynamic.ts).  A container that is still a  *)
(* span is built on the way.  Keys keep their spelling.                    *)

Text(s, at) == SubSeq(s, at.payload, at.payload + at.aux - 1)
PrintScalar(text) ==
  CASE text[1] = Quote -> SerializeSwar(SubSeq(text, 2, Len(text) - 1),
                            \E i \in DOMAIN text : text[i] = Backslash).bytes
    [] text[1] \in Digits \union {Minus1} -> Decimals!Canonical(text)
    [] OTHER -> text
Emitted(g, bytes) == [graph |-> g, bytes |-> bytes]

RECURSIVE SerializeDynamicSlot(_, _, _, _)
SerializeDynamicSlot(g, s, slot, depth) ==
  LET built == MaterializeDynamic(g, s, slot)
      at == built.words[slot]
      Brackets1 == IF at.tag = Array THEN <<OpenBracket, CloseBracket>>
                   ELSE <<OpenBrace, CloseBrace>>
      Key(entry) ==
        LET word == built.words[entry]
        IN IF at.tag = Array THEN <<>>
           ELSE <<Quote>> \o SubSeq(s, word.key, word.key + word.keyLength - 1)
                  \o <<Quote, Colon>>
      Child(out, entry) ==
        LET value == SerializeDynamicSlot(out.graph, s, SlotOf(at.tag, entry), depth + 1)
        IN IF out.graph.next = 0 THEN out
           ELSE Emitted(value.graph,
                      out.bytes \o (IF Len(out.bytes) > 1 THEN <<Comma>> ELSE <<>>)
                        \o Key(entry) \o value.bytes)
      all == FoldLeft(Child, Emitted(built, <<Brackets1[1]>>), EntriesOf(built.words, slot))
  IN IF depth > MaxDepth \/ built.next = 0 THEN Emitted(Stopped(built), <<>>)
     ELSE IF at.tag = Scalar THEN Emitted(built, PrintScalar(Text(s, at)))
     ELSE Emitted(all.graph, all.bytes \o <<Brackets1[2]>>)

(* A parsed document prints itself.  The first time it also compares the
   output with its source when the two may be equal; from then on an equal
   source is copied. *)
(* Mutant: every candidate is promoted. *)
SourceAssumedEqual(d, s, output) == TRUE
DocumentSourceEquals(d, s, output) == output = SubSeq(s, 1, d.length)
SerializeDynamic(d, s, root) ==
  LET out == SerializeDynamicSlot(d.graph, s, root, 0)
      promoted == d.candidate /\ DocumentSourceEquals(d, s, out.bytes)
  IN IF d.canonical THEN [document |-> d, bytes |-> SubSeq(s, 1, d.length)]
     ELSE [document |-> [d EXCEPT !.graph = out.graph, !.candidate = FALSE,
                                  !.canonical = promoted],
           bytes |-> out.bytes]
=============================================================================
