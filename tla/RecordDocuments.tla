-------------------------- MODULE RecordDocuments --------------------------
(***************************************************************************)
(* Whole documents of a known shape: the exported parsers, serializers and *)
(* materializers of compiler/src/record-codegen.  A schema without         *)
(* containers gets the flat parser, whose document has the size of its     *)
(* record; any other one builds a graph in a document of estimated size,   *)
(* a second time when the first estimate was short.                        *)
(***************************************************************************)
EXTENDS Records

LOCAL INSTANCE TLC
LOCAL INSTANCE SequencesExt
LOCAL INSTANCE FiniteSetsExt

CONSTANT BaseExtra    \* what every graph document has beyond its record: 1024

ASSUME ExtraAssumption == BaseExtra \in Nat

Document(g, name, record, candidate) ==
  [status |-> 0, required |-> 0, graph |-> g, name |-> name, record |-> record,
   candidate |-> candidate, canonical |-> FALSE, limit |-> g.scratch]
Failure1(status, required) == [status |-> status, required |-> required]

(* Whether the output of a document may be its source. *)
SourcePreserves(name) ==
  \A i \in DOMAIN Fields(name) :
    LET f == Fields(name)[i]
    IN f.default = <<>> /\ ~f.omit /\ ~f.omitNull /\ f.omitIf = <<>> /\ f.type.kind # "host"
RECURSIVE TypeLayouts(_), GraphPreserves(_, _)
TypeLayouts(type) ==
  CASE type.kind = "object" -> {type.name}
    [] type.kind = "union" -> {type.variants[v].name : v \in DOMAIN type.variants}
    [] type.kind = "tuple" -> UNION {TypeLayouts(type.elements[i]) : i \in DOMAIN type.elements}
    [] type.kind = "array" -> TypeLayouts(type.element)
    [] OTHER -> {}
GraphPreserves(name, visiting) ==
  /\ SourcePreserves(name)
  /\ \A i \in DOMAIN Fields(name) :
       \A nested \in TypeLayouts(Fields(name)[i].type) \ (visiting \union {name}) :
         GraphPreserves(nested, visiting \union {name})

(* The text that says nothing but the defaults. *)
Joined(parts) ==
  FlattenSeq([i \in DOMAIN parts |-> (IF i > 1 THEN <<Comma>> ELSE <<>>) \o parts[i]])
HasSerializableDefault(field) ==
  field.default # <<>> /\ ~(field.default = Null /\ field.omitNull)
DefaultJson(name) ==
  LET spelled == SelectSeq(Fields(name), LAMBDA f : ~f.omit /\ HasSerializableDefault(f))
  IN <<OpenBrace>>
       \o Joined([i \in DOMAIN spelled |-> Quoted1(spelled[i]) \o <<Colon>> \o spelled[i].default])
       \o <<CloseBrace>>
IsDefault(s, name) ==
  LET fields == Fields(name)
  IN /\ \E i \in DOMAIN fields : fields[i].default # <<>>
     /\ \A i \in DOMAIN fields : fields[i].type.kind # "host" /\ fields[i].omitIf = <<>>
     /\ s = DefaultJson(name)
DefaultDocument(name) ==
  Document(Fill(Parsing(Flat(name), FALSE, 16, 16 + RecordSize(name)), 16, RecordSize(name)),
           name, 16, FALSE)

-----------------------------------------------------------------------------
(* The flat parser.  The record is not cleared before the first tier; the  *)
(* way for trusted input into a caller's buffer is that tier unrolled, for *)
(* up to four fields.                                                      *)

Ended(g, s) == g.next = Len(s) + 1
ParseFlat(s, name, into, capacity) ==
  LET record == IF Retains(name) /\ ~into THEN Align8(16 + Len(s)) ELSE 16
      total == record + RecordSize(name)
      begin == Parsing(TRUE, FALSE, total, total)
      preserves == Retains(name) /\ SourcePreserves(name)
      ordered == IF Fields(name) = <<>> THEN Stopped(begin)
                 ELSE ParseOrdered(begin, s, name, record)
      spaced == IF Fields(name) = <<>> THEN ordered
                ELSE Skip(ParseSpaced(Restart(ordered, begin, name, record), s, name, record), s)
      general == ParseGeneral(Restart(spaced, begin, name, record), s, name, record)
  IN IF ~into /\ IsDefault(s, name) THEN DefaultDocument(name)
     ELSE IF into /\ capacity < total THEN Failure1(2, total)
     ELSE IF Ended(ordered, s)
          THEN Document(ordered, name, record, preserves)
     ELSE IF ordered.fatal THEN Failure1(16, 0)
     ELSE IF Ended(spaced, s) THEN Document(spaced, name, record, FALSE)
     ELSE IF spaced.fatal \/ general.next = 0 THEN Failure1(16, 0)
     ELSE IF ~Ended(Skip(general, s), s) THEN Failure1(20, 0)
     ELSE Document(general, name, record, FALSE)

(* The graph parser. *)
BaseCapacity(s, name, into) ==
  (IF into THEN 16 ELSE Align8(16 + Len(s))) + RecordSize(name) + BaseExtra
FullCapacity(s, name, into) == BaseCapacity(s, name, into) + 16 * Len(s)
CompactCapacity(s, name, into) ==
  BaseCapacity(s, name, into) + Len(s) + Len(s) \div 4
RECURSIVE ParseGraph(_, _, _, _, _, _)
ParseGraph(s, name, into, trusted, given, conservative) ==
  LET record == IF into THEN 16 ELSE Align8(16 + Len(s))
      capacity == IF into THEN given
                  ELSE IF conservative THEN FullCapacity(s, name, into)
                  ELSE CompactCapacity(s, name, into)
      begin == Parsing(FALSE, into /\ trusted, record + RecordSize(name), 8 * (capacity \div 8))
      g == ParseRecord(Fill(begin, record, RecordSize(name)), s, name, record)
      exact == g.ordered /\ g.minified
      done == Document(g, name, record, exact /\ GraphPreserves(name, {}))
  IN IF ~into /\ IsDefault(s, name) THEN DefaultDocument(name)
     ELSE IF into /\ capacity < BaseCapacity(s, name, into)
          THEN Failure1(2, BaseCapacity(s, name, into))
     ELSE IF g.next = 0 /\ g.full /\ ~into /\ ~conservative
          THEN ParseGraph(s, name, into, trusted, given, TRUE)
     ELSE IF g.next = 0 /\ g.full THEN Failure1(2, FullCapacity(s, name, into))
     ELSE IF g.next = 0 THEN Failure1(16, 0)
     ELSE IF ~Ended(IF exact THEN g ELSE Skip(g, s), s) THEN Failure1(20, 0)
     ELSE IF ~into /\ ~HasDeferred(name) THEN [done EXCEPT !.limit = Align8(g.cursor)]
     ELSE done

Parse(s, name, into, trusted, capacity) ==
  IF Flat(name) THEN ParseFlat(s, name, into, capacity)
  ELSE ParseGraph(s, name, into, trusted, capacity, FALSE)

-----------------------------------------------------------------------------
(* Serializers.                                                            *)

Span(s, at) == SubSeq(s, at.payload, at.payload + at.aux - 1)
NumberText(s, at) ==
  IF at.tag = "zero" THEN <<48>> ELSE Decimals!Canonical(Span(s, at))

(* The value of an @omitif expression: a number as its text, a Boolean as
   its literal. *)
RECURSIVE Omitted(_, _, _, _, _)
Bool(b) == IF b THEN True ELSE False
Omitted(words, s, name, record, e) ==
  LET Value(x) == Omitted(words, s, name, record, x)
      field == Fields(name)[e.index]
      at == words[record + SlotOffset(name, e.index)]
      present == e.index \in LoadBits(words, name, record).presence
  IN CASE e.kind = "literal" -> e.value
       [] e.kind = "field" ->
            IF ~present THEN field.default
            ELSE IF field.type.kind = "number" THEN NumberText(s, at)
            ELSE Bool(at.tag # "zero")
       [] e.kind = "not" -> Bool(Value(e.operand) = False)
       [] e.kind = "equal" -> Bool(Value(e.left) = Value(e.right))
       [] e.kind = "and" -> Bool(Value(e.left) = True /\ Value(e.right) = True)

Included(words, s, name, record, bits, i) ==
  LET field == Fields(name)[i]
  IN /\ ~field.omit
     /\ \/ i \in bits.presence /\ ~(field.omitNull /\ i \in bits.nulls)
        \/ i \notin bits.presence /\ HasSerializableDefault(field)
     /\ field.omitIf = <<>> \/ Omitted(words, s, name, record, field.omitIf[1]) = False

RECURSIVE SerializeRecord(_, _, _, _), SerializeTyped(_, _, _, _)
SerializeRecord(words, s, name, record) ==
  LET bits == LoadBits(words, name, record)
      Value(i) ==
        LET at == record + SlotOffset(name, i)
        IN IF i \notin bits.presence THEN Fields(name)[i].default
           ELSE IF i \in bits.nulls THEN Null
           ELSE IF i \in bits.lazy THEN Span(s, words[at])
           ELSE SerializeTyped(words, s, Fields(name)[i].type, at)
      kept == SelectSeq([i \in DOMAIN Fields(name) |-> i],
                        LAMBDA i : Included(words, s, name, record, bits, i))
  IN <<OpenBrace>>
       \o Joined([k \in DOMAIN kept |->
            Quoted1(Fields(name)[kept[k]]) \o <<Colon>> \o Value(kept[k])])
       \o <<CloseBrace>>

(* Numbers go through the array kernel, which knows no null. *)
SerializeArray(words, s, type, header) ==
  LET tuple == type.kind = "tuple"
      Of(k) == IF tuple THEN type.elements[k] ELSE type.element
      stride == IF tuple THEN 16 ELSE ElementStride(type.element)
      Value(k) ==
        LET at == header.payload + stride * (k - 1)
        IN IF ~tuple /\ type.nullable /\ Of(k).kind # "number" /\ words[at].tag = "zero"
           THEN Null ELSE SerializeTyped(words, s, Of(k), at)
  IN <<OpenBracket>> \o Joined([k \in 1..header.aux |-> Value(k)]) \o <<CloseBracket>>

SerializeTyped(words, s, type, at) ==
  CASE type.kind = "null" -> Null
    [] type.kind = "number" -> NumberText(s, words[at])
    [] type.kind = "boolean" -> Bool(words[at].tag # "zero")
    [] type.kind = "string" ->
         LET text == Span(s, words[at])
         IN SerializeSwar(text, \E i \in DOMAIN text : text[i] = Backslash).bytes
    [] type.kind = "host" -> Span(s, words[at])
    [] type.kind = "object" -> SerializeRecord(words, s, type.name, words[at].payload)
    [] type.kind = "union" ->
         SerializeRecord(words, s, type.variants[words[at].aux].name, words[at].payload)
    [] OTHER -> SerializeArray(words, s, type, words[words[at].payload])

(* The first text of a candidate decides whether the source stands for it
   from then on. *)
SerializeDocument(d, s) ==
  LET bytes == SerializeRecord(d.graph.words, s, d.name, d.record)
  IN IF d.canonical THEN [document |-> d, bytes |-> s]
     ELSE [document |-> [d EXCEPT !.canonical = @ \/ (d.candidate /\ bytes = s),
                                  !.candidate = FALSE],
           bytes |-> bytes]

-----------------------------------------------------------------------------
(* Materializers: the span of a field becomes its value, in what the       *)
(* document has left.  Flat records know numbers and Booleans only.        *)

Materialized(d, s, name, record, i) ==
  LET type == Fields(name)[i].type
      slot == record + SlotOffset(name, i)
      at == d.graph.words[slot]
      stop == at.payload + at.aux
      begin == [d.graph EXCEPT !.next = at.payload, !.scratch = 8 * (d.limit \div 8),
                               !.depth = 0, !.ordered = TRUE, !.trustedBoundary = FALSE]
      g == ParseTyped(begin, SubSeq(s, 1, stop - 1),
             IF ~Flat(name) THEN type
             ELSE [kind |-> IF type.kind = "number" THEN "number" ELSE "boolean"], slot)
      w == WordOf(i)
      lazy == record + LazyOffset(name) + 4 * w
      still == d.graph.words[lazy].payload \ {i}
      set == Store(g, lazy, BitsOf(still, w))
      Failed1(h) == [d EXCEPT !.status = 16, !.graph.words = h.words]
  IN IF i \notin LoadBits(d.graph.words, name, record).lazy THEN d
     ELSE IF g.next # stop THEN Failed1(g)
     ELSE [d EXCEPT !.graph = [set EXCEPT !.trustedBoundary = d.graph.trustedBoundary]]
=============================================================================
