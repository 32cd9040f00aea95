----------------------------- MODULE MCRecords -----------------------------
(***************************************************************************)
(* Documents of known shape: texts for several schemas and everything one  *)
(* edit away, each parsed into a document of its own and into buffers of   *)
(* several sizes, printed, materialized field by field and printed again.  *)
(***************************************************************************)
EXTENDS RecordDocuments

LOCAL INSTANCE FiniteSetsExt
LOCAL INSTANCE SequencesExt

CONSTANTS MaxEdits, Seeds

Records1 == INSTANCE JsonRecords

Key(byte) == <<byte>>
Field(byte, type) ==
  [key |-> Key(byte), type |-> type, nullable |-> FALSE, lazy |-> FALSE,
   default |-> <<>>, omit |-> FALSE, omitNull |-> FALSE, omitIf |-> <<>>]
Kind(kind) == [kind |-> kind]
Typed(name) == [kind |-> "object", name |-> name]
ArrayOf(element, nullable) == [kind |-> "array", element |-> element, nullable |-> nullable]
String1(byte) == <<Quote, byte, Quote>>

(* Keys and short strings are letters: a is 97, b is 98, and so on. *)
MCSchemas ==
  [flat |-> <<Field(97, Kind("number")),
              [Field(98, Kind("string")) EXCEPT !.nullable = TRUE, !.omitNull = TRUE],
              [Field(99, Kind("boolean")) EXCEPT !.default = True]>>,
   lazy |-> <<[Field(97, Kind("number")) EXCEPT !.lazy = TRUE, !.nullable = TRUE],
              Field(98, Kind("boolean")), Field(99, Kind("string")),
              [Field(100, Kind("host")) EXCEPT !.omitIf =
                 <<[kind |-> "field", index |-> 2]>>],
              [Field(101, Kind("null")) EXCEPT !.omit = TRUE]>>,
   tree |-> <<Field(97, ArrayOf(Typed("tree"), TRUE)), Field(98, Kind("number"))>>,
   names |-> <<[Field(97, ArrayOf(Kind("string"), TRUE)) EXCEPT !.nullable = TRUE],
               Field(98, Typed("flat"))>>,
   pair |-> <<Field(97, [kind |-> "tuple",
                         elements |-> <<Kind("number"), Kind("boolean")>>]),
              Field(98, [kind |-> "union", discriminator |-> Key(107),
                         variants |-> <<[name |-> "left", value |-> String1(108)],
                                        [name |-> "right", value |-> String1(114)]>>])>>,
   left |-> <<Field(107, Kind("string")), Field(118, Kind("number"))>>,
   right |-> <<Field(107, Kind("string")), Field(119, Kind("boolean"))>>,
   spans |-> <<[Field(97, ArrayOf(Kind("number"), FALSE)) EXCEPT !.lazy = TRUE],
               [Field(98, Typed("right")) EXCEPT !.lazy = TRUE, !.nullable = TRUE],
               Field(99, ArrayOf(Kind("number"), FALSE))>>]

VARIABLES schema, text, edits
vars == <<schema, text, edits>>

Alphabet ==
  {CloseBracket, CloseBrace, Comma, Quote, Space, 48, 97}
Member1(byte, value) == <<Quote, byte, Quote, Colon>> \o value
Braced(members) == <<OpenBrace>> \o Joined(members) \o <<CloseBrace>>
Listed(values) == <<OpenBracket>> \o Joined(values) \o <<CloseBracket>>
MCSeeds ==
  { <<"flat", Braced(<<Member1(97, <<53>>), Member1(98, String1(120)), Member1(99, False)>>)>>,
    <<"flat", Braced(<<Member1(98, Null), Member1(97, <<49>>), Member1(98, String1(121))>>)>>,
    <<"flat", Braced(<<Member1(99, True)>>)>>,
    (* { "a" : 0 , "b" : null } *)
    <<"flat", <<32, 123, 32, 34, 97, 34, 32, 58, 32, 48, 32, 44, 34, 98, 34, 58>>
                \o Null \o <<32, 125>>>>,
    <<"lazy", Braced(<<Member1(97, <<49, 101, 49>>), Member1(98, False), Member1(99, String1(120)),
                       Member1(100, <<91, 32, 93>>), Member1(101, Null)>>)>>,
    <<"lazy", Braced(<<Member1(97, Null), Member1(97, <<49>>), Member1(98, True)>>)>>,
    <<"tree", Braced(<<Member1(97, Listed(<<Null, Braced(<<Member1(98, <<49>>)>>), Null>>)),
                       Member1(98, <<48>>)>>)>>,
    <<"tree", Braced(<<Member1(97, Listed(<<Braced(<<Member1(97, Listed(<<Null>>))>>)>>))>>)>>,
    <<"tree", Braced(<<Member1(98, <<49>>), Member1(97, Listed(<<>>))>>)>>,
    <<"names", Braced(<<Member1(97, Listed(<<String1(120), Null>>)),
                        Member1(98, Braced(<<Member1(97, <<49>>)>>))>>)>>,
    <<"pair", Braced(<<Member1(97, Listed(<<<<49>>, True>>)),
                       Member1(98, Braced(<<Member1(107, String1(108)),
                                            Member1(118, <<50>>)>>))>>)>>,
    <<"pair", Braced(<<Member1(98, Braced(<<Member1(107, String1(108)),
                                            Member1(107, String1(114))>>))>>)>>,
    <<"spans", Braced(<<Member1(97, Listed(<<<<49>>, <<50>>>>)),
                        Member1(98, Braced(<<Member1(119, True)>>)),
                        Member1(99, Listed(<<<<49>>, <<50>>, <<51>>>>))>>)>> }

(* {"a": 5} *)
SpacedSeeds == {<<"flat", <<123, 34, 97, 34, 58, 32, 53, 125>>>>}

Init ==
  /\ \E seed \in Seeds : schema = seed[1] /\ text = seed[2]
  /\ edits = 0
Edited(i) ==
  {SubSeq(text, 1, i - 1) \o b \o SubSeq(text, i + n, Len(text)) :
     b \in {<<>>} \union {<<c>> : c \in Alphabet}, n \in {0, 1}}
Edit ==
  /\ edits < MaxEdits
  /\ \E i \in 1..(Len(text) + 1) : text' \in Edited(i)
  /\ edits' = edits + 1
  /\ UNCHANGED schema
(* A whole text is read by every function below, and forgotten. *)
Read ==
  /\ edits = MaxEdits
  /\ edits' = MaxEdits + 1
  /\ text' = <<>>
  /\ UNCHANGED schema
Next == Edit \/ Read
Spec == Init /\ [][Next]_vars

-----------------------------------------------------------------------------
Readings(s) == Records1!Readings(s, MaxDepth)
Type == Typed(schema)
Declared(readings) ==
  \E tree \in readings :
    Records1!Conforms(tree, Type) /\ Records1!NestingOf(tree, Type) <= GraphDepth

Own == Parse(text, schema, FALSE, FALSE, 0)
Into(trusted, capacity) == Parse(text, schema, TRUE, trusted, capacity)
Least == IF Flat(schema) THEN 16 + RecordSize(schema) ELSE BaseCapacity(text, schema, TRUE)
Ample == IF Flat(schema) THEN Least ELSE FullCapacity(text, schema, TRUE)

(* Spellings on which a parser departs from the grammar: a blank behind the
   colon that ends an ordered key, before a value that is final (in a flat
   record) or whose parser takes no blank; a number of four digits that
   begins with a zero; a string of a graph without its first quote; a blank
   behind a tuple; and one behind a graph read in order without blanks. *)
LateBlank ==
  \E i \in 1..(Len(text) - 2) :
    /\ text[i] = Quote /\ text[i + 1] = Colon /\ text[i + 2] \in Records1!Blank
    /\ Flat(schema) \/ At(text, SkipWhitespace(text, i + 2)) \in {Quote, OpenBracket}
QuickZero ==
  \E p \in DOMAIN text :
    /\ text[p] = 48 /\ Parse4Digits(text, p) # NoDigits
    /\ At(text, p + 4) \notin NumberBytes
BareString == schema \in {"names", "pair"}
TupleBlank == schema = "pair" /\ \E i \in DOMAIN text : text[i] \in Records1!Blank
EndBlank ==
  /\ ~Flat(schema)
  /\ {i \in DOMAIN text : text[i] \in Records1!Blank} = {Len(text)}

AcceptsDeclared ==
  LET own == Own
      ample == Into(FALSE, Ample)
      least == Into(FALSE, Least)
      short == Into(FALSE, Least - 1)
      readings == Readings(text)
      declared == Declared(readings)
  IN /\ declared /\ ~LateBlank /\ ~TupleBlank /\ ~EndBlank => own.status = 0
     /\ own.status = 0 /\ ~QuickZero /\ ~BareString => declared
     /\ own.status = 0 /\ readings # {} => declared
     /\ ample.status = own.status
     /\ own.status = 0 =>
          least.status = 0 \/ (least.status = 2 /\ least.required = Ample)
     /\ short.status = 2 /\ short.required = Least
     /\ declared /\ own.status = 0 => Into(TRUE, Ample).status = 0

(* A parser accepts exactly the texts of its schema, whichever tier reads
   them and whatever a failed tier left in memory, first estimate or second,
   in a document of its own or in a buffer; a buffer that is too small is
   answered with a size that suffices. *)
RecordsAccepted == [][Read => AcceptsDeclared]_vars

ReadsDeclared == Declared(Readings(text)) => Own.status = 0

(* A parser reads every text of its schema: the tiers behind the ordered one
   are complete ("The arbitrary-order tier remains the full RFC fallback",
   compiler/src/record-codegen/graph.ts:455; "Any key or separator mismatch
   restarts at the fully validating arbitrary-order tier",
   compiler/src/record-codegen/index.ts:188). *)
RecordsRead == [][Read => ReadsDeclared]_vars

Exact == ~\E i \in DOMAIN Fields(schema) :
            Deferred(Fields(schema)[i]) \/ Fields(schema)[i].type.kind = "host"
Meaning(bytes) ==
  IF Exact THEN bytes
  ELSE LET readings == Readings(bytes)
       IN IF readings = {} THEN bytes ELSE Records1!Compact(CHOOSE t \in readings : TRUE)
Whole(d) ==
  FoldLeft(LAMBDA e, i : IF Deferred(Fields(schema)[i])
                         THEN Materialized(e, text, schema, e.record, i) ELSE e,
           d, [i \in DOMAIN Fields(schema) |-> i])
PrintsDeclared ==
  \A tree \in {t \in Readings(text) : Declared({t})} :
    LET spans == Meaning(Records1!Projected(tree, Type, TRUE))
        values == Meaning(Records1!Projected(tree, Type, FALSE))
    IN \A d \in {e \in {Own, Into(TRUE, Ample)} : e.status = 0} :
         LET first == SerializeDocument(d, text)
             second == SerializeDocument(first.document, text)
             whole == Whole(d)
             third == SerializeDocument(whole, text)
         IN /\ Meaning(first.bytes) = spans /\ second.bytes = first.bytes
            /\ IF whole.status = 0 THEN Meaning(third.bytes) = values
               ELSE Readings(third.bytes) # {}

(* Every document of a text prints the declared part of it, the first time
   and the second, before and after its spans became values; a span that is
   no such value leaves the document as it prints. *)
RecordsPrinted == [][Read => PrintsDeclared]_vars
=============================================================================
