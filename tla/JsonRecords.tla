---------------------------- MODULE JsonRecords ----------------------------
(***************************************************************************)
(* What a JSON value says to a schema: whether it has the declared shape,  *)
(* and the text that JSON.stringify gives of the declared part of it.  The *)
(* last member with the name of a field is that field.                     *)
(***************************************************************************)
EXTENDS JsonTexts

LOCAL INSTANCE SequencesExt
LOCAL INSTANCE FiniteSetsExt

CONSTANT Schemas

Null == <<110, 117, 108, 108>>
True == <<116, 114, 117, 101>>
False == <<102, 97, 108, 115, 101>>

Deferred(field) == field.lazy /\ field.type.kind # "string"
Spells(token, name) ==
  Strings!Canonical(Inside(token)) = <<Quote>> \o name \o <<Quote>>
MembersOf(t, name) == {m \in DOMAIN t.items : Spells(t.items[m].key, name)}
Member(t, name) == t.items[Max(MembersOf(t, name))]
VariantOf(t, type) ==
  LET named == {v \in DOMAIN type.variants :
                  Member(t, type.discriminator).text = type.variants[v].value}
  IN IF t.kind # "object" \/ MembersOf(t, type.discriminator) = {} \/ named = {}
     THEN 0 ELSE Min(named)

RECURSIVE Conforms(_, _), NestingOf(_, _), Projected(_, _, _)
Conforms(t, type) ==
  LET Of(x, nullable, of) == (nullable /\ x.text = Null) \/ Conforms(x, of)
  IN CASE type.kind = "number" -> t.kind = "scalar" /\ t.text[1] \in Digits \union {45}
       [] type.kind = "boolean" -> t.text \in {True, False}
       [] type.kind = "string" -> t.kind = "scalar" /\ t.text[1] = Quote
       [] type.kind = "null" -> t.text = Null
       [] type.kind = "host" -> TRUE
       [] type.kind = "array" ->
            t.kind = "array" /\ \A k \in DOMAIN t.items : Of(t.items[k], type.nullable, type.element)
       [] type.kind = "tuple" ->
            /\ t.kind = "array" /\ Len(t.items) = Len(type.elements)
            /\ \A k \in DOMAIN t.items : Conforms(t.items[k], type.elements[k])
       [] type.kind = "union" ->
            VariantOf(t, type) # 0
              /\ Conforms(t, [kind |-> "object", name |-> type.variants[VariantOf(t, type)].name])
       [] type.kind = "object" ->
            /\ t.kind = "object"
            /\ \A i \in DOMAIN Schemas[type.name] :
                 LET f == Schemas[type.name][i]
                 IN \A m \in MembersOf(t, f.key) :
                      Deferred(f) \/ Of(t.items[m], f.nullable, f.type)

(* Declared records and arrays inside each other, the spans left out. *)
NestingOf(t, type) ==
  LET Deepest(set) == Max({0} \union set)
  IN CASE type.kind \in {"array", "tuple"} /\ t.kind = "array" ->
            1 + Deepest({NestingOf(t.items[k], IF type.kind = "array" THEN type.element
                                               ELSE type.elements[k]) : k \in DOMAIN t.items})
       [] type.kind = "union" /\ VariantOf(t, type) # 0 ->
            NestingOf(t, [kind |-> "object", name |-> type.variants[VariantOf(t, type)].name])
       [] type.kind = "object" /\ t.kind = "object" ->
            1 + Deepest(UNION {{NestingOf(t.items[m], Schemas[type.name][i].type) :
                                  m \in MembersOf(t, Schemas[type.name][i].key)} :
                          i \in {j \in DOMAIN Schemas[type.name] : ~Deferred(Schemas[type.name][j])}})
       [] OTHER -> 0

(* An @omitif expression over the fields of t. *)
RECURSIVE Condition(_, _, _)
Condition(t, fields, e) ==
  LET Of(x) == Condition(t, fields, x)
      Bool(b) == IF b THEN True ELSE False
  IN CASE e.kind = "literal" -> e.value
       [] e.kind = "field" ->
            IF MembersOf(t, fields[e.index].key) = {} THEN fields[e.index].default
            ELSE Compact([Member(t, fields[e.index].key) EXCEPT !.key = <<>>])
       [] e.kind = "not" -> Bool(Of(e.operand) = False)
       [] e.kind = "equal" -> Bool(Of(e.left) = Of(e.right))
       [] e.kind = "and" -> Bool(Of(e.left) = True /\ Of(e.right) = True)

(* The canonical text; `spans` says that lazy fields are still spans. *)
Separated(parts) ==
  FlattenSeq([k \in DOMAIN parts |-> (IF k > 1 THEN <<44>> ELSE <<>>) \o parts[k]])
Projected(t, type, spans) ==
  LET fields == Schemas[type.name]
      Found(f) == MembersOf(t, f.key) # {}
      Text(f) ==
        LET value == [Member(t, f.key) EXCEPT !.key = <<>>]
        IN IF ~Found(f) THEN f.default
           ELSE IF f.nullable /\ value.text = Null THEN Null
           ELSE IF Deferred(f) /\ spans THEN Compact(value)
           ELSE Projected(value, f.type, spans)
      Shown(f) ==
        /\ ~f.omit /\ (Found(f) \/ f.default # <<>>)
        /\ ~(f.omitNull /\ Text(f) = Null)
        /\ f.omitIf = <<>> \/ Condition(t, fields, f.omitIf[1]) = False
      shown == SelectSeq(fields, Shown)
      items == IF type.kind # "object"
               THEN [k \in DOMAIN t.items |->
                       LET of == IF type.kind = "array" THEN type.element ELSE type.elements[k]
                       IN IF type.kind = "array" /\ type.nullable /\ t.items[k].text = Null
                          THEN Null ELSE Projected(t.items[k], of, spans)]
               ELSE [k \in DOMAIN shown |->
                       <<Quote>> \o shown[k].key \o <<Quote, 58>> \o Text(shown[k])]
  IN CASE type.kind = "object" -> <<123>> \o Separated(items) \o <<125>>
       [] type.kind \in {"array", "tuple"} -> <<91>> \o Separated(items) \o <<93>>
       [] type.kind = "union" ->
            Projected(t, [kind |-> "object", name |-> type.variants[VariantOf(t, type)].name], spans)
       [] OTHER -> Compact(t)
=============================================================================
