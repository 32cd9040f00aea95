---------------------------- MODULE MCDocuments ----------------------------
(***************************************************************************)
(* Whole documents: a set of JSON texts and everything one edit away, each *)
(* scanned, delimited, turned into a graph, built piece by piece and       *)
(* printed.                                                                *)
(***************************************************************************)
EXTENDS DynamicGraph, RecordEngines

LOCAL INSTANCE FiniteSetsExt
LOCAL INSTANCE SequencesExt

CONSTANT MaxEdits

Json == INSTANCE JsonTexts

(* A record that contains records, and one of scalars only. *)
MCRegistry ==
  [sid \in 0..1 |->
     IF sid = 0 THEN <<[key |-> <<110>>, child |-> 0], [key |-> <<>>, child |-> Prim],
                       [key |-> <<109>>, child |-> 1]>>
     ELSE <<[key |-> <<110>>, child |-> Leaf]>>]

VARIABLES text, edits
vars == <<text, edits>>

Alphabet ==
  {OpenBracket, CloseBracket, OpenBrace, CloseBrace, Comma, Colon, Quote,
   Backslash, Space, 48, 50, Minus1, Dot, 101, 110}
Seeds ==
  { (* [0,{"n":null}] *)
    <<91, 48, 44, 123, 34, 110, 34, 58>> \o Null \o <<125, 93>>,
    (* {"n":[true],"":-0.5e2} *)
    <<123, 34, 110, 34, 58, 91>> \o True
      \o <<93, 44, 34, 34, 58, 45, 48, 46, 53, 101, 50, 125>>,
    (* ["\\\"]",[]] *)
    <<91, 34, 92, 92, 92, 34, 93, 34, 44, 91, 93, 93>>,
    (* [[[]]] *)
    <<91, 91, 91, 93, 93, 93>>,
    (*  { "n" : [ 0 , { } ] }  *)
    <<32, 123, 32, 34, 110, 34, 32, 58, 32, 91, 32, 48, 32, 44, 32, 123, 32,
      125, 32, 93, 32, 125, 32>>,
    (* {"n":0,"n":false} *)
    <<123, 34, 110, 34, 58, 48, 44, 34, 110, 34, 58>> \o False \o <<125>>,
    (* {"n":[{"n":[{}]},{"m":[{}]}]} *)
    <<123, 34, 110, 34, 58, 91, 123, 34, 110, 34, 58, 91, 123, 125, 93, 125, 44,
      123, 34, 109, 34, 58, 91, 123, 125, 93, 125, 93, 125>> }

Init == text \in Seeds /\ edits = 0
Edited(i) ==
  {SubSeq(text, 1, i - 1) \o b \o SubSeq(text, i + n, Len(text)) :
     b \in {<<>>} \union {<<c>> : c \in Alphabet}, n \in {0, 1}}
Edit ==
  /\ edits < MaxEdits
  /\ \E i \in 1..(Len(text) + 1) : text' \in Edited(i)
  /\ edits' = edits + 1
(* A whole text is read by every function below, and forgotten. *)
Read ==
  /\ edits = MaxEdits
  /\ edits' = MaxEdits + 1
  /\ text' = <<>>
Next == Edit \/ Read
Spec == Init /\ [][Next]_vars

-----------------------------------------------------------------------------
Readings == Json!Readings(text, MaxDepth)
Accepted == Readings # {}
Tree == CHOOSE t \in Readings : TRUE
Whole(scan) == scan.next # 0 /\ SkipWhitespace(text, scan.next) = Len(text) + 1

(* The bytes of the graph of a value. *)
RECURSIVE GraphBytes(_)
GraphBytes(t) ==
  IF t.kind = "scalar" THEN 0
  ELSE 8 + FoldLeft(LAMBDA n, v : n + GraphBytes(v)
                            + (IF t.kind = "array" THEN 16 ELSE 24), 0, t.items)

ScansAgree ==
  LET scan == SkipValue(text, 1)
      fast == SkipValueMinified(text, 1)
      counted == IF Tree.kind = "array" THEN CountArrayElements(text, 1)
                 ELSE CountObjectMembers(text, 1)
  IN /\ Whole(scan) <=> Accepted
     /\ Whole(fast) <=> Accepted
     /\ Accepted =>
          /\ scan.minified <=> ~Json!Spaced(SubSeq(text, 1, scan.next - 1), FALSE)
          /\ fast.minified = scan.minified
          /\ scan.bytes = GraphBytes(Tree) /\ fast.bytes = scan.bytes
          /\ Tree.kind # "scalar" => counted.next = scan.next /\ counted.count = Len(Tree.items)

(* The scanner accepts exactly the JSON texts of its depth, notices exactly
   the whitespace between tokens, and adds up the entries and the graph
   bytes of every value; the minified walk and its fallback agree with it
   (deserialize/scanner.ts: skipValue, skipValueMinified, the counters). *)
AcceptedExactly == [][Read => ScansAgree]_vars

Plain(n) == [i \in 1..n |-> 120]
Slashes(n) == [i \in 1..n |-> Backslash]
InArray(m, k) ==
  <<OpenBracket, Quote>> \o Plain(m) \o Slashes(k)
    \o (IF k % 2 = 1 THEN <<Quote, CloseBracket, Quote>> ELSE <<Quote>>)
    \o <<Comma>> \o text \o <<CloseBracket>>
Followers == <<Comma, Quote, CloseBracket>> \o Plain(17) \o <<Quote>>
EndsAgree ==
  Accepted =>
    /\ \A m \in {0, 5, 10}, k \in {0, 4, 5} :
         LET value == InArray(m, k)
             next == Len(value) + 1
         IN \A s \in {value, value \o Followers} :
              /\ ScanValueEndSwar(s, 1) = next
              /\ ScanValueEndSimd(s, 1) = next
              /\ ScanValueEndParity(s, 1) = next
    /\ LET from == SkipWhitespace(text, 1)
           next == SkipValue(text, 1).next
       IN \A s \in {text, text \o Followers} :
            /\ ScanValueEndSwar(s, from) = next
            /\ ScanValueEndSimd(s, from) = next
            /\ ScanValueEndParity(s, from) = next

(* In a text known to be valid the boundary scanners, which follow quotes
   and brackets only, stop where the grammar does, wherever the value meets
   the block boundaries and whatever run of backslashes precedes a quote
   (deserialize/swar/document.ts, deserialize/simd/document.ts). *)
BoundariesAgree == [][Read => EndsAgree]_vars

-----------------------------------------------------------------------------
(* What a graph says. *)
RECURSIVE Decode(_, _, _)
Decode(words, slot, key) ==
  LET at == words[slot]
      Child(e) ==
        Decode(words, SlotOf(at.tag, e),
               IF at.tag = Array THEN <<>>
               ELSE SubSeq(text, words[e].key - 1, words[e].key + words[e].keyLength))
  IN IF at.tag = Scalar THEN Json!Value("scalar", key, Text(text, at), <<>>)
     ELSE Json!Value(at.tag, key, <<>>,
            LET list == EntriesOf(words, slot) IN [i \in DOMAIN list |-> Child(list[i])])

Root == RootOffset(Len(text))
Ample == 4096
Parsed(eager) == ParseDynamicCore(text, eager, Ample)

(* A number of four digits that begins with a zero: the one spelling outside
   the grammar that gets into a graph. *)
QuickZero ==
  \E p \in DOMAIN text :
    /\ text[p] = 48 /\ Parse4Digits(text, p) # NoDigits
    /\ At(text, p + 4) \notin NumberBytes

GraphAgrees ==
  LET eager == Parsed(TRUE)
      used == Root + SlotSize + GraphBytes(Tree)
      Fixed(limit) == DeserializeDynamicDocument(text, Root, Root + SlotSize, limit)
  IN /\ ~QuickZero => (eager.status = 0 <=> Accepted)
     /\ ~QuickZero => (Fixed(Ample).used # 0 <=> Accepted)
     /\ Accepted =>
          /\ eager.graph.cursor = used
          /\ Decode(eager.graph.words, Root, <<>>) = Tree
          /\ Decode(Fixed(used).words, Root, <<>>) = Tree /\ Fixed(used).used = used
          /\ GraphBytes(Tree) > 0 => Fixed(used - 1).used = 0

(* A text becomes the graph of the value it spells or an error, never a
   partial or a different value; the fixed arena fills to the last byte and
   a byte less fails (deserialize/dynamic.ts, deserialize/swar/document.ts). *)
GraphFaithful == [][Read => GraphAgrees]_vars

Sealed(g) == [g EXCEPT !.room = g.limit]
ReserveAgrees ==
  LET d == Parsed(FALSE)
      g == Sealed(d.graph)
      whole == MaterializeTree(g, text, Root, 0)
      slots == IF g.words[Root].tag = Scalar THEN <<>>
               ELSE LET list == EntriesOf(g.words, Root)
                    IN [i \in DOMAIN list |-> SlotOf(g.words[Root].tag, list[i])]
      Build(h, slot) == IF h.next = 0 THEN h ELSE MaterializeTree(h, text, slot, 1)
      backwards == FoldRight(LAMBDA slot, h : Build(h, slot), slots, g)
  IN /\ Accepted => d.status = 0
     /\ Accepted =>
          \A built \in {whole, backwards} :
            /\ built.next # 0 /\ built.cursor <= g.limit
            /\ built.cursor = Root + SlotSize + GraphBytes(Tree)
            /\ Decode(built.words, Root, <<>>) = Tree
     /\ d.status # 0 /\ ~QuickZero => ParseDynamicCore(text, TRUE, Ample).status # 0

(* A retained document reserves, when it is parsed, what all its containers
   will need: building them, all at once or the last one first, never asks
   for more, and yields the value of the text (the reservation in
   parseDynamicCore against materializeDynamic). *)
ReservedSuffices == [][Read => ReserveAgrees]_vars

PrintAgrees ==
  Accepted =>
    \A eager \in BOOLEAN :
      LET first == SerializeDynamic(Parsed(eager), text, Root)
          second == SerializeDynamic(first.document, text, Root)
      IN /\ first.bytes = Json!Compact(Tree)
         /\ second.bytes = first.bytes

(* However a document is parsed and however often it is printed, the text is
   the same: the canonical spelling of its value.  The copy of the source
   that replaces printing is taken only when it is that text
   (serialize/dynamic.ts: serializeDynamic). *)
PrintedTheSame == [][Read => PrintAgrees]_vars

-----------------------------------------------------------------------------
(* The earlier engines.  A row holds the last member with the bytes of its
   key, and a table only the objects of an array. *)
RECURSIVE RowOf(_, _, _), CellOf(_, _, _)
Bytes1(s) == SubSeq(s, 2, Len(s) - 1)
RowOf(eager, t, sid) ==
  [f \in DOMAIN Registry[sid] |->
     LET found == {i \in DOMAIN t.items : Bytes1(t.items[i].key) = Registry[sid][f].key}
     IN IF found # {} THEN CellOf(eager, t.items[Max(found)], Registry[sid][f].child)
        ELSE IF eager THEN <<"zero">> ELSE <<"absent">>]
CellOf(eager, t, mode) ==
  LET Literal(kind) == IF eager THEN <<"zero">> ELSE <<kind>>
      objects == SelectSeq(t.items, LAMBDA v : v.kind = "object")
  IN CASE t.kind = "object" /\ mode >= 0 -> <<"record", RowOf(eager, t, mode)>>
       [] t.kind = "array" /\ mode >= 0 /\ eager ->
            <<"rows", [i \in DOMAIN objects |-> RowOf(eager, objects[i], mode)]>>
       [] t.kind = "array" /\ mode # Leaf ->
            <<"rows", [i \in DOMAIN t.items |->
                         CellOf(eager, t.items[i], IF mode >= 0 /\ t.items[i].kind = "object"
                                                   THEN mode ELSE Leaf)]>>
       [] t.kind \in {"object", "array"} -> IF eager THEN <<"nan">> ELSE <<t.kind, Json!Compact([t EXCEPT !.key = <<>>])>>
       [] t.text = True -> <<"true">>
       [] t.text = False -> Literal("false")
       [] t.text = Null -> Literal("null")
       [] t.text[1] = Quote -> <<"string", Bytes1(t.text)>>
       [] OTHER -> <<"number", t.text>>

(* What the cells of a document say. *)
RECURSIVE SaidBy(_, _, _)
SaidBy(g, place, mode) ==
  LET at == g.cells[place]
      span == SubSeq(text, at.a, at.a + at.b - 1)
      fields == IF mode >= 0 THEN Registry[mode] ELSE <<>>
      Row(base) == [f \in DOMAIN fields |-> SaidBy(g, Arena(base + f - 1), fields[f].child)]
      header == g.cells[Arena(at.a)]
      from == at.a + 1
      Element(i) ==
        IF ~g.eager THEN SaidBy(g, Arena(from + i - 1),
                                IF g.cells[Arena(from + i - 1)].kind = "record" THEN mode ELSE Leaf)
        ELSE IF mode = Prim THEN SaidBy(g, Arena(from + i - 1), Leaf)
        ELSE Row(from + header.b * (i - 1))
  IN CASE at.kind = "record" -> <<at.kind, Row(IF g.eager THEN from ELSE at.a)>>
       [] at.kind = "rows" -> <<at.kind, [i \in 1..header.a |-> Element(i)]>>
       [] at.kind \in {"object", "array"} ->
            <<at.kind, Json!Compact(CHOOSE t \in Json!Readings(span, 5) : TRUE)>>
       [] at.kind \in {"string", "number"} -> <<at.kind, span>>
       [] OTHER -> <<at.kind>>

(* An element that is no container, in a table of records: the scan that
   passes over it takes the next container with it (see the hazards). *)
RECURSIVE BareElement(_, _)
BareElement(t, mode) ==
  CASE mode < 0 \/ t.kind = "scalar" -> FALSE
    [] t.kind = "array" -> \E i \in DOMAIN t.items :
                             t.items[i].kind = "scalar" \/ BareElement(t.items[i], mode)
    [] OTHER -> \E i \in DOMAIN t.items, f \in DOMAIN Registry[mode] :
                  /\ Bytes1(t.items[i].key) = Registry[mode][f].key
                  /\ BareElement(t.items[i], Registry[mode][f].child)

RowsAgree ==
  \A tree \in Json!Readings(text, 5) : \A eager \in BOOLEAN, sid \in DOMAIN Registry :
    LET at == SkipWhitespace(text, 1)
        Into(cells) == ReadValue(Fresh(eager, cells), text, at, Len(text), Scratch, sid)
        blank == (Scratch :> ZeroCell)
        once == Into(blank)
        again == Into(once.cells)
        spans == SpanObject(once, text, sid)
    IN tree.kind # "scalar" /\ ~(eager /\ BareElement(tree, sid)) =>
         /\ \A g \in {once, again} :
              SaidBy(g, Scratch, sid) = CellOf(eager, tree, sid) /\ g.tsp = 0
         /\ tree.kind = "object" => \A f \in DOMAIN Registry[sid] :
              LET found == {i \in DOMAIN tree.items :
                              Bytes1(tree.items[i].key) = Registry[sid][f].key}
                  span == spans.cells[Arena(f - 1)]
              IN IF found = {} THEN span.kind # "span"
                 ELSE Json!Readings(SubSeq(text, span.a, span.a + span.b - 1), 5)
                        = {[tree.items[Max(found)] EXCEPT !.key = <<>>]}

(* Both engines turn a text into the rows of its value, whatever the memory
   held before, and give the second memory back; the spans of a text are its
   members (wasm/eager.ts, wasm/parser.ts). *)
RowsFaithful == [][Read => RowsAgree]_vars
=============================================================================
