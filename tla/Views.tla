-------------------------------- MODULE Views --------------------------------
(***************************************************************************)
(* Typed views over parsed documents (src/raw/view-state.js, node-binding  *)
(* .js) and the resident scratch input of host-byte-bridge.js.             *)
(*                                                                         *)
(* The schema is the smallest that has every kind of field transition: a   *)
(* record with a number (stored in place), a real array (exposed through   *)
(* an overlay when it is first read) and a nested record with a number and *)
(* a string (overlaid when it is written).  A JSON text is the value it    *)
(* spells and how it spells it.  A released document keeps its bytes until *)
(* the allocator hands its block out again.                                *)
(***************************************************************************)
EXTENDS Naturals, FiniteSets

CONSTANTS
  Pointers,     (* the documents the allocator can hand out                *)
  Values,       (* what a field may hold                                   *)
  Sources,      (* the texts the application parses                        *)
  MaxParses,    (* bound: results of parse in one behaviour                *)
  MaxWrites     (* bound: field writes in one behaviour                    *)

None == "none"

RootParts == {"num", "list"}
NestedParts == {"nestedNum", "nestedName"}
Parts == RootParts \cup NestedParts

Object == [Parts -> Values]

(* "canonical" is what the generated writer prints; "ordered" has the same   *)
(* order of keys and no white space, but for example 1.0 for 1.              *)
Styles == {"canonical", "ordered", "pretty"}

Text == [value : Object, style : Styles]

Spelled(value) == [value |-> value, style |-> "canonical"]

ASSUME ViewsAssumption ==
  /\ None \notin Pointers
  /\ None \notin Values
  /\ Sources \subseteq Text
  /\ MaxParses \in Nat
  /\ MaxWrites \in Nat

Ids == 1..MaxParses

VARIABLES
  docs,       (* document memory: record slots, retained source and its     *)
              (* candidate or canonical bit                                *)
  allocated,  (* the documents the allocator has handed out                *)
  dirty,      (* _dirtyDocuments                                           *)
  results,    (* the views and shared state of each result of parse        *)
  scratch,    (* what operation scratch holds                              *)
  resident,   (* scratchInputMode and scratchInputString while              *)
              (* scratchInputValid, NoInput otherwise                      *)
  writes,     (* field writes so far                                       *)
  answer      (* what the last call returned                               *)

memory == <<docs, allocated>>
input == <<scratch, resident>>
vars == <<docs, allocated, dirty, results, scratch, resident, writes, answer>>

NoObject == [part \in Parts |-> None]

NoText == [value |-> NoObject, style |-> None]

NoInput == [mode |-> None, text |-> NoText]

Unparsed ==
  [pointer |-> None, document |-> None, list |-> None, name |-> None,
   serialized |-> NoText, schema |-> None, nestedDisposed |-> FALSE]

Init ==
  /\ docs = [p \in Pointers |-> [slots |-> NoObject, source |-> NoText, bit |-> None]]
  /\ allocated = {}
  /\ dirty = {}
  /\ results = [id \in Ids |-> Unparsed]
  /\ scratch = NoInput
  /\ resident = NoInput
  /\ writes = 0
  /\ answer = [call |-> "none"]

Parsed(id) == results[id].pointer # None

Active(id) == results[id].document # None

(* A view answers while the shared state names a document, and a flat nested *)
(* view only until its own dispose zeroes its RAW_DOCUMENT and RAW_ROOT.     *)
NestedActive(id) == Active(id) /\ ~results[id].nestedDisposed

Answers(id, part) == IF part \in NestedParts THEN NestedActive(id) ELSE Active(id)

Slots(id) == docs[results[id].pointer].slots

(* What the getters of the views return.                                    *)
Seen(id) ==
  [Slots(id) EXCEPT
     !.list = IF results[id].list = None THEN @ ELSE results[id].list,
     !.nestedName = IF results[id].name = None THEN @ ELSE results[id].name]

Restricted(value, parts) == [p \in parts |-> value[p]]

-----------------------------------------------------------------------------
(* HostByteBridge: operation scratch and the input it remembers             *)

Input(text, mode) == [mode |-> mode, text |-> text]

WriteString(text, mode) ==
  \/ resident = Input(text, mode) /\ UNCHANGED input
  \/ /\ resident # Input(text, mode)
     /\ scratch' = Input(text, mode)
     /\ resident' = Input(text, mode)

WriteBytes(text) ==
  /\ scratch' = Input(text, "json")
  /\ resident' = NoInput

(* Mutant: the bridge goes on remembering an input that was overwritten.     *)
UseScratchUnnoticed ==
  /\ scratch' = Input(NoText, "output")
  /\ UNCHANGED resident

(* Scratch is about to be overwritten with output or a lowered object.       *)
UseScratch ==
  /\ scratch' = Input(NoText, "output")
  /\ resident' = NoInput

(* echo and commit leave their unescaped input in scratch.                   *)
Echo(text) ==
  /\ WriteString(text, "raw")
  /\ answer' = [call |-> "none"]
  /\ UNCHANGED <<memory, dirty, results, writes>>

-----------------------------------------------------------------------------
(* parse                                                                    *)

(* A parser reads the JSON that is in scratch; anything else there is a      *)
(* syntax error.                                                            *)
LoadDocument(id) ==
  IF scratch'.mode = "json"
  THEN \E p \in Pointers \ allocated :
         /\ docs' = [docs EXCEPT ![p] =
              [slots  |-> scratch'.text.value,
               source |-> scratch'.text,
               bit    |-> IF scratch'.text.style = "pretty" THEN None ELSE "candidate"]]
         /\ allocated' = allocated \cup {p}
         /\ results' = [results EXCEPT ![id] =
              [Unparsed EXCEPT !.pointer = p, !.document = p]]
  ELSE UNCHANGED <<memory, results>>

Parse(id, text) ==
  /\ ~Parsed(id) /\ \A i \in 1..(id - 1) : Parsed(i)
  /\ WriteString(text, "json") \/ WriteBytes(text)
  /\ LoadDocument(id)
  /\ answer' = [call |-> "parse", object |-> text.value]
  /\ UNCHANGED <<dirty, writes>>

-----------------------------------------------------------------------------
(* Getters and setters                                                      *)

Released == answer' = [call |-> "released"] /\ UNCHANGED <<memory, dirty, results, input, writes>>

(* Mutant: the cached string survives a write.                              *)
KeepingSerialized(id) == results[id]

(* Mutant: the string is dropped but the schema it was made for is not.       *)
KeepingSchema(id) == [results[id] EXCEPT !.serialized = NoText]

(* invalidateViewSerialization                                              *)
Invalidated(id) == [results[id] EXCEPT !.serialized = NoText, !.schema = None]

ClearBits(id) == docs' = [docs EXCEPT ![results[id].document].bit = None]

(* writeViewOverlay                                                         *)
WriteOverlay(id, overlaid) ==
  /\ results' = [results EXCEPT ![id] = overlaid]
  /\ dirty' = dirty \cup {results[id].document}
  /\ ClearBits(id)

Read(id, part) ==
  /\ Parsed(id)
  /\ \/ ~Answers(id, part) /\ Released
     \/ /\ Answers(id, part)
        /\ part # "list" \/ results[id].list # None
        /\ answer' = [call |-> "read", value |-> Seen(id)[part]]
        /\ UNCHANGED <<memory, dirty, results, input, writes>>
     \/ /\ Active(id)
        /\ part = "list" /\ results[id].list = None
        /\ WriteOverlay(id, [Invalidated(id) EXCEPT !.list = Seen(id).list])
        /\ answer' = [call |-> "read", value |-> Seen(id).list]
        /\ UNCHANGED <<allocated, input, writes>>

(* applyViewFieldWrite                                                      *)
Write(id, part, value) ==
  /\ Parsed(id)
  /\ \/ ~Active(id) /\ Released
     \/ /\ Active(id) /\ writes < MaxWrites
        /\ part \in {"num", "nestedNum"}
        /\ IF Answers(id, part)
           THEN docs' = [docs EXCEPT ![results[id].document].slots[part] = value,
                                     ![results[id].document].bit = None]
           ELSE ClearBits(id) \* stored at address 0
        /\ results' = [results EXCEPT ![id] = Invalidated(id)]
        /\ answer' = [call |-> "write", value |-> value]
        /\ writes' = writes + 1
        /\ UNCHANGED <<allocated, dirty, input>>
     \/ /\ Active(id) /\ writes < MaxWrites
        /\ part = "list"
        /\ WriteOverlay(id, [Invalidated(id) EXCEPT !.list = value])
        /\ answer' = [call |-> "write", value |-> value]
        /\ writes' = writes + 1
        /\ UNCHANGED <<allocated, input>>
     \/ /\ Active(id) /\ writes < MaxWrites
        /\ part = "nestedName"
        /\ WriteOverlay(id, [Invalidated(id) EXCEPT !.name = value])
        /\ answer' = [call |-> "write", value |-> value]
        /\ writes' = writes + 1
        /\ UNCHANGED <<allocated, input>>

(* The application changes the real array it has read: no setter runs.       *)
MutateList(id, value) ==
  /\ Active(id) /\ writes < MaxWrites
  /\ results[id].list # None
  /\ results' = [results EXCEPT ![id].list = value]
  /\ answer' = [call |-> "write", value |-> value]
  /\ writes' = writes + 1
  /\ UNCHANGED <<memory, dirty, input>>

-----------------------------------------------------------------------------
(* stringify                                                                *)

(* What a serializer finds in the record at the document's root: the nested  *)
(* schema's serializer takes the root record's slots for its own.            *)
RootRecord(slots, schema) ==
  IF schema = "root" THEN slots
  ELSE [nestedNum |-> slots.num, nestedName |-> slots.list]

(* The generated serializer, with its canonical-source fast path.            *)
Serialized(doc, schema) ==
  IF doc.bit = "canonical" THEN doc.source
  ELSE Spelled(RootRecord(doc.slots, schema))

(* Mutant: a candidate is promoted without comparing it with the output.     *)
PromotedUnchecked(doc, schema) == IF doc.bit # "candidate" THEN doc.bit ELSE "canonical"

Promoted(doc, schema) ==
  IF doc.bit # "candidate" THEN doc.bit
  ELSE IF doc.source = Serialized(doc, schema) THEN "canonical" ELSE None

PartsOf(schema) == IF schema = "root" THEN Parts ELSE NestedParts

Overlaid(id, schema) ==
  IF schema = "root" THEN results[id].list # None ELSE results[id].name # None

(* _lowerPlainObject and stringifyWasm: a record built from what the getters *)
(* return, then printed.                                                    *)
Lowered(id, schema) == Spelled(Restricted(Seen(id), PartsOf(schema)))

(* _stringifyObject, applied to the root view or to the nested view          *)
Stringify(id, schema) ==
  LET document == results[id].document
      active == IF schema = "root" THEN Active(id) ELSE NestedActive(id)
      lower == Overlaid(id, schema) \/ document \in dirty
      cached == results[id].schema = schema
      text == Serialized(docs[document], schema)
  IN  /\ Parsed(id)
      /\ \/ ~active /\ Released
         \/ /\ active /\ lower /\ ~NestedActive(id) \* the lowerer's getter throws
            /\ UseScratch
            /\ answer' = [call |-> "released"]
            /\ UNCHANGED <<memory, dirty, results, writes>>
         \/ /\ active /\ lower /\ NestedActive(id)
            /\ UseScratch
            /\ answer' = [call |-> "stringify", text |-> Lowered(id, schema)]
            /\ \/ /\ schema = "root" /\ results[id].list = None
                  /\ WriteOverlay(id, [Invalidated(id) EXCEPT !.list = Seen(id).list])
               \/ /\ schema # "root" \/ results[id].list # None
                  /\ UNCHANGED <<docs, dirty, results>>
            /\ UNCHANGED <<allocated, writes>>
         \/ /\ active /\ ~lower /\ cached
            /\ answer' = [call |-> "stringify", text |-> results[id].serialized]
            /\ UNCHANGED <<memory, dirty, results, input, writes>>
         \/ /\ active /\ ~lower /\ ~cached
            /\ UseScratch
            /\ docs' = [docs EXCEPT ![document].bit = Promoted(docs[document], schema)]
            /\ results' = [results EXCEPT ![id].serialized = text, ![id].schema = schema]
            /\ answer' = [call |-> "stringify", text |-> text]
            /\ UNCHANGED <<allocated, dirty, writes>>

-----------------------------------------------------------------------------
(* dispose                                                                  *)

(* Mutant: a released pointer stays in _dirtyDocuments.                      *)
ReleaseKeepingDirty(p, released) ==
  /\ p \in allocated
  /\ allocated' = allocated \ {p}
  /\ results' = released
  /\ answer' = [call |-> "dispose"]
  /\ UNCHANGED <<docs, dirty, input, writes>>

(* RawNodeBinding.release: the allocator refuses what is not allocated.      *)
ReleaseDocument(p, released) ==
  \/ /\ p \in allocated
     /\ allocated' = allocated \ {p}
     /\ dirty' = dirty \ {p}
     /\ results' = released
     /\ answer' = [call |-> "dispose"]
     /\ UNCHANGED <<docs, input, writes>>
  \/ /\ p \notin allocated
     /\ answer' = [call |-> "error"]
     /\ UNCHANGED <<memory, dirty, results, input, writes>>

(* Mutant: the shared state still names the released document.              *)
DisposeKeepingState(id) ==
  /\ Active(id)
  /\ ReleaseDocument(results[id].document, results)

(* disposeGeneratedView on the root view, whose schema has a composite field *)
Dispose(id) ==
  /\ Parsed(id)
  /\ \/ /\ ~Active(id)
        /\ answer' = [call |-> "none"]
        /\ UNCHANGED <<memory, dirty, results, input, writes>>
     \/ /\ Active(id)
        /\ ReleaseDocument(results[id].document, [results EXCEPT ![id].document = None])

(* disposeGeneratedView on the nested view, whose schema is flat             *)
DisposeNested(id) ==
  /\ Parsed(id)
  /\ \/ /\ ~Active(id) \/ results[id].nestedDisposed
        /\ answer' = [call |-> "none"]
        /\ UNCHANGED <<memory, dirty, results, input, writes>>
     \/ /\ NestedActive(id)
        /\ ReleaseDocument(results[id].pointer, [results EXCEPT ![id].nestedDisposed = TRUE])

-----------------------------------------------------------------------------

Next ==
  \/ \E text \in Sources : Echo(text)
  \/ \E id \in Ids, text \in Sources : Parse(id, text)
  \/ \E id \in Ids, part \in Parts : Read(id, part)
  \/ \E id \in Ids, part \in Parts, value \in Values : Write(id, part, value)
  \/ \E id \in Ids, value \in Values : MutateList(id, value)
  \/ \E id \in Ids : Stringify(id, "root")
  \/ \E id \in Ids : Dispose(id)

Spec == Init /\ [][Next]_vars

-----------------------------------------------------------------------------
(* Properties.                                                              *)

Bits == {None, "candidate", "canonical"}

(* Types of the host's and the document's state (node-binding.js:591-663).   *)
TypeOK ==
  /\ docs \in [Pointers -> [slots  : Object \cup {NoObject},
                            source : Text \cup {NoText},
                            bit    : Bits]]
  /\ allocated \subseteq Pointers
  /\ dirty \subseteq Pointers
  /\ DOMAIN results = Ids
  /\ \A id \in Ids :
       /\ results[id].pointer \in Pointers \cup {None}
       /\ results[id].document \in {None, results[id].pointer}
       /\ results[id].list \in Values \cup {None}
       /\ results[id].name \in Values \cup {None}
       /\ results[id].schema \in {None, "root", "nested"}
       /\ results[id].schema # None => results[id].serialized \in
            [value : [PartsOf(results[id].schema) -> Values], style : Styles]
       /\ results[id].nestedDisposed \in BOOLEAN
  /\ writes \in 0..MaxWrites

(* "stale-view protection after release" (README.md:545): a view that still  *)
(* answers reads the document of its own parse, which nobody else owns.      *)
NoStaleView ==
  \A id \in Ids : Active(id) =>
    /\ results[id].document \in allocated
    /\ \A other \in Ids \ {id} : results[other].document # results[id].document

(* A document marked canonical spells exactly what its views read, so        *)
(* copying its source is serializing it (ARCHITECTURE.md:266-277).           *)
CanonicalSource ==
  \A id \in Ids :
    Active(id) /\ docs[results[id].document].bit = "canonical" =>
      docs[results[id].document].source = Spelled(Seen(id))

(* A document whose views hold values its memory does not is dirty, and no   *)
(* document is dirty for what an earlier owner of its block did.             *)
DirtyExactly ==
  /\ dirty \subseteq allocated
  /\ \A id \in Ids : Active(id) => (results[id].document \in dirty <=>
       (results[id].list # None \/ results[id].name # None))

(* The input the bridge remembers is the one that is in scratch.             *)
ResidentInput == resident # NoInput => scratch = resident

(* Parsed values behave as independent objects (module JsonObjects).         *)
Current == [id \in {i \in Ids : Active(i)} |-> Seen(id)]

Objects == INSTANCE JsonObjects WITH objects <- Current

ObjectSpec == Objects!Spec

=============================================================================
