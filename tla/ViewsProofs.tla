----------------------------- MODULE ViewsProofs -----------------------------
(***************************************************************************)
(* The views of parse results are correct, and they implement module       *)
(* JsonObjects, for every number of results, documents, values and texts.  *)
(*                                                                         *)
(* Every step but parse and dispose changes one view and the document it   *)
(* reads, so the proofs go through what a view v reads from a document d:  *)
(* lemma Update says once what changing both does to the whole state.      *)
(***************************************************************************)
EXTENDS Views, TLAPS

Document == [slots : Object \cup {NoObject}, source : Text \cup {NoText}, bit : Bits]

View ==
  [pointer : Pointers \cup {None}, document : Pointers \cup {None},
   list : Values \cup {None}, name : Values \cup {None},
   serialized : Text \cup {NoText}, schema : {None, "root"}, nestedDisposed : {FALSE}]

Typed ==
  /\ docs \in [Pointers -> Document]
  /\ allocated \subseteq Pointers
  /\ dirty \subseteq Pointers
  /\ results \in [Ids -> View]
  /\ \A id \in Ids : results[id].document \in {None, results[id].pointer}
  /\ \A id \in Ids : results[id].schema # None => results[id].serialized \in Text
  /\ writes \in 0..MaxWrites

(* Nothing is overlaid on the document of view v.                            *)
Plain(v) == v.list = None /\ v.name = None

(* What view v reads from its document d.                                   *)
SeenIn(v, d) ==
  [d.slots EXCEPT !.list = IF v.list = None THEN @ ELSE v.list,
                  !.nestedName = IF v.name = None THEN @ ELSE v.name]

(* What a single getter of v returns.                                       *)
Getter(v, d, part) ==
  IF part = "list" /\ v.list # None THEN v.list
  ELSE IF part = "nestedName" /\ v.name # None THEN v.name
  ELSE d.slots[part]

(* What d and v keep for later, the canonical bit and the printed text, is   *)
(* kept only while nothing is overlaid, and is true of the slots.            *)
Faithful(v, d) ==
  /\ d.slots \in Object
  /\ d.bit # None => Plain(v)
  /\ d.bit = "canonical" => d.source = Spelled(d.slots)
  /\ v.schema # None => Plain(v) /\ v.serialized = Spelled(d.slots)

Doc(id) == docs[results[id].pointer]

AllFaithful == \A id \in Ids : Active(id) => Faithful(results[id], Doc(id))

IInv ==
  /\ Typed
  /\ NoStaleView
  /\ DirtyExactly
  /\ ResidentInput
  /\ AllFaithful

-----------------------------------------------------------------------------
(* The types of one view and its document.                                   *)
LEMMA ViewFacts ==
  ASSUME IInv, NEW id \in Ids
  PROVE  /\ results[id] \in View
         /\ results[id].document \in {None, results[id].pointer}
         /\ Active(id) => /\ results[id].pointer \in Pointers
                          /\ results[id].document = results[id].pointer
                          /\ results[id].pointer \in allocated
                          /\ Doc(id) \in Document
                          /\ Faithful(results[id], Doc(id))
                          /\ results[id].pointer \in dirty <=> ~Plain(results[id])
<1>1. results[id] \in View /\ results[id].document \in {None, results[id].pointer}
  BY DEF IInv, Typed
<1>2. ASSUME Active(id)
      PROVE  /\ results[id].document = results[id].pointer
             /\ results[id].pointer \in allocated
             /\ Faithful(results[id], Doc(id))
             /\ results[id].pointer \in dirty <=> ~Plain(results[id])
  BY <1>1, <1>2 DEF IInv, NoStaleView, DirtyExactly, AllFaithful, Active, Plain
<1>3. ASSUME Active(id) PROVE results[id].pointer \in Pointers /\ Doc(id) \in Document
  BY <1>2, <1>3 DEF IInv, Typed, Doc
<1>4. QED
  BY <1>1, <1>2, <1>3

(* What the getters return is what the view reads from its document.         *)
LEMMA SeenFacts ==
  ASSUME IInv
  PROVE  /\ DOMAIN Current = {id \in Ids : Active(id)}
         /\ \A id \in DOMAIN Current : Current[id] = SeenIn(results[id], Doc(id))
         /\ \A id \in Ids : Seen(id) = SeenIn(results[id], Doc(id))
  BY DEF Current, Seen, Slots, SeenIn, Doc

(* A view, getter by getter.                                                *)
LEMMA SeenParts ==
  ASSUME NEW v, NEW d, d.slots \in Object
  PROVE  SeenIn(v, d) = [part \in Parts |-> Getter(v, d, part)]
  BY DEF SeenIn, Getter, Object, Parts, RootParts, NestedParts

(* A view with nothing overlaid returns the slots of its document.           *)
LEMMA SeenPlain ==
  ASSUME NEW v, NEW d, d.slots \in Object, Plain(v)
  PROVE  SeenIn(v, d) = d.slots /\ SeenIn(v, d) = [part \in Parts |-> SeenIn(v, d)[part]]
  BY DEF SeenIn, Plain, Object, Parts, RootParts, NestedParts

(* A view of which one getter returns something new.                         *)
LEMMA SeenWritten ==
  ASSUME NEW v, NEW d, NEW w, NEW e, NEW part \in Parts, NEW value,
         d.slots \in Object, e.slots \in Object,
         Getter(w, e, part) = value,
         \A other \in Parts \ {part} : Getter(w, e, other) = Getter(v, d, other)
  PROVE  SeenIn(w, e) = [SeenIn(v, d) EXCEPT ![part] = value]
  BY SeenParts

(* A view v of a document d that keeps what it may keep of it has its types. *)
LEMMA FaithfulTyped ==
  ASSUME NEW v \in View, NEW d \in Document, Faithful(v, d)
  PROVE  v.schema # None => v.serialized \in Text
  BY DEF Faithful, Spelled, Text, Styles, Document

(* A step that changes neither a view nor a document.                        *)
LEMMA Same ==
  ASSUME IInv, UNCHANGED <<docs, allocated, dirty, results>>,
         writes' \in 0..MaxWrites, ResidentInput'
  PROVE  IInv' /\ Current' = Current
<1>1. Typed' /\ NoStaleView' /\ DirtyExactly' /\ AllFaithful'
  BY DEF IInv, Typed, NoStaleView, DirtyExactly, AllFaithful, Doc, Active
<1>2. Current' = Current
  BY DEF Current, Seen, Slots, Active
<1>3. QED
  BY <1>1, <1>2 DEF IInv

(* A step that makes view id of its own document into v, and the document    *)
(* into d, changes no other object.                                         *)
LEMMA Update ==
  ASSUME IInv, NEW id \in Ids, Active(id), NEW v \in View, NEW d \in Document,
         v.pointer = results[id].pointer, v.document = results[id].document,
         Faithful(v, d),
         results' = [results EXCEPT ![id] = v],
         docs' = [docs EXCEPT ![results[id].pointer] = d],
         allocated' = allocated,
         dirty' \subseteq allocated,
         results[id].pointer \in dirty' <=> ~Plain(v),
         \A p \in allocated : p # results[id].pointer => (p \in dirty' <=> p \in dirty),
         writes' \in 0..MaxWrites,
         ResidentInput'
  PROVE  /\ IInv'
         /\ id \in DOMAIN Current
         /\ DOMAIN Current' = DOMAIN Current
         /\ Current'[id] = SeenIn(v, d)
         /\ \A other \in DOMAIN Current \ {id} : Current'[other] = Current[other]
<1> DEFINE p == results[id].pointer
<1>1. /\ p \in Pointers /\ p \in allocated /\ results[id].document = p
      /\ results \in [Ids -> View] /\ docs \in [Pointers -> Document]
  BY ViewFacts DEF IInv, Typed
<1>2. /\ results'[id] = v /\ docs'[p] = d
      /\ \A other \in Ids : other # id => results'[other] = results[other]
      /\ \A q \in Pointers : q # p => docs'[q] = docs[q]
      /\ results' \in [Ids -> View] /\ docs' \in [Pointers -> Document]
  BY <1>1
<1>3. \A other \in Ids : Active(other)' <=> Active(other)
  BY <1>2 DEF Active
<1>4. ASSUME NEW other \in Ids, other # id, Active(other)
      PROVE  /\ results[other].pointer \in allocated
             /\ results[other].pointer \in Pointers
             /\ results[other].document = results[other].pointer
             /\ results[other].pointer # p
             /\ Doc(other)' = Doc(other)
  <2>1. /\ results[other].pointer \in Pointers /\ results[other].pointer \in allocated
        /\ results[other].document = results[other].pointer
    BY <1>4, ViewFacts
  <2>2. results[other].document # results[id].document
    BY <1>4 DEF IInv, NoStaleView
  <2>3. QED
    BY <1>1, <1>2, <1>4, <2>1, <2>2 DEF Doc
<1>5. Typed'
  <2>1. \A other \in Ids : results'[other].document \in {None, results'[other].pointer}
    BY <1>2, ViewFacts
  <2>2. \A other \in Ids : results'[other].schema # None => results'[other].serialized \in Text
    BY <1>2, FaithfulTyped DEF IInv, Typed
  <2>3. allocated' \subseteq Pointers /\ dirty' \subseteq Pointers
    BY DEF IInv, Typed
  <2>4. QED
    BY <1>2, <2>1, <2>2, <2>3 DEF Typed
<1>6. NoStaleView'
  <2>1. \A other \in Ids : results'[other].document = results[other].document
    BY <1>2
  <2>2. QED
    BY <1>3, <2>1 DEF NoStaleView, IInv
<1>7. DirtyExactly'
  <2>1. ASSUME NEW other \in Ids, Active(other)'
        PROVE  results'[other].document \in dirty' <=>
                 (results'[other].list # None \/ results'[other].name # None)
    <3>1. CASE other = id
      BY <1>1, <1>2, <3>1 DEF Plain
    <3>2. CASE other # id
      BY <1>2, <1>3, <1>4, <2>1, <3>2 DEF IInv, DirtyExactly
    <3>3. QED
      BY <3>1, <3>2
  <2>2. QED
    BY <2>1 DEF DirtyExactly
<1>8. AllFaithful'
  <2>1. ASSUME NEW other \in Ids, Active(other)'
        PROVE  Faithful(results'[other], Doc(other)')
    <3>1. CASE other = id
      BY <1>1, <1>2, <3>1 DEF Doc
    <3>2. CASE other # id
      BY <1>2, <1>3, <1>4, <2>1, <3>2 DEF IInv, AllFaithful
    <3>3. QED
      BY <3>1, <3>2
  <2>2. QED
    BY <2>1 DEF AllFaithful, Faithful, Plain, Spelled, Doc
<1>9. IInv'
  BY <1>5, <1>6, <1>7, <1>8 DEF IInv
<1>10. /\ DOMAIN Current = {i \in Ids : Active(i)}
       /\ DOMAIN Current' = {i \in Ids : Active(i)'}
       /\ \A i \in DOMAIN Current : Current[i] = SeenIn(results[i], Doc(i))
       /\ \A i \in DOMAIN Current' : Current'[i] = SeenIn(results'[i], Doc(i)')
  BY DEF Current, Seen, Slots, SeenIn, Doc
<1>11. id \in DOMAIN Current /\ DOMAIN Current' = DOMAIN Current
  BY <1>3, <1>10
<1>12. Current'[id] = SeenIn(v, d)
  BY <1>1, <1>2, <1>10, <1>11 DEF Doc
<1>13. \A other \in DOMAIN Current \ {id} : Current'[other] = Current[other]
  BY <1>2, <1>4, <1>10, <1>11
<1>14. QED
  BY <1>9, <1>11, <1>12, <1>13

-----------------------------------------------------------------------------
(* The input bridge.                                                         *)

(* Writing a string leaves it in scratch, remembered from before or now.     *)
LEMMA WriteStringFacts ==
  ASSUME IInv, NEW text, NEW mode \in {"json", "raw"}, WriteString(text, mode)
  PROVE  scratch' = Input(text, mode) /\ ResidentInput'
<1>1. Input(text, mode) # NoInput
  BY DEF Input, NoInput, None
<1>2. QED
  BY <1>1 DEF WriteString, IInv, ResidentInput, input

(* Scratch holds an output, and no input is remembered.                      *)
LEMMA UseScratchFacts ==
  ASSUME UseScratch
  PROVE  ResidentInput'
  BY DEF UseScratch, ResidentInput

LEMMA InputKept ==
  ASSUME IInv, UNCHANGED input
  PROVE  ResidentInput'
  BY DEF IInv, ResidentInput, input

-----------------------------------------------------------------------------
(* The steps, one by one: each preserves the invariant and is one of module  *)
(* JsonObjects.                                                             *)

(* A call on a view that is gone is refused and changes nothing.             *)
LEMMA ReleasedStep ==
  ASSUME IInv, Released
  PROVE  IInv' /\ Objects!Next
<1>1. IInv' /\ Current' = Current
  BY InputKept, Same DEF Released, memory, IInv, Typed
<1>2. Objects!Refuse
  BY <1>1 DEF Released, Objects!Refuse
<1>3. QED
  BY <1>1, <1>2 DEF Objects!Next

LEMMA EchoStep ==
  ASSUME IInv, NEW text \in Sources, Echo(text)
  PROVE  IInv' /\ Objects!Next
<1>1. ResidentInput'
  BY WriteStringFacts DEF Echo
<1>2. IInv' /\ Current' = Current
  BY <1>1, Same DEF Echo, memory, IInv, Typed
<1>3. Objects!Other
  BY <1>2 DEF Echo, Objects!Other
<1>4. QED
  BY <1>2, <1>3 DEF Objects!Next

(* parse puts the value of the text it was given in a document of its own.   *)
LEMMA ParseStep ==
  ASSUME IInv, NEW id \in Ids, NEW text \in Sources, Parse(id, text)
  PROVE  IInv' /\ Objects!Next
<1>1. scratch' = Input(text, "json") /\ ResidentInput'
  BY WriteStringFacts DEF Parse, WriteBytes, ResidentInput
<1>2. ~Active(id)
  BY ViewFacts DEF Parse, Parsed, Active
<1> DEFINE bit == IF text.style = "pretty" THEN None ELSE "candidate"
           d == [slots |-> text.value, source |-> text, bit |-> bit]
<1>3. PICK p \in Pointers \ allocated :
        /\ docs' = [docs EXCEPT ![p] = d]
        /\ allocated' = allocated \cup {p}
        /\ results' = [results EXCEPT ![id] = [Unparsed EXCEPT !.pointer = p, !.document = p]]
  BY <1>1 DEF Parse, LoadDocument, Input
<1> DEFINE v == [Unparsed EXCEPT !.pointer = p, !.document = p]
<1>4. /\ results' = [results EXCEPT ![id] = v]
      /\ v \in View /\ v.pointer = p /\ v.document = p /\ v.schema = None
      /\ v.list = None /\ v.name = None /\ Plain(v)
  BY <1>3 DEF Unparsed, View, Plain
<1>5. text \in Text /\ text.value \in Object /\ d \in Document /\ docs' = [docs EXCEPT ![p] = d]
  <2>1. text \in Text
    BY ViewsAssumption
  <2>2. QED
    BY <1>3, <2>1 DEF Document, Text, Bits
<1>6. d.slots = text.value /\ d.bit # "canonical" /\ d.slots \in Object /\ d.source = text
  BY <1>5 DEF None
<1>7. Faithful(v, d)
  BY <1>4, <1>6 DEF Faithful
<1>. HIDE DEF v, d
<1>8. /\ results'[id] = v /\ docs'[p] = d
      /\ \A other \in Ids : other # id => results'[other] = results[other]
      /\ \A q \in Pointers : q # p => docs'[q] = docs[q]
      /\ results' \in [Ids -> View] /\ docs' \in [Pointers -> Document]
      /\ dirty' = dirty /\ writes' = writes
  BY <1>3, <1>4, <1>5 DEF IInv, Typed, Parse
<1>9. \A other \in Ids : Active(other)' <=> (Active(other) \/ other = id)
  BY <1>2, <1>4, <1>8, ViewsAssumption DEF Active
<1>10. \A other \in Ids : Active(other) =>
         /\ other # id
         /\ results[other].pointer \in allocated /\ results[other].pointer \in Pointers
         /\ results[other].document = results[other].pointer
         /\ results[other].pointer # p
         /\ Doc(other)' = Doc(other)
  BY <1>2, <1>3, <1>8, ViewFacts DEF Doc
<1>11. IInv'
  <2>1. Typed'
    <3>1. \A other \in Ids : results'[other].document \in {None, results'[other].pointer}
      BY <1>4, <1>8, ViewFacts
    <3>2. \A other \in Ids : results'[other].schema # None => results'[other].serialized \in Text
      BY <1>4, <1>8 DEF IInv, Typed
    <3>3. allocated' \subseteq Pointers /\ dirty' \subseteq Pointers
      BY <1>3, <1>8 DEF IInv, Typed
    <3>4. writes' \in 0..MaxWrites
      BY <1>8 DEF IInv, Typed
    <3>5. QED
      BY <1>8, <3>1, <3>2, <3>3, <3>4 DEF Typed
  <2>2. NoStaleView'
    <3>1. ASSUME NEW one \in Ids, Active(one)', NEW other \in Ids \ {one}
          PROVE  results'[one].document \in allocated' /\ results'[other].document # results'[one].document
      <4>0. \A i \in Ids : i # id => results'[i].document = results[i].document
        BY <1>8
      <4>1. \A i \in Ids : i # id => results[i].document # p
        BY <1>3, <1>10, ViewsAssumption DEF Active
      <4>2. CASE one = id
        BY <1>3, <1>4, <1>8, <4>0, <4>1, <4>2
      <4>3. CASE one # id /\ other = id
        BY <1>3, <1>4, <1>8, <1>9, <1>10, <3>1, <4>0, <4>1, <4>3
      <4>4. CASE one # id /\ other # id
        BY <1>3, <1>9, <3>1, <4>0, <4>4 DEF IInv, NoStaleView
      <4>5. QED
        BY <4>2, <4>3, <4>4
    <3>2. ASSUME NEW one \in Ids, Active(one)' PROVE results'[one].document \in allocated'
      BY <1>3, <1>4, <1>8, <1>9, <1>10, <3>2
    <3>3. QED
      BY <3>1, <3>2 DEF NoStaleView
  <2>3. DirtyExactly'
    <3>1. p \notin dirty'
      BY <1>3, <1>8 DEF IInv, DirtyExactly
    <3>2. ASSUME NEW other \in Ids, Active(other)'
          PROVE  results'[other].document \in dirty' <=>
                   (results'[other].list # None \/ results'[other].name # None)
      BY <1>4, <1>8, <1>9, <3>1, <3>2 DEF IInv, DirtyExactly
    <3>3. QED
      BY <1>3, <1>8, <3>2 DEF IInv, DirtyExactly
  <2>4. AllFaithful'
    <3>1. ASSUME NEW other \in Ids, Active(other)'
          PROVE  Faithful(results'[other], Doc(other)')
      <4>1. CASE other = id
        BY <1>4, <1>7, <1>8, <4>1 DEF Doc
      <4>2. CASE other # id
        BY <1>8, <1>9, <1>10, <3>1, <4>2 DEF IInv, AllFaithful
      <4>3. QED
        BY <4>1, <4>2
    <3>2. QED
      BY <3>1 DEF AllFaithful, Faithful, Plain, Spelled, Doc
  <2>5. QED
    BY <1>1, <2>1, <2>2, <2>3, <2>4 DEF IInv
<1>12. Objects!Parse(id)
  <2>1. /\ DOMAIN Current = {i \in Ids : Active(i)}
        /\ DOMAIN Current' = {i \in Ids : Active(i)'}
        /\ \A i \in DOMAIN Current : Current[i] = SeenIn(results[i], Doc(i))
        /\ \A i \in DOMAIN Current' : Current'[i] = SeenIn(results'[i], Doc(i)')
    BY DEF Current, Seen, Slots, SeenIn, Doc
  <2>2. id \notin DOMAIN Current /\ DOMAIN Current' = DOMAIN Current \cup {id}
    BY <1>2, <1>9, <2>1
  <2>3. Current'[id] = text.value
    <3>1. Current'[id] = SeenIn(v, d)
      BY <1>4, <1>8, <2>1, <2>2 DEF Doc
    <3>2. SeenIn(v, d) = d.slots
      BY <1>4, <1>6 DEF SeenIn, Object, Parts, RootParts, NestedParts
    <3>3. QED
      BY <1>6, <3>1, <3>2
  <2>4. \A other \in DOMAIN Current : Current'[other] = Current[other]
    BY <1>8, <1>10, <2>1, <2>2
  <2>5. answer'.call = "parse" /\ answer'.object = text.value
    BY DEF Parse
  <2>6. QED
    BY <2>2, <2>3, <2>4, <2>5 DEF Objects!Parse, Objects!Unchanged
<1>13. QED
  BY <1>11, <1>12 DEF Objects!Next

(* The array a view returns without being asked to remember it is the one it *)
(* then overlays: nothing the getters return changes.                       *)
LEMMA ExposeList ==
  ASSUME IInv, NEW id \in Ids, Active(id), results[id].list = None,
         WriteOverlay(id, [Invalidated(id) EXCEPT !.list = Seen(id).list]),
         allocated' = allocated, writes' = writes, ResidentInput'
  PROVE  IInv' /\ Current' = Current
<1> DEFINE o == results[id]
           p == o.pointer
           v == [o EXCEPT !.serialized = NoText, !.schema = None, !.list = Doc(id).slots.list]
           d == [docs[p] EXCEPT !.bit = None]
<1>1. /\ o \in View /\ p \in Pointers /\ o.document = p /\ p \in allocated
      /\ docs[p] \in Document /\ Doc(id) = docs[p] /\ Faithful(o, docs[p])
      /\ docs[p].slots \in Object
  BY ViewFacts DEF Doc, Faithful
<1>2. /\ Seen(id) = SeenIn(o, docs[p])
      /\ SeenIn(o, docs[p]).list = docs[p].slots.list
      /\ docs[p].slots.list \in Values
  BY <1>1, SeenFacts DEF SeenIn, Object, Parts, RootParts, NestedParts
<1>3. v \in View /\ v.pointer = p /\ v.document = p /\ v.schema = None /\ v.list # None
      /\ v.name = o.name /\ v.list = docs[p].slots.list
  BY <1>1, <1>2, ViewsAssumption DEF View
<1>4. d \in Document /\ d.slots = docs[p].slots /\ d.bit = None
  BY <1>1 DEF Document, Bits
<1>5. /\ results' = [results EXCEPT ![id] = v]
      /\ docs' = [docs EXCEPT ![p] = d]
      /\ dirty' = dirty \cup {p}
  BY <1>1, <1>2 DEF WriteOverlay, ClearBits, Invalidated
<1>. HIDE DEF v, d
<1>6. Faithful(v, d) /\ ~Plain(v)
  BY <1>1, <1>3, <1>4 DEF Faithful, Plain, None
<1>7. dirty' \subseteq allocated /\ writes' \in 0..MaxWrites
  BY <1>1, <1>5 DEF IInv, DirtyExactly, Typed
<1>8. /\ IInv'
      /\ id \in DOMAIN Current
      /\ DOMAIN Current' = DOMAIN Current
      /\ Current'[id] = SeenIn(v, d)
      /\ \A other \in DOMAIN Current \ {id} : Current'[other] = Current[other]
  BY <1>1, <1>3, <1>4, <1>5, <1>6, <1>7, Update
<1>9. SeenIn(v, d) = SeenIn(o, docs[p])
  BY <1>1, <1>3, <1>4 DEF SeenIn, Object, Parts, RootParts, NestedParts
<1>10. Current[id] = SeenIn(o, docs[p])
  BY <1>1, <1>8, SeenFacts
<1>11. Current' = Current
  BY <1>8, <1>9, <1>10 DEF Current
<1>12. QED
  BY <1>8, <1>11

(* A getter returns the object's part; that of the array also overlays it.   *)
LEMMA ReadStep ==
  ASSUME IInv, NEW id \in Ids, NEW part \in Parts, Read(id, part)
  PROVE  IInv' /\ Objects!Next
<1>1. CASE ~Answers(id, part) /\ Released
  BY <1>1, ReleasedStep
<1>2. CASE /\ Answers(id, part)
           /\ answer' = [call |-> "read", value |-> Seen(id)[part]]
           /\ UNCHANGED <<memory, dirty, results, input, writes>>
  <2>1. IInv' /\ Current' = Current
    BY <1>2, InputKept, Same DEF memory, IInv, Typed
  <2>2. Active(id)
    BY <1>2 DEF Answers, NestedActive
  <2>3. id \in DOMAIN Current /\ Current[id] = Seen(id)
    BY <2>2, SeenFacts
  <2>4. Objects!Read(id, part)
    BY <1>2, <2>1, <2>3 DEF Objects!Read
  <2>5. QED
    BY <2>1, <2>3, <2>4 DEF Objects!Next
<1>3. CASE /\ Active(id)
           /\ part = "list" /\ results[id].list = None
           /\ WriteOverlay(id, [Invalidated(id) EXCEPT !.list = Seen(id).list])
           /\ answer' = [call |-> "read", value |-> Seen(id).list]
           /\ UNCHANGED <<allocated, input, writes>>
  <2>1. IInv' /\ Current' = Current
    BY <1>3, InputKept, ExposeList
  <2>2. id \in DOMAIN Current /\ Current[id] = Seen(id)
    BY <1>3, SeenFacts
  <2>3. Objects!Read(id, part)
    BY <1>3, <2>1, <2>2 DEF Objects!Read
  <2>4. QED
    BY <2>1, <2>2, <2>3 DEF Objects!Next
<1>4. QED
  BY <1>1, <1>2, <1>3 DEF Read

(* Writing into view id changes that part of that object only.               *)
LEMMA WrittenStep ==
  ASSUME IInv, NEW id \in Ids, Active(id), NEW part \in Parts, NEW value \in Values,
         NEW v \in View, NEW d \in Document,
         v.pointer = results[id].pointer, v.document = results[id].document,
         Faithful(v, d),
         results' = [results EXCEPT ![id] = v],
         docs' = [docs EXCEPT ![results[id].pointer] = d],
         allocated' = allocated,
         dirty' \subseteq allocated,
         results[id].pointer \in dirty' <=> ~Plain(v),
         \A p \in allocated : p # results[id].pointer => (p \in dirty' <=> p \in dirty),
         writes < MaxWrites, writes' = writes + 1,
         UNCHANGED input,
         answer' = [call |-> "write", value |-> value],
         SeenIn(v, d) = [SeenIn(results[id], Doc(id)) EXCEPT ![part] = value]
  PROVE  IInv' /\ Objects!Next
<1>1. ResidentInput'
  BY InputKept
<1>2. writes' \in 0..MaxWrites
  BY ViewsAssumption DEF IInv, Typed
<1>3. /\ IInv'
      /\ id \in DOMAIN Current
      /\ DOMAIN Current' = DOMAIN Current
      /\ Current'[id] = SeenIn(v, d)
      /\ \A other \in DOMAIN Current \ {id} : Current'[other] = Current[other]
  BY <1>1, <1>2, Update
<1>4. Current[id] = SeenIn(results[id], Doc(id))
  BY <1>3, SeenFacts
<1>5. answer'.call = "write" /\ answer'.value = value
  OBVIOUS
<1>6. Objects!Write(id, part)
  BY <1>3, <1>4, <1>5 DEF Objects!Write, Objects!Others, Objects!Unchanged
<1>7. QED
  BY <1>3, <1>6 DEF Objects!Next

(* applyViewFieldWrite, in place and through an overlay.                     *)
LEMMA WriteStep ==
  ASSUME IInv, NEW id \in Ids, NEW part \in Parts, NEW value \in Values, Write(id, part, value)
  PROVE  IInv' /\ Objects!Next
<1> DEFINE o == results[id]
           p == o.pointer
<1>1. ASSUME Active(id)
      PROVE  /\ o \in View /\ p \in Pointers /\ o.document = p /\ p \in allocated
             /\ docs[p] \in Document /\ Doc(id) = docs[p] /\ Faithful(o, docs[p])
             /\ docs[p].slots \in Object
             /\ p \in dirty <=> ~Plain(o)
             /\ Answers(id, part)
  BY <1>1, ViewFacts DEF Doc, Faithful, Answers, NestedActive, View
<1>2. CASE ~Active(id) /\ Released
  BY <1>2, ReleasedStep
<1>3. CASE /\ Active(id) /\ writes < MaxWrites
           /\ part \in {"num", "nestedNum"}
           /\ IF Answers(id, part)
              THEN docs' = [docs EXCEPT ![results[id].document].slots[part] = value,
                                        ![results[id].document].bit = None]
              ELSE ClearBits(id)
           /\ results' = [results EXCEPT ![id] = Invalidated(id)]
           /\ answer' = [call |-> "write", value |-> value]
           /\ writes' = writes + 1
           /\ UNCHANGED <<allocated, dirty, input>>
  <2> DEFINE slots == [docs[p].slots EXCEPT ![part] = value]
             d == [docs[p] EXCEPT !.slots = slots, !.bit = None]
             v == [o EXCEPT !.serialized = NoText, !.schema = None]
  <2>1. /\ v \in View /\ v.pointer = p /\ v.document = o.document /\ v.schema = None
        /\ v.list = o.list /\ v.name = o.name /\ (Plain(v) <=> Plain(o))
    BY <1>1, <1>3 DEF View, Plain
  <2>2. slots \in Object
    BY <1>1, <1>3 DEF Object
  <2>3. d \in Document /\ d.slots = slots /\ d.bit = None
    BY <1>1, <1>3, <2>2 DEF Document, Bits
  <2>4. Faithful(v, d)
    BY <2>1, <2>2, <2>3 DEF Faithful, None
  <2>5. results' = [results EXCEPT ![id] = v]
    BY <1>3 DEF Invalidated
  <2>6. docs' = [docs EXCEPT ![p] = d]
    BY <1>1, <1>3 DEF IInv, Typed, Document
  <2>7. SeenIn(v, d) = [SeenIn(o, Doc(id)) EXCEPT ![part] = value]
    <3>1. Getter(v, d, part) = value
      BY <1>1, <1>3, <2>3 DEF Getter, Object
    <3>2. \A other \in Parts \ {part} : Getter(v, d, other) = Getter(o, Doc(id), other)
      BY <1>1, <1>3, <2>1, <2>3 DEF Getter, Object
    <3>3. d.slots \in Object /\ Doc(id).slots \in Object
      BY <1>1, <1>3, <2>2, <2>3
    <3>. HIDE DEF v, d
    <3>4. QED
      BY <3>1, <3>2, <3>3, SeenWritten
  <2>8. dirty' \subseteq allocated
    BY <1>3 DEF IInv, DirtyExactly
  <2>. HIDE DEF v, d
  <2>9. QED
    BY <1>1, <1>3, <2>1, <2>3, <2>4, <2>5, <2>6, <2>7, <2>8, WrittenStep
<1>4. CASE /\ Active(id) /\ writes < MaxWrites
           /\ part = "list"
           /\ WriteOverlay(id, [Invalidated(id) EXCEPT !.list = value])
           /\ answer' = [call |-> "write", value |-> value]
           /\ writes' = writes + 1
           /\ UNCHANGED <<allocated, input>>
  <2> DEFINE d == [docs[p] EXCEPT !.bit = None]
             v == [o EXCEPT !.serialized = NoText, !.schema = None, !.list = value]
  <2>1. /\ v \in View /\ v.pointer = p /\ v.document = o.document /\ v.schema = None
        /\ v.list = value /\ v.list # None /\ v.name = o.name /\ ~Plain(v)
    BY <1>1, <1>4, ViewsAssumption DEF View, Plain
  <2>2. d \in Document /\ d.slots = docs[p].slots /\ d.bit = None
    BY <1>1, <1>4 DEF Document, Bits
  <2>3. Faithful(v, d)
    BY <1>1, <1>4, <2>1, <2>2 DEF Faithful, None
  <2>4. /\ results' = [results EXCEPT ![id] = v]
        /\ docs' = [docs EXCEPT ![p] = d]
        /\ dirty' = dirty \cup {p}
    BY <1>1, <1>4 DEF WriteOverlay, ClearBits, Invalidated
  <2>5. SeenIn(v, d) = [SeenIn(o, Doc(id)) EXCEPT ![part] = value]
    <3>1. Getter(v, d, part) = value
      BY <1>4, <2>1 DEF Getter
    <3>2. \A other \in Parts \ {part} : Getter(v, d, other) = Getter(o, Doc(id), other)
      BY <1>1, <1>4, <2>1, <2>2 DEF Getter
    <3>3. d.slots \in Object /\ Doc(id).slots \in Object
      BY <1>1, <1>4, <2>2
    <3>. HIDE DEF v, d
    <3>4. QED
      BY <3>1, <3>2, <3>3, SeenWritten
  <2>6. dirty' \subseteq allocated
    BY <1>1, <1>4, <2>4 DEF IInv, DirtyExactly
  <2>. HIDE DEF v, d
  <2>7. QED
    BY <1>1, <1>4, <2>1, <2>2, <2>3, <2>4, <2>5, <2>6, WrittenStep
<1>5. CASE /\ Active(id) /\ writes < MaxWrites
           /\ part = "nestedName"
           /\ WriteOverlay(id, [Invalidated(id) EXCEPT !.name = value])
           /\ answer' = [call |-> "write", value |-> value]
           /\ writes' = writes + 1
           /\ UNCHANGED <<allocated, input>>
  <2> DEFINE d == [docs[p] EXCEPT !.bit = None]
             v == [o EXCEPT !.serialized = NoText, !.schema = None, !.name = value]
  <2>1. /\ v \in View /\ v.pointer = p /\ v.document = o.document /\ v.schema = None
        /\ v.list = o.list /\ v.name # None /\ v.name = value /\ ~Plain(v)
    BY <1>1, <1>5, ViewsAssumption DEF View, Plain
  <2>2. d \in Document /\ d.slots = docs[p].slots /\ d.bit = None
    BY <1>1, <1>5 DEF Document, Bits
  <2>3. Faithful(v, d)
    BY <1>1, <1>5, <2>1, <2>2 DEF Faithful, None
  <2>4. /\ results' = [results EXCEPT ![id] = v]
        /\ docs' = [docs EXCEPT ![p] = d]
        /\ dirty' = dirty \cup {p}
    BY <1>1, <1>5 DEF WriteOverlay, ClearBits, Invalidated
  <2>5. SeenIn(v, d) = [SeenIn(o, Doc(id)) EXCEPT ![part] = value]
    <3>1. Getter(v, d, part) = value
      BY <1>5, <2>1 DEF Getter
    <3>2. \A other \in Parts \ {part} : Getter(v, d, other) = Getter(o, Doc(id), other)
      BY <1>1, <1>5, <2>1, <2>2 DEF Getter
    <3>3. d.slots \in Object /\ Doc(id).slots \in Object
      BY <1>1, <1>5, <2>2
    <3>. HIDE DEF v, d
    <3>4. QED
      BY <3>1, <3>2, <3>3, SeenWritten
  <2>6. dirty' \subseteq allocated
    BY <1>1, <1>5, <2>4 DEF IInv, DirtyExactly
  <2>. HIDE DEF v, d
  <2>7. QED
    BY <1>1, <1>5, <2>1, <2>2, <2>3, <2>4, <2>5, <2>6, WrittenStep
<1>6. QED
  BY <1>2, <1>3, <1>4, <1>5 DEF Write

(* A change to the array the application holds is a change to the overlay.   *)
LEMMA MutateListStep ==
  ASSUME IInv, NEW id \in Ids, NEW value \in Values, MutateList(id, value)
  PROVE  IInv' /\ Objects!Next
<1> DEFINE o == results[id]
           p == o.pointer
           v == [o EXCEPT !.list = value]
<1>1. /\ Active(id) /\ o \in View /\ p \in Pointers /\ o.document = p /\ p \in allocated
      /\ Doc(id) = docs[p] /\ Doc(id) \in Document /\ Faithful(o, Doc(id))
      /\ Doc(id).slots \in Object /\ ~Plain(o)
      /\ p \in dirty
  BY ViewFacts DEF Doc, Faithful, MutateList, Plain
<1>2. /\ v \in View /\ v.pointer = p /\ v.document = o.document /\ v.schema = o.schema
      /\ v.list = value /\ v.name = o.name /\ v.list # None /\ ~Plain(v)
  BY <1>1, ViewsAssumption DEF View, Plain
<1>3. Faithful(v, Doc(id))
  BY <1>1, <1>2 DEF Faithful
<1>4. docs' = [docs EXCEPT ![p] = Doc(id)] /\ results' = [results EXCEPT ![id] = v]
  BY <1>1 DEF MutateList, memory, IInv, Typed
<1>5. SeenIn(v, Doc(id)) = [SeenIn(o, Doc(id)) EXCEPT !["list"] = value]
  BY <1>1, <1>2 DEF SeenIn, Object, Parts, RootParts, NestedParts
<1>6. /\ dirty' = dirty /\ dirty' \subseteq allocated /\ allocated' = allocated /\ UNCHANGED input
      /\ writes < MaxWrites /\ writes' = writes + 1
      /\ answer' = [call |-> "write", value |-> value]
  BY DEF MutateList, memory, IInv, DirtyExactly
<1>7. "list" \in Parts
  BY DEF Parts, RootParts
<1>. HIDE DEF v
<1>8. QED
  BY <1>1, <1>2, <1>3, <1>4, <1>5, <1>6, <1>7, WrittenStep

(* Printing a view whose document holds all it shows: the source is copied   *)
(* or the slots are printed, and a source equal to its print is marked.      *)
LEMMA PrintStep ==
  ASSUME IInv, NEW id \in Ids, Active(id), results[id].pointer \notin dirty,
         UseScratch,
         docs' = [docs EXCEPT ![results[id].document].bit = Promoted(Doc(id), "root")],
         results' = [results EXCEPT ![id].serialized = Serialized(Doc(id), "root"),
                                    ![id].schema = "root"],
         answer' = [call |-> "stringify", text |-> Serialized(Doc(id), "root")],
         UNCHANGED <<allocated, dirty, writes>>
  PROVE  IInv' /\ Objects!Next
<1> DEFINE o == results[id]
           p == o.pointer
           text == Serialized(Doc(id), "root")
           v == [o EXCEPT !.serialized = text, !.schema = "root"]
           d == [docs[p] EXCEPT !.bit = Promoted(Doc(id), "root")]
<1>1. /\ o \in View /\ p \in Pointers /\ o.document = p /\ p \in allocated
      /\ docs[p] \in Document /\ Doc(id) = docs[p] /\ Faithful(o, docs[p])
      /\ docs[p].slots \in Object
      /\ Plain(o)
  BY ViewFacts DEF Doc, Faithful
<1>2. text = Spelled(docs[p].slots) /\ text \in Text
  <2>1. text = Spelled(docs[p].slots)
    BY <1>1 DEF Serialized, RootRecord, Faithful
  <2>2. QED
    BY <1>1, <2>1 DEF Spelled, Text, Styles
<1>3. /\ Promoted(Doc(id), "root") \in Bits
      /\ Promoted(Doc(id), "root") = "canonical" => docs[p].source = text
  <2>1. CASE Doc(id).bit # "candidate"
    BY <1>1, <1>2, <2>1 DEF Promoted, Faithful, Document
  <2>2. CASE Doc(id).bit = "candidate"
    BY <1>1, <2>2 DEF Promoted, Bits, None
  <2>3. QED
    BY <2>1, <2>2
<1>. HIDE DEF text
<1>4. /\ v \in View /\ v.pointer = p /\ v.document = p /\ v.serialized = text
      /\ v.list = o.list /\ v.name = o.name /\ Plain(v)
  BY <1>1, <1>2 DEF View, Plain
<1>5. /\ d \in Document /\ d.slots = docs[p].slots /\ d.source = docs[p].source
      /\ d.bit = Promoted(Doc(id), "root")
  BY <1>1, <1>3 DEF Document
<1>6. Faithful(v, d)
  BY <1>1, <1>2, <1>3, <1>4, <1>5 DEF Faithful
<1>7. docs' = [docs EXCEPT ![p] = d] /\ results' = [results EXCEPT ![id] = v]
  BY <1>1 DEF text
<1>8. dirty' \subseteq allocated /\ writes' \in 0..MaxWrites
  BY DEF IInv, DirtyExactly, Typed
<1>. HIDE DEF v, d
<1>9. /\ IInv'
      /\ id \in DOMAIN Current
      /\ DOMAIN Current' = DOMAIN Current
      /\ Current'[id] = SeenIn(v, d)
      /\ \A other \in DOMAIN Current \ {id} : Current'[other] = Current[other]
  BY <1>1, <1>4, <1>5, <1>6, <1>7, <1>8, UseScratchFacts, Update
<1>10. Current[id] = SeenIn(o, docs[p]) /\ SeenIn(v, d) = SeenIn(o, docs[p])
  BY <1>1, <1>4, <1>5, <1>9, SeenFacts DEF SeenIn
<1>11. Current' = Current
  BY <1>9, <1>10 DEF Current
<1>12. Current[id] = [part \in Parts |-> Current[id][part]] /\ Current[id] = docs[p].slots
  BY <1>1, <1>10, SeenPlain
<1>13. Objects!Stringify(id, Parts)
  <2>1. answer' = [call |-> "stringify", text |-> Spelled(docs[p].slots)]
    BY <1>2 DEF text
  <2>2. QED
    BY <1>11, <1>12, <2>1 DEF Objects!Stringify, Spelled
<1>14. QED
  BY <1>9, <1>13 DEF Objects!Next

(* Printing an object built from what the getters return.                    *)
LEMMA LowerStep ==
  ASSUME IInv, NEW id \in Ids, Active(id), IInv', Current' = Current,
         answer' = [call |-> "stringify", text |-> Lowered(id, "root")]
  PROVE  Objects!Next
<1>1. id \in DOMAIN Current /\ Current[id] = Seen(id)
  BY SeenFacts
<1>2. Objects!Stringify(id, Parts)
  BY <1>1 DEF Objects!Stringify, Lowered, Spelled, Restricted, PartsOf
<1>3. QED
  BY <1>1, <1>2 DEF Objects!Next

(* stringify of a result of parse.                                           *)
LEMMA StringifyStep ==
  ASSUME IInv, NEW id \in Ids, Stringify(id, "root")
  PROVE  IInv' /\ Objects!Next
<1> DEFINE document == results[id].document
           lower == Overlaid(id, "root") \/ document \in dirty
           cached == results[id].schema = "root"
<1>1. Active(id) => NestedActive(id)
  BY ViewFacts DEF NestedActive, View
<1>2. ASSUME Active(id)
      PROVE  /\ results[id].document = results[id].pointer
             /\ docs[document] = Doc(id)
  BY <1>2, ViewFacts DEF Doc
<1>3. CASE ~Active(id) /\ Released
  BY <1>3, ReleasedStep
<1>4. CASE /\ Active(id) /\ lower
           /\ UseScratch
           /\ answer' = [call |-> "stringify", text |-> Lowered(id, "root")]
           /\ \/ /\ results[id].list = None
                 /\ WriteOverlay(id, [Invalidated(id) EXCEPT !.list = Seen(id).list])
              \/ /\ results[id].list # None
                 /\ UNCHANGED <<docs, dirty, results>>
           /\ UNCHANGED <<allocated, writes>>
  <2>1. ResidentInput'
    BY <1>4, UseScratchFacts
  <2>2. CASE /\ results[id].list = None
             /\ WriteOverlay(id, [Invalidated(id) EXCEPT !.list = Seen(id).list])
    <3>1. IInv' /\ Current' = Current
      BY <1>4, <2>1, <2>2, ExposeList
    <3>2. QED
      BY <1>4, <3>1, LowerStep
  <2>3. CASE UNCHANGED <<docs, dirty, results>>
    <3>1. writes' \in 0..MaxWrites
      BY <1>4 DEF IInv, Typed
    <3>2. IInv' /\ Current' = Current
      BY <1>4, <2>1, <2>3, <3>1, Same
    <3>3. QED
      BY <1>4, <3>2, LowerStep
  <2>4. QED
    BY <1>4, <2>2, <2>3
<1>5. CASE /\ Active(id) /\ ~lower /\ cached
           /\ answer' = [call |-> "stringify", text |-> results[id].serialized]
           /\ UNCHANGED <<memory, dirty, results, input, writes>>
  <2>1. IInv' /\ Current' = Current
    BY <1>5, InputKept, Same DEF memory, IInv, Typed
  <2>2. /\ Faithful(results[id], Doc(id)) /\ Plain(results[id])
        /\ results[id].serialized = Spelled(Doc(id).slots) /\ Doc(id).slots \in Object
    BY <1>5, ViewFacts DEF Faithful, None
  <2>3. id \in DOMAIN Current /\ Current[id] = SeenIn(results[id], Doc(id))
    BY <1>5, SeenFacts
  <2>4. Current[id] = Doc(id).slots /\ Current[id] = [part \in Parts |-> Current[id][part]]
    BY <2>2, <2>3, SeenPlain
  <2>5. Objects!Stringify(id, Parts)
    BY <1>5, <2>1, <2>2, <2>3, <2>4 DEF Objects!Stringify, Spelled
  <2>6. QED
    BY <2>1, <2>3, <2>5 DEF Objects!Next
<1>6. CASE /\ Active(id) /\ ~lower /\ ~cached
           /\ UseScratch
           /\ docs' = [docs EXCEPT ![document].bit = Promoted(docs[document], "root")]
           /\ results' = [results EXCEPT ![id].serialized = Serialized(docs[document], "root"),
                                         ![id].schema = "root"]
           /\ answer' = [call |-> "stringify", text |-> Serialized(docs[document], "root")]
           /\ UNCHANGED <<allocated, dirty, writes>>
  BY <1>2, <1>6, PrintStep
<1>7. QED
  BY <1>1, <1>3, <1>4, <1>5, <1>6 DEF Stringify

(* dispose of a result of parse: its document goes, no other object changes. *)
LEMMA DisposeStep ==
  ASSUME IInv, NEW id \in Ids, Dispose(id)
  PROVE  IInv' /\ Objects!Next
<1> DEFINE o == results[id]
           p == o.pointer
           v == [o EXCEPT !.document = None]
<1>1. CASE ~Active(id)
  <2>1. IInv' /\ Current' = Current
    BY <1>1, InputKept, Same DEF Dispose, memory, IInv, Typed
  <2>2. Objects!Other
    BY <1>1, <2>1 DEF Dispose, Objects!Other
  <2>3. QED
    BY <2>1, <2>2 DEF Objects!Next
<1>2. CASE Active(id)
  <2>1. o \in View /\ p \in Pointers /\ o.document = p /\ p \in allocated
    BY <1>2, ViewFacts
  <2>2. /\ allocated' = allocated \ {p} /\ dirty' = dirty \ {p}
        /\ results' = [results EXCEPT ![id] = v]
        /\ answer' = [call |-> "dispose"]
        /\ UNCHANGED <<docs, input, writes>>
    BY <1>2, <2>1 DEF Dispose, ReleaseDocument
  <2>3. v \in View /\ v.document = None /\ v.schema = o.schema /\ v.serialized = o.serialized
    BY <2>1 DEF View
  <2>. HIDE DEF v
  <2>4. /\ results'[id] = v /\ results' \in [Ids -> View]
        /\ \A other \in Ids : other # id => results'[other] = results[other]
    BY <2>2, <2>3 DEF IInv, Typed
  <2>5. \A other \in Ids : Active(other)' <=> (Active(other) /\ other # id)
    BY <2>3, <2>4 DEF Active
  <2>6. \A other \in Ids : other # id => results[other].document # p
    BY <1>2, <2>1 DEF IInv, NoStaleView
  <2>7. IInv'
    <3>1. Typed'
      BY <2>2, <2>3, <2>4 DEF IInv, Typed
    <3>2. NoStaleView'
      <4>1. ASSUME NEW one \in Ids, Active(one)'
            PROVE  /\ results'[one].document \in allocated'
                   /\ \A other \in Ids \ {one} : results'[other].document # results'[one].document
        <5>1. one # id /\ results'[one] = results[one] /\ Active(one) /\ results[one].document # None
          BY <2>4, <2>5, <4>1 DEF Active
        <5>2. results[one].document \in allocated /\ results[one].document # p
          BY <2>6, <5>1 DEF IInv, NoStaleView
        <5>3. ASSUME NEW other \in Ids \ {one}
              PROVE  results'[other].document # results'[one].document
          BY <2>3, <2>4, <5>1, <5>3 DEF IInv, NoStaleView
        <5>4. QED
          BY <2>2, <5>1, <5>2, <5>3
      <4>2. QED
        BY <4>1 DEF NoStaleView
    <3>3. DirtyExactly'
      <4>1. ASSUME NEW one \in Ids, Active(one)'
            PROVE  results'[one].document \in dirty' <=>
                     (results'[one].list # None \/ results'[one].name # None)
        <5>1. one # id /\ results'[one] = results[one] /\ Active(one)
          BY <2>4, <2>5, <4>1
        <5>2. QED
          BY <2>2, <2>6, <5>1 DEF IInv, DirtyExactly
      <4>2. QED
        BY <2>2, <4>1 DEF IInv, DirtyExactly
    <3>4. AllFaithful'
      <4>1. ASSUME NEW one \in Ids, Active(one)'
            PROVE  Faithful(results'[one], Doc(one)')
        BY <2>2, <2>4, <2>5, <4>1 DEF IInv, AllFaithful, Doc
      <4>2. QED
        BY <4>1 DEF AllFaithful, Faithful, Plain, Spelled, Doc
    <3>5. ResidentInput'
      BY <2>2, InputKept
    <3>6. QED
      BY <3>1, <3>2, <3>3, <3>4, <3>5 DEF IInv
  <2>8. Objects!Dispose(id) /\ id \in DOMAIN Current
    <3>1. /\ DOMAIN Current = {i \in Ids : Active(i)}
          /\ DOMAIN Current' = {i \in Ids : Active(i)'}
          /\ \A i \in DOMAIN Current : Current[i] = SeenIn(results[i], Doc(i))
          /\ \A i \in DOMAIN Current' : Current'[i] = SeenIn(results'[i], Doc(i)')
      BY DEF Current, Seen, Slots, SeenIn, Doc
    <3>2. id \in DOMAIN Current /\ DOMAIN Current' = DOMAIN Current \ {id}
      BY <1>2, <2>5, <3>1
    <3>3. \A i \in DOMAIN Current' : Current'[i] = Current[i]
      BY <2>2, <2>4, <2>5, <3>1, <3>2 DEF Doc
    <3>4. QED
      BY <2>2, <3>2, <3>3 DEF Objects!Dispose, Objects!Others, Objects!Unchanged
  <2>9. QED
    BY <2>7, <2>8 DEF Objects!Next
<1>3. QED
  BY <1>1, <1>2

-----------------------------------------------------------------------------
(* Nothing is parsed in the beginning.                                       *)
LEMMA InitFacts ==
  ASSUME Init
  PROVE  IInv /\ Objects!Init
<1>1. \A id \in Ids : results[id] = Unparsed /\ ~Active(id)
  BY DEF Init, Active, Unparsed
<1>2. Typed
  <2>1. docs \in [Pointers -> Document]
    BY DEF Init, Document, Bits
  <2>2. Unparsed \in View /\ Unparsed.document = None /\ Unparsed.schema = None
    BY DEF Unparsed, View
  <2>3. results \in [Ids -> View]
    BY <2>2 DEF Init
  <2>4. QED
    BY <1>1, <2>1, <2>2, <2>3, ViewsAssumption DEF Init, Typed
<1>3. NoStaleView /\ DirtyExactly /\ ResidentInput /\ AllFaithful
  BY <1>1 DEF Init, NoStaleView, DirtyExactly, ResidentInput, AllFaithful
<1>4. Current = << >>
  BY <1>1 DEF Current
<1>5. QED
  BY <1>2, <1>3, <1>4 DEF IInv, Init, Objects!Init

(* Every step preserves the invariant and is a step of module JsonObjects.   *)
LEMMA NextFacts ==
  ASSUME IInv, [Next]_vars
  PROVE  IInv' /\ [Objects!Next]_<<Current, answer>>
<1>1. ASSUME NEW text \in Sources, Echo(text) PROVE IInv' /\ Objects!Next
  BY <1>1, EchoStep
<1>2. ASSUME NEW id \in Ids, NEW text \in Sources, Parse(id, text) PROVE IInv' /\ Objects!Next
  BY <1>2, ParseStep
<1>3. ASSUME NEW id \in Ids, NEW part \in Parts, Read(id, part) PROVE IInv' /\ Objects!Next
  BY <1>3, ReadStep
<1>4. ASSUME NEW id \in Ids, NEW part \in Parts, NEW value \in Values, Write(id, part, value)
      PROVE  IInv' /\ Objects!Next
  BY <1>4, WriteStep
<1>5. ASSUME NEW id \in Ids, NEW value \in Values, MutateList(id, value)
      PROVE  IInv' /\ Objects!Next
  BY <1>5, MutateListStep
<1>6. ASSUME NEW id \in Ids, Stringify(id, "root") PROVE IInv' /\ Objects!Next
  BY <1>6, StringifyStep
<1>7. ASSUME NEW id \in Ids, Dispose(id) PROVE IInv' /\ Objects!Next
  BY <1>7, DisposeStep
<1>8. CASE UNCHANGED vars
  <2>1. IInv' /\ Current' = Current
    BY <1>8, InputKept, Same DEF vars, input, IInv, Typed
  <2>2. QED
    BY <1>8, <2>1 DEF vars
<1>9. QED
  BY <1>1, <1>2, <1>3, <1>4, <1>5, <1>6, <1>7, <1>8 DEF Next

(* The invariant holds of the views.                                         *)
THEOREM Invariance == Spec => []IInv
<1>1. Init => IInv
  BY InitFacts
<1>2. IInv /\ [Next]_vars => IInv'
  BY NextFacts
<1>3. QED
  BY <1>1, <1>2, PTL DEF Spec

-----------------------------------------------------------------------------
(* What follows from the invariant.                                          *)

(* Types of the views' shared state and of document memory.                  *)
THEOREM TypeCorrect == Spec => []TypeOK
<1>1. ASSUME IInv PROVE TypeOK
  <2>1. Typed
    BY <1>1 DEF IInv
  <2>2. ASSUME NEW id \in Ids
        PROVE  /\ results[id].pointer \in Pointers \cup {None}
               /\ results[id].document \in {None, results[id].pointer}
               /\ results[id].list \in Values \cup {None}
               /\ results[id].name \in Values \cup {None}
               /\ results[id].schema \in {None, "root", "nested"}
               /\ results[id].schema # None => results[id].serialized \in
                    [value : [PartsOf(results[id].schema) -> Values], style : Styles]
               /\ results[id].nestedDisposed \in BOOLEAN
    <3>1. results[id] \in View
      BY <2>1 DEF Typed
    <3>2. ASSUME results[id].schema # None
          PROVE  results[id].serialized \in
                   [value : [PartsOf(results[id].schema) -> Values], style : Styles]
      <4>1. results[id].schema = "root" /\ results[id].serialized \in Text
        BY <2>1, <3>1, <3>2 DEF Typed, View
      <4>2. QED
        BY <4>1 DEF Text, Object, PartsOf
    <3>3. QED
      BY <2>1, <3>1, <3>2 DEF Typed, View
  <2>3. QED
    BY <2>1, <2>2 DEF Typed, TypeOK, Document
<1>2. QED
  BY <1>1, Invariance, PTL

(* A view that answers reads a document that is allocated, and no other view *)
(* reads it: neither dispose nor a later parse leaves a stale view.          *)
THEOREM ViewsOwn == Spec => []NoStaleView
<1>1. IInv => NoStaleView
  BY DEF IInv
<1>2. QED
  BY <1>1, Invariance, PTL

(* No write, overlay or exposed array leaves a canonical mark on a document  *)
(* whose retained source is not what its views read.                        *)
THEOREM SourcesTrue == Spec => []CanonicalSource
<1>1. ASSUME IInv PROVE CanonicalSource
  <2>1. ASSUME NEW id \in Ids, Active(id), docs[results[id].document].bit = "canonical"
        PROVE  docs[results[id].document].source = Spelled(Seen(id))
    <3>1. results[id].document = results[id].pointer /\ Faithful(results[id], Doc(id))
      BY <1>1, <2>1, ViewFacts
    <3>2. /\ Doc(id).slots \in Object /\ Plain(results[id])
          /\ Doc(id).source = Spelled(Doc(id).slots)
      BY <2>1, <3>1 DEF Faithful, Doc, None
    <3>3. Seen(id) = Doc(id).slots
      BY <1>1, <3>2, SeenFacts, SeenPlain
    <3>4. QED
      BY <3>1, <3>2, <3>3 DEF Doc
  <2>2. QED
    BY <2>1 DEF CanonicalSource
<1>2. QED
  BY <1>1, Invariance, PTL

(* The dirty set is what stringify must lower, no more and no less.          *)
THEOREM DirtyKept == Spec => []DirtyExactly
<1>1. IInv => DirtyExactly
  BY DEF IInv
<1>2. QED
  BY <1>1, Invariance, PTL

(* A parse that skips copying its input finds that input in scratch.         *)
THEOREM InputResident == Spec => []ResidentInput
<1>1. IInv => ResidentInput
  BY DEF IInv
<1>2. QED
  BY <1>1, Invariance, PTL

(* The views implement independent objects: documents, overlays, cached      *)
(* strings, canonical sources, dirty documents and resident input are not    *)
(* observable.                                                              *)
THEOREM ImplementsObjects == Spec => ObjectSpec
<1>1. Init => Objects!Init
  BY InitFacts
<1>2. IInv /\ [Next]_vars => [Objects!Next]_<<Current, answer>>
  BY NextFacts
<1>3. QED
  BY <1>1, <1>2, Invariance, PTL DEF Spec, ObjectSpec, Objects!Spec

=============================================================================
