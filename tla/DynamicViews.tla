---------------------------- MODULE DynamicViews ----------------------------
(***************************************************************************)
(* The JavaScript side of unknown-shape values (src/raw/node-binding.js):  *)
(* views that read a document of the Wasm memory, the host copy the first  *)
(* mutation makes of it, the wrappers through which the copy is mutated,   *)
(* the serialized text kept beside them, and release and reuse.            *)
(*                                                                         *)
(* A value is a cell <<name, document>>: the value of the slot of that     *)
(* name in that document, a reference when the slot is a container.  The   *)
(* names of slots are the same in every document.                          *)
(***************************************************************************)
EXTENDS Integers, Sequences, FiniteSets, SequencesExt, Functions

CONSTANTS
  Pointers,    (* where a document may be                                 *)
  Slots,       (* the slots of a document                                 *)
  Arrays,      (* those that hold an array                                *)
  Objects,     (* those that hold an object                               *)
  Tree,        (* what a container holds: a sequence of [key, slot]       *)
  RootSlot,    (* the root slot, a container                              *)
  Keys,        (* the keys of objects                                     *)
  MaxParses, MaxWrites, MaxEntries  (* bounds of the exploration *)

Containers == Arrays \cup Objects

NoPointer == "released"

ASSUME TreeAssumption ==
  /\ Containers \subseteq Slots
  /\ RootSlot \in Containers
  /\ Tree \in [Containers -> Seq([key : STRING, slot : Slots])]
  /\ IsFiniteSet(Slots)
  /\ {"", "new"} \cap Slots = {}
  /\ NoPointer \notin Pointers

VARIABLES
  memory,   (* the document at each pointer, 0 when it is released        *)
  unbuilt,  (* the containers each document still keeps as source spans   *)
  states,   (* what the views of each retained document share             *)
  heap,     (* the host's arrays and objects                              *)
  held,     (* the wrapper of a host value that the application keeps     *)
  parses, writes

vars == <<memory, unbuilt, states, heap, held, parses, writes>>

Nothing == <<"", 0>>
NoText == << >>
Circular == <<"circular", 0>>
New == <<"new", 0>>

IsContainer(cell) == cell[1] \in Containers
Entry(key, cell) == [key |-> key, cell |-> cell]

(* The arrays and objects that hold the tree of document d. *)
HostCopy(d) ==
  [cell \in Containers \X {d} |->
     [i \in DOMAIN Tree[cell[1]] |->
        Entry(Tree[cell[1]][i].key, <<Tree[cell[1]][i].slot, d>>)]]

(* The host's arrays and objects, with those of document d. *)
WithCopy(d) ==
  [cell \in DOMAIN HostCopy(d) \cup DOMAIN heap |->
     IF cell \in DOMAIN HostCopy(d) THEN HostCopy(d)[cell] ELSE heap[cell]]

(* The slots of the subtree of a slot. *)
ClosedBelow(slots) ==
  \A slot \in slots \cap Containers :
    \A i \in DOMAIN Tree[slot] : Tree[slot][i].slot \in slots
Below(slot) ==
  {other \in Slots : \A slots \in SUBSET Slots :
                       slot \in slots /\ ClosedBelow(slots) => other \in slots}

(* The text of value c inside the containers `inside`, which are those the
   source is on the way through; `text` gives that of a container. *)
Part(text, c, inside) ==
  IF ~IsContainer(c) THEN <<c>> ELSE IF c \in inside THEN <<Circular>> ELSE text[<<c, inside>>]

(* The text of container c: its entries between brackets. *)
Bracketed(objects, text, c, inside) ==
  <<<<"open", 0>>>>
    \o FlattenSeq([i \in DOMAIN objects[c] |->
         <<<<objects[c][i].key, 0>>>> \o Part(text, objects[c][i].cell, inside \cup {c})])
    \o <<<<"close", 0>>>>

(* The text of a value, or one that mentions Circular when it has none;
   `open` is the stack of the containers it is inside. *)
Text(objects, cell, open) ==
  LET text[p \in (DOMAIN objects) \X (SUBSET DOMAIN objects)] ==
        Bracketed(objects, text, p[1], p[2])
  IN Part(text, cell, open)

HasText(text) == ~Contains(text, Circular)

-----------------------------------------------------------------------------
Hosted(s) == states[s].hostRoot # Nothing
Released(s) == states[s].document = NoPointer
InMemory(s) == ~Hosted(s) /\ ~Released(s)

(* dynamicTreeToJS of a view of a document in memory, or the host value. *)
ToJS(s, slot) ==
  IF ~Hosted(s) THEN <<slot, s>>
  ELSE IF slot \in DOMAIN states[s].hostValues THEN states[s].hostValues[slot]
  ELSE Nothing

Known(s) == IF Hosted(s) THEN heap ELSE HostCopy(s)

(* The entries that a view shows; a scalar shows itself. *)
Reading(s, slot) ==
  LET cell == ToJS(s, slot)
  IN IF Hosted(s) /\ ~IsContainer(cell) THEN <<Entry("", cell)>>
     ELSE IF Hosted(s) THEN heap[cell]
     ELSE IF Released(s) THEN <<Entry("released", Nothing)>>
     ELSE IF memory[states[s].document] # s \/ slot \in unbuilt[s]
          THEN <<Entry("lost", Nothing)>>
     ELSE IF IsContainer(cell) THEN HostCopy(s)[cell]
     ELSE <<Entry("", cell)>>

(* What stringify answers for a view. *)
Stringified(s, slot) ==
  IF Hosted(s)
  THEN IF states[s].serialized = NoText THEN Text(heap, states[s].hostRoot, {})
       ELSE states[s].serialized
  ELSE IF slot = RootSlot /\ states[s].serialized # NoText THEN states[s].serialized
  ELSE Text(HostCopy(s), <<slot, s>>, {})

-----------------------------------------------------------------------------
Init ==
  /\ memory = [p \in Pointers |-> 0]
  /\ unbuilt = << >>
  /\ states = << >>
  /\ heap = << >>
  /\ held = [cell |-> Nothing, of |-> 0]
  /\ parses = 0
  /\ writes = 0

Views(s) == states[s].views

(* parseDynamic that keeps the document: the containers below the root stay
   source spans until a view reaches them.  Every parse leaves an entry in
   `states`; that of a plain one never has views. *)
NewState(p) ==
  [document |-> p, views |-> {RootSlot}, hostRoot |-> Nothing, hostValues |-> << >>,
   serialized |-> NoText]

ParseRetained ==
  /\ parses < MaxParses
  /\ parses' = parses + 1
  /\ \E p \in {q \in Pointers : memory[q] = 0} :
       /\ memory' = [memory EXCEPT ![p] = parses']
       /\ states' = Append(states, NewState(p))
  /\ unbuilt' = Append(unbuilt, Containers \ {RootSlot})
  /\ UNCHANGED <<heap, held, writes>>

(* A plain parse builds the whole graph, copies it and releases it; its
   result replaces what a view or a wrapper stands for. *)
(* Mutant: the document of the reused view is forgotten, not released. *)
ReleaseNothing(m, p) == m
Release(m, p) == IF p = NoPointer THEN m ELSE [m EXCEPT ![p] = 0]

PlainState == [NewState(NoPointer) EXCEPT !.views = {}]

PlainParse ==
  /\ parses < MaxParses
  /\ \E p \in Pointers : memory[p] = 0
  /\ parses' = parses + 1
  /\ unbuilt' = Append(unbuilt, {})
  /\ heap' = WithCopy(parses')

(* parseDynamic into a view: every view of its document now stands for what
   the new host value has at its slot, which only the reused view has. *)
ParseIntoView(s, slot) ==
  /\ PlainParse
  /\ memory' = Release(memory, states[s].document)
  /\ states' = Append([states EXCEPT
                 ![s].document = NoPointer,
                 ![s].hostRoot = <<RootSlot, parses'>>,
                 ![s].hostValues = [only \in {slot} |-> <<RootSlot, parses'>>],
                 ![s].serialized = NoText], PlainState)
  /\ UNCHANGED <<held, writes>>

Invalidated(s) == IF s = 0 THEN states ELSE [states EXCEPT ![s].serialized = NoText]

ParseIntoHeld ==
  /\ held.cell # Nothing
  /\ PlainParse
  /\ held' = [held EXCEPT !.cell = <<RootSlot, parses'>>]
  /\ states' = Append(Invalidated(held.of), PlainState)
  /\ UNCHANGED <<memory, writes>>

(* dynamicView: a child of a view of a document in memory is built the first
   time a view of it is asked for, and the view is kept. *)
(* Mutant: the view is made without building what it shows. *)
BuiltNot(s, slots) == unbuilt
Built(s, slots) == [unbuilt EXCEPT ![s] = @ \ slots]

Child(s, slot) ==
  /\ InMemory(s)
  /\ slot \in Views(s) \cap Containers
  /\ \E i \in DOMAIN Tree[slot] :
       /\ states' = [states EXCEPT ![s].views = @ \cup {Tree[slot][i].slot}]
       /\ unbuilt' = Built(s, {Tree[slot][i].slot})
  /\ UNCHANGED <<memory, heap, held, parses, writes>>

(* A child of a view of a host copy is a wrapper: so is a child of one.  Only
   those of containers are kept, as a scalar cannot be mutated. *)
ChildrenOf(cell) ==
  {c \in {heap[cell][i].cell : i \in DOMAIN heap[cell]} : IsContainer(c)}

HostChild(s, slot) ==
  /\ Hosted(s) /\ slot \in Views(s)
  /\ IsContainer(ToJS(s, slot))
  /\ \E cell \in ChildrenOf(ToJS(s, slot)) : held' = [cell |-> cell, of |-> s]
  /\ UNCHANGED <<memory, unbuilt, states, heap, parses, writes>>

HeldChild ==
  /\ IsContainer(held.cell)
  /\ \E cell \in ChildrenOf(held.cell) : held' = [held EXCEPT !.cell = cell]
  /\ UNCHANGED <<memory, unbuilt, states, heap, parses, writes>>

(* ensureDynamicHostState: the whole tree is copied once. *)
(* Mutant: every mutation copies it anew. *)
EnsuredAgain(s) ==
  [states |-> [states EXCEPT ![s].hostRoot = <<RootSlot, s>>,
                             ![s].hostValues = [slot \in Slots |-> <<slot, s>>]],
   heap |-> WithCopy(s),
   unbuilt |-> [unbuilt EXCEPT ![s] = {}]]
Ensured(s) ==
  IF Hosted(s) THEN [states |-> states, heap |-> heap, unbuilt |-> unbuilt]
  ELSE [states |-> [states EXCEPT ![s].hostRoot = <<RootSlot, s>>,
                                  ![s].hostValues = [slot \in Slots |-> <<slot, s>>]],
        heap |-> WithCopy(s),
        unbuilt |-> [unbuilt EXCEPT ![s] = {}]]

(* What the mutators leave of an array: set, fill and copyWithin, push, unshift,
   reverse and sort, splice, pop and shift, and clear and the length setter. *)
Replaced(old, entry) ==
  {[old EXCEPT ![i] = entry] : i \in DOMAIN old}
  \cup {[old EXCEPT ![i] = old[j]] : i, j \in DOMAIN old}
Removed(old) == {RemoveAt(old, i) : i \in DOMAIN old}
Truncated(old) == {SubSeq(old, 1, n) : n \in 0..Len(old)}

ArrayWrites(old, cell) ==
  LET entry == Entry("", cell)
  IN Replaced(old, entry) \cup Removed(old) \cup Truncated(old)
     \cup {Append(old, entry), <<entry>> \o old, Reverse(old)}

(* Those of an object: set, delete and clear. *)
WithKey(old, key, cell) ==
  LET at == {i \in DOMAIN old : old[i].key = key}
  IN IF at = {} THEN Append(old, Entry(key, cell))
     ELSE [i \in DOMAIN old |-> IF i \in at THEN Entry(key, cell) ELSE old[i]]
ObjectWrites(old, cell) ==
  {WithKey(old, key, cell) : key \in Keys} \cup Removed(old) \cup {<< >>}

(* Mutant: removing every entry does not invalidate. *)
WrittenKept(at, s, target, cell) ==
  \E entries \in (IF target[1] \in Arrays THEN ArrayWrites(at.heap[target], cell)
                  ELSE ObjectWrites(at.heap[target], cell)) :
    /\ Len(entries) <= MaxEntries
    /\ heap' = [at.heap EXCEPT ![target] = entries]
    /\ states' = IF entries = << >> THEN at.states
                 ELSE [at.states EXCEPT ![s].serialized = NoText]

(* A mutation of the container `target` through a wrapper of the views of s:
   it drops their text.  A clear of an empty array is no mutation. *)
Written(at, s, target, cell) ==
  \E entries \in (IF target[1] \in Arrays THEN ArrayWrites(at.heap[target], cell)
                  ELSE ObjectWrites(at.heap[target], cell)) :
    /\ Len(entries) <= MaxEntries
    /\ heap' = [at.heap EXCEPT ![target] = entries]
    /\ states' = IF target[1] \in Arrays /\ at.heap[target] = << >> /\ entries = << >>
                 THEN at.states
                 ELSE [at.states EXCEPT ![s].serialized = NoText]

(* What the application may store in a host copy of the views of s: a value of
   its own, or what it holds of the same copy.  A container that two documents
   share is excluded: only the text of the one it is mutated through is
   dropped. *)
Storable(s) == {New} \cup (IF held.of = s THEN {held.cell} ELSE {})

WriteView(s, slot) ==
  /\ writes < MaxWrites
  /\ slot \in Views(s)
  /\ Hosted(s) \/ InMemory(s)
  /\ IsContainer(ToJS(s, slot))
  /\ LET at == Ensured(s)
     IN /\ \E cell \in Storable(s) : Written(at, s, at.states[s].hostValues[slot], cell)
        /\ unbuilt' = at.unbuilt
  /\ writes' = writes + 1
  /\ UNCHANGED <<memory, held, parses>>

WriteHeld ==
  /\ writes < MaxWrites
  /\ IsContainer(held.cell)
  /\ \E cell \in Storable(held.of) :
       Written([states |-> states, heap |-> heap], held.of, held.cell, cell)
  /\ writes' = writes + 1
  /\ UNCHANGED <<memory, unbuilt, held, parses>>

(* stringifyDynamic keeps the text of a root, and of a host copy whatever
   the view; that of another view of a document in memory is made of toJS,
   which builds everything below it. *)
Stringify(s, slot) ==
  /\ slot \in Views(s)
  /\ Hosted(s) \/ InMemory(s)
  /\ IF Hosted(s) \/ slot = RootSlot
     THEN /\ HasText(Stringified(s, slot))
          /\ states' = [states EXCEPT ![s].serialized = Stringified(s, slot)]
          /\ UNCHANGED unbuilt
     ELSE /\ unbuilt' = Built(s, Below(slot))
          /\ UNCHANGED states
  /\ UNCHANGED <<memory, heap, held, parses, writes>>

(* A read-only method of the host collections, such as forEach, indexOf or
   slice: it needs the copy and changes nothing in it. *)
Enumerate(s, slot) ==
  /\ InMemory(s)
  /\ slot \in Views(s) \cap Arrays
  /\ states' = Ensured(s).states
  /\ heap' = Ensured(s).heap
  /\ unbuilt' = Ensured(s).unbuilt
  /\ UNCHANGED <<memory, held, parses, writes>>

(* dispose releases the document of a root view; a nested view releases
   nothing.  The host copy, if any, stays readable. *)
Dispose(s, slot) ==
  /\ slot = RootSlot /\ ~Released(s)
  /\ memory' = Release(memory, states[s].document)
  /\ states' = [states EXCEPT ![s].document = NoPointer]
  /\ UNCHANGED <<unbuilt, heap, held, parses, writes>>

Next ==
  \/ ParseRetained
  \/ ParseIntoHeld \/ HeldChild \/ WriteHeld
  \/ \E s \in DOMAIN states : \E slot \in Views(s) :
       \/ ParseIntoView(s, slot)
       \/ Child(s, slot) \/ HostChild(s, slot)
       \/ WriteView(s, slot) \/ Enumerate(s, slot)
       \/ Stringify(s, slot) \/ Dispose(s, slot)

Spec == Init /\ [][Next]_vars

-----------------------------------------------------------------------------
(* The text kept for a root is that of the value it stands for now: whatever
   was mutated, through whichever view or wrapper, in whichever order with
   stringify, dispose and reuse, no later stringify of the root repeats an
   older text (state.serialized of stringifyDynamic). *)
RootText ==
  \A s \in DOMAIN states :
    (Hosted(s) \/ InMemory(s)) /\ RootSlot \in Views(s) /\ ToJS(s, RootSlot) # Nothing =>
      Stringified(s, RootSlot) = Text(Known(s), ToJS(s, RootSlot), {})

(* What a view shows changes only when its own container is mutated: the
   move to the host copy, the building of deferred containers, the release of
   a document that has a host copy and the mutation of another container keep
   it.  A release without a copy and a reuse end what the views showed. *)
Changes(s, slot) == Reading(s, slot)' # Reading(s, slot)
Ended(s) == ~Hosted(s) /\ states'[s].document = NoPointer
ReadFrom == <<memory, unbuilt, states, heap>>  (* all that a reading depends on *)
ReadsKept ==
  [][ReadFrom' # ReadFrom =>
       \A s \in DOMAIN states : \A slot \in Views(s) :
         Changes(s, slot) =>
           \/ Ended(s)
           \/ parses' # parses
           \/ /\ writes' # writes
              /\ \A t \in DOMAIN states : \A other \in Views(t) :
                   Changes(t, other) /\ ~Ended(t) => ToJS(t, other)' = ToJS(s, slot)']_vars

(* A document stays in memory exactly as long as the shared state of one
   view owns it: nothing is lost by a reuse, nothing is released while its
   views read it. *)
DocumentsHeld ==
  \A p \in Pointers :
    LET owners == {s \in DOMAIN states : states[s].document = p}
    IN owners = IF memory[p] = 0 THEN {} ELSE {memory[p]}

(* The text of any view is that of the value it stands for, as README.md:438
   has it for the root after a mutation of a nested view. *)
ViewText ==
  \A s \in DOMAIN states : \A slot \in Views(s) :
    (Hosted(s) \/ InMemory(s)) /\ ToJS(s, slot) # Nothing =>
      Stringified(s, slot) = Text(Known(s), ToJS(s, slot), {})
=============================================================================
