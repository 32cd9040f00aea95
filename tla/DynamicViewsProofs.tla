------------------------- MODULE DynamicViewsProofs --------------------------
(***************************************************************************)
(* The documents and host copies behind unknown-shape values, for any      *)
(* tree, any number of pointers and any number of parses and writes: who   *)
(* owns a document, what a view shows across a step, and the text kept for *)
(* a root.                                                                 *)
(***************************************************************************)
EXTENDS DynamicViews, SequenceTheorems, FiniteSetTheorems, TLAPS

Fields == {"document", "views", "hostRoot", "hostValues", "serialized"}

(* Every parse has a state and a set of containers it has not built.         *)
Shaped ==
  /\ parses \in Nat
  /\ states = [s \in 1..parses |-> states[s]]
  /\ unbuilt = [s \in 1..parses |-> unbuilt[s]]
  /\ \A s \in 1..parses : /\ DOMAIN states[s] = Fields
                          /\ states[s].document \in Pointers \cup {NoPointer}
                          /\ states[s].views \subseteq Slots
  /\ memory \in [Pointers -> 0..parses]

(* A view is of a container that has been built.                             *)
ViewsBuilt == \A s \in 1..parses : states[s].views \cap unbuilt[s] = {}

(* The host holds no copy of a document that is still read in memory, and    *)
(* the containers that the views of a copy stand for are the host's.         *)
Copied ==
  /\ \A cell \in DOMAIN heap : cell[2] \in 1..parses /\ ~InMemory(cell[2])
  /\ \A s \in 1..parses : Hosted(s) =>
       \A slot \in DOMAIN states[s].hostValues :
         IsContainer(states[s].hostValues[slot]) => states[s].hostValues[slot] \in DOMAIN heap

(* The wrapper that the application keeps is of a copy.                      *)
HeldHosted ==
  /\ held = [cell |-> held.cell, of |-> held.of]
  /\ held.cell # Nothing => held.of \in 1..parses /\ Hosted(held.of)

IInv ==
  /\ Shaped
  /\ DocumentsHeld
  /\ ViewsBuilt
  /\ Copied
  /\ HeldHosted

-----------------------------------------------------------------------------
(* Appending to a sequence given as a function.                              *)
LEMMA AppendFacts ==
  ASSUME NEW n \in Nat, NEW q, q = [i \in 1..n |-> q[i]], NEW e
  PROVE  /\ Append(q, e) = [i \in 1..(n + 1) |-> Append(q, e)[i]]
         /\ \A i \in 1..n : Append(q, e)[i] = q[i]
         /\ Append(q, e)[n + 1] = e
<1> DEFINE S == {q[i] : i \in 1..n} \cup {e}
<1>1. q \in [1..n -> S]
  OBVIOUS
<1>. HIDE DEF S
<1>2. q \in Seq(S) /\ Len(q) = n
  BY <1>1, LenProperties
<1>3. e \in S
  BY DEF S
<1>4. /\ Append(q, e) \in Seq(S) /\ Len(Append(q, e)) = n + 1
      /\ \A i \in 1..n : Append(q, e)[i] = q[i]
      /\ Append(q, e)[n + 1] = e
  BY <1>2, <1>3, AppendProperties
<1>5. Append(q, e) \in [1..(n + 1) -> S]
  BY <1>4, LenProperties
<1>6. QED
  BY <1>4, <1>5

LEMMA InitInv == Init => IInv
<1> SUFFICES ASSUME Init PROVE IInv
  OBVIOUS
<1>1. /\ parses = 0 /\ states = << >> /\ unbuilt = << >> /\ heap = << >>
      /\ memory = [p \in Pointers |-> 0]
  BY DEF Init
<1>2. 1..parses = {} /\ DOMAIN states = {} /\ DOMAIN heap = {}
  BY <1>1
<1>3. Shaped
  BY <1>1, <1>2 DEF Shaped
<1>4. DocumentsHeld
  BY <1>1, <1>2 DEF DocumentsHeld
<1>5. HeldHosted
  BY DEF Init, HeldHosted
<1>6. QED
  BY <1>2, <1>3, <1>4, <1>5 DEF IInv, ViewsBuilt, Copied

-----------------------------------------------------------------------------
LEMMA NamedSlots ==
  /\ \A cell : IsContainer(cell) => cell # Nothing /\ cell[1] \in Slots
  /\ RootSlot \in Containers
<1>1. Containers \subseteq Slots /\ RootSlot \in Containers /\ "" \notin Slots
  BY TreeAssumption DEF TreeAssumption
<1>2. ASSUME NEW cell, IsContainer(cell) PROVE cell # Nothing /\ cell[1] \in Slots
  <2>1. cell[1] \in Slots
    BY <1>1, <1>2 DEF IsContainer
  <2>2. Nothing[1] = ""
    BY DEF Nothing
  <2>3. QED
    BY <1>1, <2>1, <2>2
<1>3. QED
  BY <1>1, <1>2

LEMMA ShapeFacts ==
  ASSUME Shaped
  PROVE  /\ DOMAIN states = 1..parses
         /\ DOMAIN unbuilt = 1..parses
         /\ parses \in Nat
BY DEF Shaped

(* A step that changes one state and what it has not built.                  *)
LEMMA OneState ==
  ASSUME Shaped, NEW s \in 1..parses, NEW r, NEW b,
         DOMAIN r = Fields, r.document \in Pointers \cup {NoPointer}, r.views \subseteq Slots,
         states' = [states EXCEPT ![s] = r], unbuilt' = [unbuilt EXCEPT ![s] = b],
         parses' = parses, memory' \in [Pointers -> 0..parses]
  PROVE  /\ Shaped'
         /\ states'[s] = r /\ unbuilt'[s] = b
         /\ \A t \in 1..parses : t # s => states'[t] = states[t] /\ unbuilt'[t] = unbuilt[t]
<1>1. /\ DOMAIN states = 1..parses /\ DOMAIN unbuilt = 1..parses
  BY ShapeFacts
<1>2. /\ states' = [t \in 1..parses |-> states'[t]] /\ unbuilt' = [t \in 1..parses |-> unbuilt'[t]]
      /\ states'[s] = r /\ unbuilt'[s] = b
      /\ \A t \in 1..parses : t # s => states'[t] = states[t] /\ unbuilt'[t] = unbuilt[t]
  BY <1>1
<1>3. \A t \in 1..parses : /\ DOMAIN states'[t] = Fields
                           /\ states'[t].document \in Pointers \cup {NoPointer}
                           /\ states'[t].views \subseteq Slots
  BY <1>2 DEF Shaped
<1>4. parses' \in Nat
  BY ShapeFacts
<1>5. QED
  BY <1>2, <1>3, <1>4 DEF Shaped

(* A step that parses nothing and releases nothing keeps the invariant when  *)
(* a copy it makes is of a document whose views then stand for the copy.     *)
LEMMA Kept ==
  ASSUME IInv, Shaped', ViewsBuilt', parses' = parses, memory' = memory, held' = held,
         \A t \in 1..parses : states'[t].document = states[t].document,
         \A t \in 1..parses : Hosted(t) => /\ Hosted(t)'
                                           /\ states'[t].hostValues = states[t].hostValues,
         DOMAIN heap \subseteq DOMAIN heap',
         \A cell \in DOMAIN heap' \ DOMAIN heap : cell[2] \in 1..parses /\ Hosted(cell[2])',
         \A t \in 1..parses : Hosted(t)' /\ ~Hosted(t) =>
            \A slot \in DOMAIN states'[t].hostValues :
              IsContainer(states'[t].hostValues[slot]) =>
                states'[t].hostValues[slot] \in DOMAIN heap'
  PROVE  IInv'
<1>1. DOMAIN states = 1..parses /\ DOMAIN states' = 1..parses
  BY DEF Shaped, IInv
<1>2. DocumentsHeld'
  <2>1. ASSUME NEW p \in Pointers
        PROVE  {t \in DOMAIN states' : states'[t].document = p}
                 = {t \in DOMAIN states : states[t].document = p}
    BY <1>1
  <2>2. QED
    BY <2>1 DEF DocumentsHeld, IInv
<1>3. Copied'
  <2>1. \A cell \in DOMAIN heap' : cell[2] \in 1..parses' /\ ~InMemory(cell[2])'
    BY DEF InMemory, Released, IInv, Copied
  <2>2. \A t \in 1..parses' : Hosted(t)' =>
           \A slot \in DOMAIN states'[t].hostValues :
             IsContainer(states'[t].hostValues[slot]) => states'[t].hostValues[slot] \in DOMAIN heap'
    BY DEF IInv, Copied
  <2>3. QED
    BY <2>1, <2>2 DEF Copied
<1>4. HeldHosted'
  BY DEF IInv, HeldHosted
<1>5. QED
  BY <1>2, <1>3, <1>4 DEF IInv

(* A step that changes nothing but the wrapper kept.                         *)
LEMMA Same ==
  ASSUME IInv, UNCHANGED <<memory, unbuilt, states, heap, parses>>, HeldHosted'
  PROVE  IInv'
BY DEF IInv, Shaped, DocumentsHeld, ViewsBuilt, Copied, Hosted, InMemory, Released

LEMMA HoldInv ==
  ASSUME IInv
  PROVE  /\ HeldChild => IInv'
         /\ \A s \in DOMAIN states : \A slot \in Views(s) : HostChild(s, slot) => IInv'
<1>1. DOMAIN states = 1..parses
  BY ShapeFacts DEF IInv
<1>2. ASSUME HeldChild PROVE IInv'
  <2>1. held.cell # Nothing
    BY <1>2, NamedSlots DEF HeldChild
  <2>2. HeldHosted'
    BY <1>2, <2>1 DEF HeldChild, IInv, HeldHosted, Hosted
  <2>3. QED
    BY <1>2, <2>2, Same DEF HeldChild
<1>3. ASSUME NEW s \in DOMAIN states, NEW slot \in Views(s), HostChild(s, slot) PROVE IInv'
  <2>1. HeldHosted'
    BY <1>1, <1>3 DEF HostChild, HeldHosted, Hosted
  <2>2. QED
    BY <1>3, <2>1, Same DEF HostChild
<1>4. QED
  BY <1>2, <1>3

(* Building some of what is below a view, and giving it views.               *)
LEMMA BuildStep ==
  ASSUME IInv, NEW s \in 1..parses, NEW r, NEW b,
         DOMAIN r = Fields, r.views \subseteq Slots, r.document = states[s].document,
         r.hostRoot = states[s].hostRoot, r.hostValues = states[s].hostValues,
         b \subseteq unbuilt[s], r.views \cap b = {},
         states' = [states EXCEPT ![s] = r], unbuilt' = [unbuilt EXCEPT ![s] = b],
         UNCHANGED <<memory, heap, held, parses>>
  PROVE  IInv'
<1>1. r.document \in Pointers \cup {NoPointer} /\ memory' \in [Pointers -> 0..parses]
  BY DEF IInv, Shaped
<1>2. /\ Shaped'
      /\ states'[s] = r /\ unbuilt'[s] = b
      /\ \A t \in 1..parses : t # s => states'[t] = states[t] /\ unbuilt'[t] = unbuilt[t]
  BY <1>1, OneState DEF IInv
<1>3. ViewsBuilt'
  BY <1>2 DEF IInv, ViewsBuilt
<1>4. \A t \in 1..parses : states'[t].hostRoot = states[t].hostRoot
  BY <1>2
<1>5. QED
  BY <1>2, <1>3, <1>4, Kept DEF Hosted

LEMMA ChildInv ==
  ASSUME IInv, NEW s \in DOMAIN states, NEW slot \in Views(s), Child(s, slot)
  PROVE  IInv'
<1>1. s \in 1..parses /\ DOMAIN states[s] = Fields /\ states[s].views \subseteq Slots
  BY ShapeFacts DEF IInv, Shaped
<1>2. PICK i \in DOMAIN Tree[slot] :
        /\ states' = [states EXCEPT ![s].views = @ \cup {Tree[slot][i].slot}]
        /\ unbuilt' = Built(s, {Tree[slot][i].slot})
  BY DEF Child
<1> DEFINE new == Tree[slot][i].slot
           r == [states[s] EXCEPT !.views = @ \cup {new}]
           b == unbuilt[s] \ {new}
<1>3. new \in Slots
  <2>1. Tree[slot] \in Seq([key : STRING, slot : Slots])
    BY TreeAssumption DEF Child, TreeAssumption
  <2>2. Tree[slot][i] \in [key : STRING, slot : Slots]
    BY <2>1, LenProperties
  <2>3. QED
    BY <2>2
<1>4. states' = [states EXCEPT ![s] = r] /\ unbuilt' = [unbuilt EXCEPT ![s] = b]
  BY <1>2 DEF Built
<1>5. /\ DOMAIN r = Fields /\ r.views = states[s].views \cup {new}
      /\ r.document = states[s].document /\ r.hostRoot = states[s].hostRoot
      /\ r.hostValues = states[s].hostValues
  BY <1>1 DEF Fields
<1>6. r.views \subseteq Slots /\ b \subseteq unbuilt[s]
  BY <1>1, <1>3, <1>5
<1>7. r.views \cap b = {}
  BY <1>1, <1>5 DEF IInv, ViewsBuilt
<1>. HIDE DEF r, b
<1>8. QED
  BY <1>1, <1>4, <1>5, <1>6, <1>7, BuildStep DEF Child

LEMMA StringifyInv ==
  ASSUME IInv, NEW s \in DOMAIN states, NEW slot \in Views(s), Stringify(s, slot)
  PROVE  IInv'
<1>1. /\ s \in 1..parses /\ DOMAIN states[s] = Fields /\ states[s].views \subseteq Slots
      /\ states[s].views \cap unbuilt[s] = {}
      /\ DOMAIN states = 1..parses /\ DOMAIN unbuilt = 1..parses
      /\ states = [t \in 1..parses |-> states[t]] /\ unbuilt = [t \in 1..parses |-> unbuilt[t]]
  BY ShapeFacts DEF IInv, Shaped, ViewsBuilt
<1>2. UNCHANGED <<memory, heap, held, parses>>
  BY DEF Stringify
<1>3. CASE Hosted(s) \/ slot = RootSlot
  <2> DEFINE r == [states[s] EXCEPT !.serialized = Stringified(s, slot)]
  <2>1. states' = [states EXCEPT ![s] = r] /\ unbuilt' = [unbuilt EXCEPT ![s] = unbuilt[s]]
    BY <1>1, <1>3 DEF Stringify
  <2>2. /\ DOMAIN r = Fields /\ r.views = states[s].views
        /\ r.document = states[s].document /\ r.hostRoot = states[s].hostRoot
        /\ r.hostValues = states[s].hostValues
    BY <1>1 DEF Fields
  <2>. HIDE DEF r
  <2>3. QED
    BY <1>1, <1>2, <2>1, <2>2, BuildStep
<1>4. CASE ~(Hosted(s) \/ slot = RootSlot)
  <2> DEFINE b == unbuilt[s] \ Below(slot)
  <2>1. states' = [states EXCEPT ![s] = states[s]] /\ unbuilt' = [unbuilt EXCEPT ![s] = b]
    BY <1>1, <1>4 DEF Stringify, Built
  <2>2. b \subseteq unbuilt[s] /\ states[s].views \cap b = {}
    BY <1>1
  <2>. HIDE DEF b
  <2>3. QED
    BY <1>1, <1>2, <2>1, <2>2, BuildStep
<1>5. QED
  BY <1>3, <1>4

-----------------------------------------------------------------------------
(* The host copy of the views of s, made now unless there is one.            *)
LEMMA CopyFacts ==
  ASSUME NEW d
  PROVE  /\ DOMAIN HostCopy(d) = Containers \X {d}
         /\ \A cell \in DOMAIN HostCopy(d) : cell[2] = d
BY DEF HostCopy

LEMMA CopyOver ==
  ASSUME NEW d
  PROVE  /\ DOMAIN WithCopy(d) = DOMAIN HostCopy(d) \cup DOMAIN heap
         /\ \A cell \in DOMAIN HostCopy(d) : WithCopy(d)[cell] = HostCopy(d)[cell]
         /\ \A cell \in DOMAIN heap \ DOMAIN HostCopy(d) : WithCopy(d)[cell] = heap[cell]
BY DEF WithCopy

LEMMA EnsuredFacts ==
  ASSUME IInv, NEW s \in 1..parses, Hosted(s) \/ InMemory(s)
  PROVE  LET at == Ensured(s)
         IN /\ at.states = [states EXCEPT ![s] = at.states[s]]
            /\ at.unbuilt = [unbuilt EXCEPT ![s] = at.unbuilt[s]]
            /\ at.unbuilt[s] \subseteq unbuilt[s]
            /\ DOMAIN at.states[s] = Fields
            /\ at.states[s].document = states[s].document
            /\ at.states[s].views = states[s].views
            /\ at.states[s].hostRoot # Nothing
            /\ Hosted(s) => at.states[s] = states[s] /\ at.heap = heap
            /\ ~Hosted(s) => /\ at.states[s].hostValues = [slot \in Slots |-> <<slot, s>>]
                             /\ at.heap = WithCopy(s)
<1>1. /\ DOMAIN states[s] = Fields
      /\ DOMAIN states = 1..parses /\ DOMAIN unbuilt = 1..parses
      /\ states = [t \in 1..parses |-> states[t]] /\ unbuilt = [t \in 1..parses |-> unbuilt[t]]
  BY ShapeFacts DEF IInv, Shaped
<1>2. CASE Hosted(s)
  BY <1>1, <1>2 DEF Ensured, Hosted
<1>3. CASE ~Hosted(s)
  <2> DEFINE r == [states[s] EXCEPT !.hostRoot = <<RootSlot, s>>,
                                    !.hostValues = [slot \in Slots |-> <<slot, s>>]]
  <2>1. /\ Ensured(s).states = [states EXCEPT ![s] = r]
        /\ Ensured(s).unbuilt = [unbuilt EXCEPT ![s] = {}]
        /\ Ensured(s).heap = WithCopy(s)
    BY <1>3 DEF Ensured
  <2>2. Ensured(s).states[s] = r /\ Ensured(s).unbuilt[s] = {}
    BY <1>1, <2>1
  <2>3. /\ DOMAIN r = Fields /\ r.views = states[s].views /\ r.document = states[s].document
        /\ r.hostRoot = <<RootSlot, s>> /\ r.hostValues = [slot \in Slots |-> <<slot, s>>]
    BY <1>1 DEF Fields
  <2>4. <<RootSlot, s>> # Nothing
    <3>1. <<RootSlot, s>>[2] # 0
      BY ShapeFacts DEF IInv
    <3>2. QED
      BY <3>1 DEF Nothing
  <2>. HIDE DEF r
  <2>5. QED
    BY <1>3, <2>1, <2>2, <2>3, <2>4
<1>4. QED
  BY <1>2, <1>3

LEMMA EnsuredHeap ==
  ASSUME NEW s
  PROVE  LET over == Ensured(s).heap
         IN /\ DOMAIN heap \subseteq DOMAIN over
            /\ \A cell \in DOMAIN over \ DOMAIN heap : cell[2] = s
            /\ ~Hosted(s) => DOMAIN HostCopy(s) \subseteq DOMAIN over
<1>1. CASE Hosted(s)
  BY <1>1 DEF Ensured
<1>2. CASE ~Hosted(s)
  <2>1. Ensured(s).heap = WithCopy(s)
    BY <1>2 DEF Ensured
  <2>2. DOMAIN WithCopy(s) = DOMAIN HostCopy(s) \cup DOMAIN heap
    BY CopyOver
  <2>3. \A cell \in DOMAIN HostCopy(s) : cell[2] = s
    BY CopyFacts
  <2>4. QED
    BY <2>1, <2>2, <2>3
<1>3. QED
  BY <1>1, <1>2

(* What record r keeps of the state of s when only its text changes.         *)
Retexted(r, s) ==
  LET q == Ensured(s).states[s]
  IN /\ DOMAIN r = Fields
     /\ r.document = q.document /\ r.views = q.views
     /\ r.hostRoot = q.hostRoot /\ r.hostValues = q.hostValues

(* A step that makes the host copy of s, when there is none, and changes     *)
(* what is in it.                                                            *)
LEMMA HostStep ==
  ASSUME IInv, NEW s \in 1..parses, Hosted(s) \/ InMemory(s), NEW r, Retexted(r, s),
         states' = [Ensured(s).states EXCEPT ![s] = r], unbuilt' = Ensured(s).unbuilt,
         DOMAIN heap' = DOMAIN Ensured(s).heap, UNCHANGED <<memory, held, parses>>
  PROVE  /\ IInv'
         /\ Hosted(s)'
         /\ states'[s] = r
         /\ \A t \in 1..parses : t # s => states'[t] = states[t] /\ unbuilt'[t] = unbuilt[t]
<1> DEFINE q == Ensured(s).states[s]
           b == Ensured(s).unbuilt[s]
<1>1. /\ DOMAIN states = 1..parses
      /\ memory' \in [Pointers -> 0..parses]
      /\ states[s].document \in Pointers \cup {NoPointer} /\ states[s].views \subseteq Slots
      /\ states[s].views \cap unbuilt[s] = {}
  BY ShapeFacts DEF IInv, Shaped, ViewsBuilt
<1>2. /\ Ensured(s).states = [states EXCEPT ![s] = q]
      /\ unbuilt' = [unbuilt EXCEPT ![s] = b]
      /\ b \subseteq unbuilt[s]
      /\ q.document = states[s].document /\ q.views = states[s].views
      /\ q.hostRoot # Nothing
      /\ Hosted(s) => q = states[s] /\ Ensured(s).heap = heap
      /\ ~Hosted(s) => /\ q.hostValues = [slot \in Slots |-> <<slot, s>>]
                       /\ Ensured(s).heap = WithCopy(s)
  BY EnsuredFacts
<1>3. /\ DOMAIN r = Fields /\ r.document = states[s].document /\ r.views = states[s].views
      /\ r.hostRoot # Nothing /\ r.hostValues = q.hostValues
  BY <1>2 DEF Retexted
<1>. HIDE DEF q, b
<1>4. states' = [states EXCEPT ![s] = r]
  BY <1>2
<1>5. /\ Shaped'
      /\ states'[s] = r /\ unbuilt'[s] = b
      /\ \A t \in 1..parses : t # s => states'[t] = states[t] /\ unbuilt'[t] = unbuilt[t]
  <2>1. /\ Shaped /\ unbuilt' = [unbuilt EXCEPT ![s] = b]
        /\ DOMAIN r = Fields /\ r.document \in Pointers \cup {NoPointer}
        /\ r.views \subseteq Slots
        /\ memory' \in [Pointers -> 0..parses] /\ parses' = parses
    BY <1>1, <1>2, <1>3 DEF IInv
  <2>2. QED
    BY <1>4, <2>1, OneState
<1>6. ViewsBuilt'
  BY <1>1, <1>2, <1>3, <1>5 DEF IInv, ViewsBuilt
<1>7. Hosted(s)'
  BY <1>3, <1>5 DEF Hosted
<1>8. \A t \in 1..parses : states'[t].document = states[t].document
  BY <1>3, <1>5
<1>9. \A t \in 1..parses : Hosted(t) => /\ Hosted(t)'
                                        /\ states'[t].hostValues = states[t].hostValues
  BY <1>2, <1>3, <1>5, <1>7 DEF Hosted
<1>10. /\ DOMAIN heap \subseteq DOMAIN heap'
       /\ \A cell \in DOMAIN heap' \ DOMAIN heap : cell[2] = s
       /\ ~Hosted(s) => DOMAIN HostCopy(s) \subseteq DOMAIN heap'
  BY EnsuredHeap
<1>11. \A cell \in DOMAIN heap' \ DOMAIN heap : cell[2] \in 1..parses /\ Hosted(cell[2])'
  BY <1>7, <1>10
<1>12. ASSUME NEW t \in 1..parses, Hosted(t)', ~Hosted(t),
              NEW slot \in DOMAIN states'[t].hostValues, IsContainer(states'[t].hostValues[slot])
       PROVE  states'[t].hostValues[slot] \in DOMAIN heap'
  <2>1. t = s
    BY <1>5, <1>12 DEF Hosted
  <2>2. states'[t].hostValues = [other \in Slots |-> <<other, s>>]
    BY <1>2, <1>3, <1>5, <1>12, <2>1
  <2>3. states'[t].hostValues[slot] = <<slot, s>> /\ slot \in Containers
    BY <1>12, <2>2 DEF IsContainer
  <2>4. <<slot, s>> \in DOMAIN HostCopy(s)
    BY <2>3, CopyFacts
  <2>5. QED
    BY <1>10, <1>12, <2>1, <2>3, <2>4
<1>13. IInv'
  BY <1>5, <1>6, <1>8, <1>9, <1>10, <1>11, <1>12, Kept
<1>14. QED
  BY <1>5, <1>7, <1>13

(* A mutation changes the text kept and one container.                       *)
LEMMA WrittenFacts ==
  ASSUME IInv, NEW s \in 1..parses, Hosted(s) \/ InMemory(s), NEW at,
         at.states = Ensured(s).states, at.heap = Ensured(s).heap,
         NEW target, NEW cell, Written(at, s, target, cell)
  PROVE  \E r, entries : /\ Retexted(r, s)
                         /\ states' = [Ensured(s).states EXCEPT ![s] = r]
                         /\ heap' = [Ensured(s).heap EXCEPT ![target] = entries]
<1> DEFINE q == Ensured(s).states[s]
           r == [q EXCEPT !.serialized = NoText]
<1>1. PICK entries :
        /\ heap' = [at.heap EXCEPT ![target] = entries]
        /\ states' = at.states \/ states' = [at.states EXCEPT ![s].serialized = NoText]
  BY DEF Written
<1>2. /\ DOMAIN q = Fields /\ DOMAIN states = 1..parses
      /\ Ensured(s).states = [states EXCEPT ![s] = q]
  BY EnsuredFacts, ShapeFacts DEF IInv
<1>3. CASE states' = at.states
  <2>1. Retexted(q, s)
    BY <1>2 DEF Retexted
  <2>. HIDE DEF q
  <2>2. states' = [Ensured(s).states EXCEPT ![s] = q]
    BY <1>2, <1>3
  <2>3. QED
    BY <1>1, <2>1, <2>2
<1>4. CASE states' = [at.states EXCEPT ![s].serialized = NoText]
  <2>1. Retexted(r, s)
    BY <1>2 DEF Retexted, Fields
  <2>2. states' = [Ensured(s).states EXCEPT ![s] = r]
    BY <1>4
  <2>. HIDE DEF q, r
  <2>3. QED
    BY <1>1, <2>1, <2>2
<1>5. QED
  BY <1>1, <1>3, <1>4

(* The steps that may make a host copy, of the state o, and write into the   *)
(* container `target`.                                                       *)
Hosting(o, target) ==
  /\ o \in 1..parses /\ (Hosted(o) \/ InMemory(o))
  /\ \E r : Retexted(r, o) /\ states' = [Ensured(o).states EXCEPT ![o] = r]
  /\ unbuilt' = Ensured(o).unbuilt
  /\ UNCHANGED <<memory, held, parses>>
  /\ DOMAIN heap' = DOMAIN Ensured(o).heap
  /\ \A cell \in DOMAIN heap' : cell # target => heap'[cell] = Ensured(o).heap[cell]

LEMMA HostingSteps ==
  ASSUME IInv
  PROVE  /\ WriteHeld => Hosting(held.of, held.cell)
         /\ \A o \in DOMAIN states : \A slot \in Views(o) :
              /\ WriteView(o, slot) => \E target : Hosting(o, target)
              /\ Enumerate(o, slot) => Hosting(o, Nothing) /\ heap' = Ensured(o).heap
<1>1. DOMAIN states = 1..parses
  BY ShapeFacts DEF IInv
<1>2. ASSUME WriteHeld PROVE Hosting(held.of, held.cell)
  <2> DEFINE o == held.of
             at == [states |-> states, heap |-> heap]
  <2>1. o \in 1..parses /\ Hosted(o)
    BY <1>2, NamedSlots DEF WriteHeld, IInv, HeldHosted
  <2>2. /\ at.states = Ensured(o).states /\ at.heap = Ensured(o).heap
        /\ unbuilt = Ensured(o).unbuilt
    BY <2>1 DEF Ensured
  <2>3. PICK cell : Written(at, o, held.cell, cell)
    BY <1>2 DEF WriteHeld
  <2>. HIDE DEF at, o
  <2>4. PICK r, entries :
          /\ Retexted(r, o) /\ states' = [Ensured(o).states EXCEPT ![o] = r]
          /\ heap' = [Ensured(o).heap EXCEPT ![held.cell] = entries]
    BY <2>1, <2>2, <2>3, WrittenFacts
  <2>5. unbuilt' = Ensured(o).unbuilt /\ UNCHANGED <<memory, held, parses>>
    BY <1>2, <2>2 DEF WriteHeld
  <2>6. /\ DOMAIN heap' = DOMAIN Ensured(o).heap
        /\ \A other \in DOMAIN heap' : other # held.cell => heap'[other] = Ensured(o).heap[other]
    BY <2>4
  <2>7. Hosting(o, held.cell)
    BY <2>1, <2>4, <2>5, <2>6 DEF Hosting
  <2>8. QED
    BY <2>7 DEF o
<1>3. ASSUME NEW o \in DOMAIN states, NEW slot \in Views(o), WriteView(o, slot)
      PROVE  \E target : Hosting(o, target)
  <2> DEFINE target == Ensured(o).states[o].hostValues[slot]
             at == Ensured(o)
  <2>1. o \in 1..parses /\ (Hosted(o) \/ InMemory(o))
    BY <1>1, <1>3 DEF WriteView
  <2>2. PICK cell : Written(at, o, target, cell)
    BY <1>3 DEF WriteView
  <2>3. at.states = Ensured(o).states /\ at.heap = Ensured(o).heap
    OBVIOUS
  <2>. HIDE DEF target, at
  <2>4. PICK r, entries :
          /\ Retexted(r, o) /\ states' = [Ensured(o).states EXCEPT ![o] = r]
          /\ heap' = [Ensured(o).heap EXCEPT ![target] = entries]
    BY <2>1, <2>2, <2>3, WrittenFacts
  <2>5. unbuilt' = Ensured(o).unbuilt /\ UNCHANGED <<memory, held, parses>>
    BY <1>3 DEF WriteView
  <2>6. /\ DOMAIN heap' = DOMAIN Ensured(o).heap
        /\ \A other \in DOMAIN heap' : other # target => heap'[other] = Ensured(o).heap[other]
    BY <2>4
  <2>7. Hosting(o, target)
    BY <2>1, <2>4, <2>5, <2>6 DEF Hosting
  <2>8. QED
    BY <2>7
<1>4. ASSUME NEW o \in DOMAIN states, NEW slot \in Views(o), Enumerate(o, slot)
      PROVE  Hosting(o, Nothing) /\ heap' = Ensured(o).heap
  <2> DEFINE q == Ensured(o).states[o]
  <2>1. o \in 1..parses /\ InMemory(o)
    BY <1>1, <1>4 DEF Enumerate
  <2>2. DOMAIN q = Fields /\ Ensured(o).states = [states EXCEPT ![o] = q]
    BY <2>1, EnsuredFacts
  <2>3. Retexted(q, o)
    BY <2>2 DEF Retexted
  <2>. HIDE DEF q
  <2>4. states' = [Ensured(o).states EXCEPT ![o] = q]
    BY <1>1, <1>4, <2>2 DEF Enumerate
  <2>5. heap' = Ensured(o).heap /\ unbuilt' = Ensured(o).unbuilt
        /\ UNCHANGED <<memory, held, parses>>
    BY <1>4 DEF Enumerate
  <2>6. QED
    BY <2>1, <2>3, <2>4, <2>5 DEF Hosting
<1>5. QED
  BY <1>2, <1>3, <1>4

LEMMA HostingInv ==
  ASSUME IInv, NEW o, NEW target, Hosting(o, target)
  PROVE  IInv'
<1>1. PICK r : Retexted(r, o) /\ states' = [Ensured(o).states EXCEPT ![o] = r]
  BY DEF Hosting
<1>2. /\ o \in 1..parses /\ (Hosted(o) \/ InMemory(o))
      /\ unbuilt' = Ensured(o).unbuilt
      /\ UNCHANGED <<memory, held, parses>>
      /\ DOMAIN heap' = DOMAIN Ensured(o).heap
  BY DEF Hosting
<1>3. QED
  BY <1>1, <1>2, HostStep

-----------------------------------------------------------------------------
(* Releasing the document of a state leaves every other with its owner.      *)
LEMMA OwnersReleased ==
  ASSUME IInv, NEW s \in 1..parses, NEW m, m = Release(memory, states[s].document),
         NEW q, q[s].document = NoPointer,
         \A t \in 1..parses : t # s => q[t].document = states[t].document
  PROVE  /\ m \in [Pointers -> 0..parses]
         /\ \A p \in Pointers : {t \in 1..parses : q[t].document = p}
                                  = IF m[p] = 0 THEN {} ELSE {m[p]}
<1> DEFINE d == states[s].document
<1>1. /\ memory \in [Pointers -> 0..parses] /\ DOMAIN states = 1..parses
      /\ d \in Pointers \cup {NoPointer} /\ NoPointer \notin Pointers
      /\ parses \in Nat
  BY TreeAssumption, ShapeFacts DEF TreeAssumption, IInv, Shaped
<1>2. \A p \in Pointers : {t \in 1..parses : states[t].document = p}
                            = IF memory[p] = 0 THEN {} ELSE {memory[p]}
  BY <1>1 DEF IInv, DocumentsHeld
<1>3. m \in [Pointers -> 0..parses]
  BY <1>1 DEF Release
<1>4. ASSUME NEW p \in Pointers, p # d
      PROVE  {t \in 1..parses : q[t].document = p} = IF m[p] = 0 THEN {} ELSE {m[p]}
  <2>1. m[p] = memory[p]
    BY <1>1, <1>4 DEF Release
  <2>2. {t \in 1..parses : q[t].document = p} = {t \in 1..parses : states[t].document = p}
    BY <1>1, <1>4
  <2>3. QED
    BY <1>2, <2>1, <2>2
<1>5. ASSUME NEW p \in Pointers, p = d
      PROVE  {t \in 1..parses : q[t].document = p} = IF m[p] = 0 THEN {} ELSE {m[p]}
  <2>1. m[p] = 0
    BY <1>1, <1>5 DEF Release
  <2>2. \A t \in 1..parses : states[t].document = p => t = s
    <3>1. s \in {t \in 1..parses : states[t].document = p}
      BY <1>5
    <3>2. {t \in 1..parses : states[t].document = p} = {memory[p]}
      BY <1>2, <3>1
    <3>3. QED
      BY <3>1, <3>2
  <2>3. {t \in 1..parses : q[t].document = p} = {}
    BY <1>1, <2>2
  <2>4. QED
    BY <2>1, <2>3
<1>6. QED
  BY <1>3, <1>4, <1>5

LEMMA DisposeInv ==
  ASSUME IInv, NEW s \in DOMAIN states, NEW slot \in Views(s), Dispose(s, slot)
  PROVE  IInv'
<1> DEFINE r == [states[s] EXCEPT !.document = NoPointer]
<1>1. /\ s \in 1..parses /\ DOMAIN states[s] = Fields /\ states[s].views \subseteq Slots
      /\ DOMAIN states = 1..parses /\ DOMAIN unbuilt = 1..parses
      /\ unbuilt = [t \in 1..parses |-> unbuilt[t]]
  BY ShapeFacts DEF IInv, Shaped
<1>2. /\ DOMAIN r = Fields /\ r.document = NoPointer /\ r.views = states[s].views
      /\ r.hostRoot = states[s].hostRoot /\ r.hostValues = states[s].hostValues
  BY <1>1 DEF Fields
<1>3. states' = [states EXCEPT ![s] = r] /\ unbuilt' = [unbuilt EXCEPT ![s] = unbuilt[s]]
  BY <1>1 DEF Dispose
<1>. HIDE DEF r
<1>4. UNCHANGED <<heap, held, parses>> /\ memory' = Release(memory, states[s].document)
  BY DEF Dispose
<1>5. states'[s] = r /\ \A t \in 1..parses : t # s => states'[t] = states[t]
  BY <1>1, <1>3
<1>6. /\ memory' \in [Pointers -> 0..parses]
      /\ \A p \in Pointers : {t \in 1..parses : states'[t].document = p}
                               = IF memory'[p] = 0 THEN {} ELSE {memory'[p]}
  BY <1>1, <1>2, <1>4, <1>5, OwnersReleased
<1>7. Shaped' /\ DOMAIN states' = 1..parses
  BY <1>1, <1>2, <1>3, <1>4, <1>6, OneState DEF IInv
<1>8. DocumentsHeld'
  BY <1>6, <1>7 DEF DocumentsHeld
<1>9. ViewsBuilt'
  BY <1>1, <1>2, <1>4, <1>5 DEF IInv, ViewsBuilt, Dispose
<1>10. \A t \in 1..parses : /\ Hosted(t)' = Hosted(t)
                            /\ states'[t].hostValues = states[t].hostValues
                            /\ InMemory(t)' => InMemory(t)
  BY <1>2, <1>5 DEF Hosted, InMemory, Released
<1>11. Copied'
  BY <1>4, <1>10 DEF IInv, Copied
<1>12. HeldHosted'
  BY <1>4, <1>10 DEF IInv, HeldHosted
<1>13. QED
  BY <1>7, <1>8, <1>9, <1>11, <1>12 DEF IInv

LEMMA ParseRetainedInv ==
  ASSUME IInv, NEW n, n = parses, ParseRetained
  PROVE  IInv'
<1>1. /\ n \in Nat /\ DOMAIN states = 1..n /\ DOMAIN unbuilt = 1..n
      /\ memory \in [Pointers -> 0..n]
      /\ states = [t \in 1..n |-> states[t]] /\ unbuilt = [t \in 1..n |-> unbuilt[t]]
      /\ RootSlot \in Slots /\ NoPointer \notin Pointers
  BY TreeAssumption, ShapeFacts DEF TreeAssumption, IInv, Shaped
<1>2. PICK p \in Pointers : /\ memory[p] = 0
                            /\ memory' = [memory EXCEPT ![p] = parses']
                            /\ states' = Append(states, NewState(p))
  BY DEF ParseRetained
<1>3. /\ parses' = n + 1 /\ unbuilt' = Append(unbuilt, Containers \ {RootSlot})
      /\ heap' = heap /\ held' = held
  BY DEF ParseRetained
<1> DEFINE new == NewState(p)
<1>4. /\ DOMAIN new = Fields /\ new.document = p /\ new.views = {RootSlot}
      /\ new.hostRoot = Nothing
  BY DEF NewState, Fields
<1>. HIDE DEF new
<1>5. /\ states' = [t \in 1..(n + 1) |-> states'[t]] /\ states'[n + 1] = new
      /\ \A t \in 1..n : states'[t] = states[t]
  BY <1>1, <1>2, AppendFacts DEF new
<1>6. /\ unbuilt' = [t \in 1..(n + 1) |-> unbuilt'[t]]
      /\ unbuilt'[n + 1] = Containers \ {RootSlot}
      /\ \A t \in 1..n : unbuilt'[t] = unbuilt[t]
  BY <1>1, <1>3, AppendFacts
<1>7. \A t \in 1..(n + 1) : t \in 1..n \/ t = n + 1
  BY <1>1
<1>8. memory' \in [Pointers -> 0..(n + 1)]
  BY <1>1, <1>2, <1>3
<1>9. Shaped'
  <2>1. \A t \in 1..(n + 1) : /\ DOMAIN states'[t] = Fields
                              /\ states'[t].document \in Pointers \cup {NoPointer}
                              /\ states'[t].views \subseteq Slots
    BY <1>1, <1>4, <1>5, <1>7 DEF IInv, Shaped
  <2>2. QED
    BY <1>1, <1>3, <1>5, <1>6, <1>8, <2>1 DEF Shaped
<1>10. DocumentsHeld'
  <2>1. DOMAIN states' = 1..(n + 1)
    BY <1>5
  <2>2. \A o \in Pointers : {t \in 1..n : states[t].document = o}
                              = IF memory[o] = 0 THEN {} ELSE {memory[o]}
    BY <1>1 DEF IInv, DocumentsHeld
  <2>3. ASSUME NEW o \in Pointers, o # p
        PROVE  {t \in 1..(n + 1) : states'[t].document = o}
                 = IF memory'[o] = 0 THEN {} ELSE {memory'[o]}
    <3>1. memory'[o] = memory[o]
      BY <1>1, <1>2, <2>3
    <3>2. {t \in 1..(n + 1) : states'[t].document = o} = {t \in 1..n : states[t].document = o}
      BY <1>1, <1>4, <1>5, <1>7, <2>3
    <3>3. QED
      BY <2>2, <3>1, <3>2
  <2>4. {t \in 1..(n + 1) : states'[t].document = p} = {n + 1} /\ memory'[p] = n + 1
    <3>1. {t \in 1..n : states[t].document = p} = {}
      BY <1>2, <2>2
    <3>2. {t \in 1..(n + 1) : states'[t].document = p} = {n + 1}
      <4>1. states'[n + 1].document = p /\ n + 1 \in 1..(n + 1)
        BY <1>1, <1>4, <1>5
      <4>2. \A t \in 1..n : states'[t].document # p
        BY <1>5, <3>1
      <4>3. QED
        BY <1>7, <4>1, <4>2
    <3>3. QED
      BY <1>1, <1>2, <1>3, <3>2
  <2>5. QED
    BY <1>1, <2>1, <2>3, <2>4 DEF DocumentsHeld
<1>11. ViewsBuilt'
  BY <1>1, <1>3, <1>4, <1>5, <1>6, <1>7 DEF IInv, ViewsBuilt
<1>12. \A t \in 1..n : Hosted(t)' = Hosted(t) /\ InMemory(t)' = InMemory(t)
  BY <1>5 DEF Hosted, InMemory, Released
<1>13. ~Hosted(n + 1)'
  BY <1>4, <1>5 DEF Hosted
<1>14. Copied'
  <2>1. \A cell \in DOMAIN heap' : cell[2] \in 1..(n + 1) /\ ~InMemory(cell[2])'
    BY <1>1, <1>3, <1>12 DEF IInv, Copied
  <2>2. \A t \in 1..(n + 1) : Hosted(t)' =>
           \A slot \in DOMAIN states'[t].hostValues :
             IsContainer(states'[t].hostValues[slot]) => states'[t].hostValues[slot] \in DOMAIN heap'
    <3>1. ASSUME NEW t \in 1..n, Hosted(t)', NEW slot \in DOMAIN states'[t].hostValues,
                 IsContainer(states'[t].hostValues[slot])
          PROVE  states'[t].hostValues[slot] \in DOMAIN heap'
      <4>1. Hosted(t) /\ states'[t] = states[t] /\ heap' = heap
        BY <1>3, <1>5, <1>12, <3>1
      <4>2. QED
        BY <3>1, <4>1 DEF IInv, Copied
    <3>2. QED
      BY <1>7, <1>13, <3>1
  <2>3. QED
    BY <1>3, <2>1, <2>2 DEF Copied
<1>15. HeldHosted'
  BY <1>1, <1>3, <1>12 DEF IInv, HeldHosted
<1>16. QED
  BY <1>9, <1>10, <1>11, <1>14, <1>15 DEF IInv

(* The first n states, as q has them, own the documents of memory m.         *)
Owning(q, n, m) ==
  \A p \in Pointers : {t \in 1..n : q[t].document = p} = IF m[p] = 0 THEN {} ELSE {m[p]}

(* The states q replace the first n when those that are released or of a     *)
(* copy stay so, and those that change copies now stand for the next one.    *)
Replacing(q, n) ==
  /\ q = [t \in 1..n |-> q[t]]
  /\ \A t \in 1..n :
       /\ DOMAIN q[t] = Fields
       /\ q[t].document \in {states[t].document, NoPointer}
       /\ q[t].views = states[t].views
       /\ Hosted(t) => q[t].hostRoot # Nothing
       /\ q[t].hostRoot # Nothing =>
            \/ Hosted(t) /\ q[t].hostValues = states[t].hostValues
            \/ \A slot \in DOMAIN q[t].hostValues :
                 q[t].hostValues[slot] = <<RootSlot, n + 1>>

(* A plain parse, after which the states are q and one without views.        *)
LEMMA PlainStep ==
  ASSUME IInv, NEW n, n = parses, PlainParse, NEW q,
         Replacing(q, n), states' = Append(q, PlainState),
         memory' \in [Pointers -> 0..n], Owning(q, n, memory'),
         held' = [cell |-> held'.cell, of |-> held.of],
         held'.cell # Nothing => held.cell # Nothing
  PROVE  IInv'
<1>0. /\ q = [t \in 1..n |-> q[t]]
      /\ \A t \in 1..n :
           /\ DOMAIN q[t] = Fields
           /\ q[t].document \in {states[t].document, NoPointer}
           /\ q[t].views = states[t].views
           /\ Hosted(t) => q[t].hostRoot # Nothing
           /\ q[t].hostRoot # Nothing =>
                \/ Hosted(t) /\ q[t].hostValues = states[t].hostValues
                \/ \A slot \in DOMAIN q[t].hostValues :
                     q[t].hostValues[slot] = <<RootSlot, n + 1>>
  BY DEF Replacing
<1>1. /\ n \in Nat /\ DOMAIN unbuilt = 1..n
      /\ unbuilt = [t \in 1..n |-> unbuilt[t]]
      /\ RootSlot \in Slots /\ RootSlot \in Containers /\ NoPointer \notin Pointers
  BY TreeAssumption, ShapeFacts, NamedSlots DEF TreeAssumption, IInv, Shaped
<1>2. /\ parses' = n + 1 /\ unbuilt' = Append(unbuilt, {})
      /\ heap' = WithCopy(n + 1)
  BY DEF PlainParse
<1> DEFINE new == PlainState
<1>3. /\ DOMAIN new = Fields /\ new.document = NoPointer /\ new.views = {}
      /\ new.hostRoot = Nothing
  BY DEF PlainState, NewState, Fields
<1>. HIDE DEF new
<1>4. /\ states' = [t \in 1..(n + 1) |-> states'[t]] /\ states'[n + 1] = new
      /\ \A t \in 1..n : states'[t] = q[t]
  BY <1>0, <1>1, AppendFacts DEF new
<1>5. /\ unbuilt' = [t \in 1..(n + 1) |-> unbuilt'[t]]
      /\ \A t \in 1..n : unbuilt'[t] = unbuilt[t]
  BY <1>1, <1>2, AppendFacts
<1>6. \A t \in 1..(n + 1) : t \in 1..n \/ t = n + 1
  BY <1>1
<1>7. Shaped'
  <2>1. \A t \in 1..(n + 1) : /\ DOMAIN states'[t] = Fields
                              /\ states'[t].document \in Pointers \cup {NoPointer}
                              /\ states'[t].views \subseteq Slots
    BY <1>0, <1>3, <1>4, <1>6 DEF IInv, Shaped
  <2>2. memory' \in [Pointers -> 0..(n + 1)]
    BY <1>1
  <2>3. QED
    BY <1>1, <1>2, <1>4, <1>5, <2>1, <2>2 DEF Shaped
<1>8. DocumentsHeld'
  <2>1. DOMAIN states' = 1..(n + 1)
    BY <1>4
  <2>2. ASSUME NEW p \in Pointers
        PROVE  {t \in 1..(n + 1) : states'[t].document = p} = {t \in 1..n : q[t].document = p}
    BY <1>1, <1>3, <1>4, <1>6
  <2>3. QED
    BY <2>1, <2>2 DEF DocumentsHeld, Owning
<1>9. ViewsBuilt'
  <2>1. \A t \in 1..n : states'[t].views \cap unbuilt'[t] = {}
    <3>1. ASSUME NEW t \in 1..n
          PROVE  states'[t].views = states[t].views /\ unbuilt'[t] = unbuilt[t]
      BY <1>0, <1>4, <1>5
    <3>2. \A t \in 1..n : states[t].views \cap unbuilt[t] = {}
      BY DEF IInv, ViewsBuilt
    <3>3. QED
      BY <3>1, <3>2
  <2>2. states'[n + 1].views \cap unbuilt'[n + 1] = {}
    BY <1>3, <1>4
  <2>3. QED
    BY <1>2, <1>6, <2>1, <2>2 DEF ViewsBuilt
<1>10. \A t \in 1..n : /\ Hosted(t) => Hosted(t)'
                       /\ InMemory(t)' => InMemory(t)
  BY <1>0, <1>4 DEF Hosted, InMemory, Released
<1>11. ~Hosted(n + 1)' /\ ~InMemory(n + 1)'
  BY <1>3, <1>4 DEF Hosted, InMemory, Released
<1>12. /\ DOMAIN heap \subseteq DOMAIN heap' /\ DOMAIN HostCopy(n + 1) \subseteq DOMAIN heap'
       /\ \A cell \in DOMAIN heap' \ DOMAIN heap : cell[2] = n + 1
  <2>1. DOMAIN heap' = DOMAIN HostCopy(n + 1) \cup DOMAIN heap
    BY <1>2, CopyOver
  <2>2. QED
    BY <2>1, CopyFacts
<1>13. Copied'
  <2>1. \A cell \in DOMAIN heap' : cell[2] \in 1..(n + 1) /\ ~InMemory(cell[2])'
    <3>1. ASSUME NEW cell \in DOMAIN heap PROVE cell[2] \in 1..(n + 1) /\ ~InMemory(cell[2])'
      BY <1>1, <1>10 DEF IInv, Copied
    <3>2. ASSUME NEW cell \in DOMAIN heap' \ DOMAIN heap
          PROVE  cell[2] \in 1..(n + 1) /\ ~InMemory(cell[2])'
      <4>1. cell[2] = n + 1 /\ n + 1 \in 1..(n + 1)
        BY <1>1, <1>12
      <4>2. QED
        BY <1>11, <4>1
    <3>3. QED
      BY <3>1, <3>2
  <2>2. ASSUME NEW t \in 1..n, Hosted(t)', NEW slot \in DOMAIN states'[t].hostValues,
               IsContainer(states'[t].hostValues[slot])
        PROVE  states'[t].hostValues[slot] \in DOMAIN heap'
    <3>1. states'[t] = q[t] /\ q[t].hostRoot # Nothing
      BY <1>4, <2>2 DEF Hosted
    <3>2. CASE Hosted(t) /\ q[t].hostValues = states[t].hostValues
      <4>1. states[t].hostValues[slot] \in DOMAIN heap
        BY <2>2, <3>1, <3>2 DEF IInv, Copied
      <4>2. QED
        BY <1>12, <3>1, <3>2, <4>1
    <3>3. CASE \A other \in DOMAIN q[t].hostValues : q[t].hostValues[other] = <<RootSlot, n + 1>>
      <4>1. <<RootSlot, n + 1>> \in DOMAIN HostCopy(n + 1)
        BY <1>1, CopyFacts
      <4>2. QED
        BY <1>12, <2>2, <3>1, <3>3, <4>1
    <3>4. QED
      BY <1>0, <3>1, <3>2, <3>3
  <2>3. QED
    BY <1>2, <1>6, <1>11, <2>1, <2>2 DEF Copied
<1>14. HeldHosted'
  <2>1. held'.cell # Nothing => held.of \in 1..(n + 1) /\ Hosted(held.of)'
    BY <1>1, <1>10 DEF IInv, HeldHosted
  <2>2. held'.of = held.of
    BY <1>1
  <2>3. QED
    BY <1>2, <2>1, <2>2 DEF HeldHosted
<1>15. QED
  BY <1>7, <1>8, <1>9, <1>13, <1>14 DEF IInv

LEMMA ParseIntoViewInv ==
  ASSUME IInv, NEW s \in DOMAIN states, NEW slot \in Views(s), ParseIntoView(s, slot)
  PROVE  IInv'
<1> SUFFICES ASSUME NEW n, n = parses PROVE IInv'
  OBVIOUS
<1> DEFINE top == <<RootSlot, n + 1>>
           r == [states[s] EXCEPT !.document = NoPointer, !.hostRoot = top,
                                  !.hostValues = [only \in {slot} |-> top],
                                  !.serialized = NoText]
           q == [states EXCEPT ![s] = r]
<1>1. /\ n \in Nat /\ s \in 1..n /\ DOMAIN states = 1..n
      /\ \A t \in 1..n : DOMAIN states[t] = Fields
  BY ShapeFacts DEF IInv, Shaped
<1>2. PlainParse /\ states' = Append(q, PlainState)
      /\ held' = held /\ memory' = Release(memory, states[s].document)
  BY DEF ParseIntoView, PlainParse
<1>3. /\ DOMAIN r = Fields /\ r.document = NoPointer /\ r.views = states[s].views
      /\ r.hostRoot = top /\ r.hostValues = [only \in {slot} |-> top]
  BY <1>1 DEF Fields
<1>4. top # Nothing
  <2>1. top[2] # 0
    BY <1>1
  <2>2. QED
    BY <2>1 DEF Nothing
<1>. HIDE DEF r
<1>5. /\ q = [t \in 1..n |-> q[t]] /\ q[s] = r
      /\ \A t \in 1..n : t # s => q[t] = states[t]
  BY <1>1
<1>. HIDE DEF q, top
<1>6. /\ memory' \in [Pointers -> 0..n]
      /\ Owning(q, n, memory')
  <2>1. q[s].document = NoPointer /\ \A t \in 1..parses : t # s => q[t].document = states[t].document
    BY <1>3, <1>5
  <2>2. QED
    BY <1>1, <1>2, <2>1, OwnersReleased DEF Owning
<1>7. \A t \in 1..n : /\ DOMAIN q[t] = Fields
                      /\ q[t].document \in {states[t].document, NoPointer}
                      /\ q[t].views = states[t].views
  BY <1>1, <1>3, <1>5
<1>8. \A t \in 1..n : Hosted(t) => q[t].hostRoot # Nothing
  BY <1>3, <1>4, <1>5 DEF Hosted
<1>9. \A t \in 1..n : q[t].hostRoot # Nothing =>
           \/ Hosted(t) /\ q[t].hostValues = states[t].hostValues
           \/ \A other \in DOMAIN q[t].hostValues : q[t].hostValues[other] = <<RootSlot, n + 1>>
  <2>1. \A other \in DOMAIN q[s].hostValues : q[s].hostValues[other] = <<RootSlot, n + 1>>
    BY <1>3, <1>5 DEF top
  <2>2. QED
    BY <1>5, <2>1 DEF Hosted
<1>10. held' = [cell |-> held'.cell, of |-> held.of]
  BY <1>2 DEF IInv, HeldHosted
<1>11. Replacing(q, n)
  BY <1>5, <1>7, <1>8, <1>9 DEF Replacing
<1>12. QED
  BY <1>2, <1>6, <1>10, <1>11, PlainStep

LEMMA ParseIntoHeldInv ==
  ASSUME IInv, ParseIntoHeld
  PROVE  IInv'
<1> SUFFICES ASSUME NEW n, n = parses PROVE IInv'
  OBVIOUS
<1> DEFINE q == Invalidated(held.of)
<1>1. /\ n \in Nat /\ DOMAIN states = 1..n
      /\ states = [t \in 1..n |-> states[t]]
      /\ \A t \in 1..n : DOMAIN states[t] = Fields
      /\ memory \in [Pointers -> 0..n]
      /\ Owning(states, n, memory)
  BY ShapeFacts DEF IInv, Shaped, DocumentsHeld, Owning
<1>2. /\ PlainParse /\ states' = Append(q, PlainState) /\ held.cell # Nothing
      /\ held' = [held EXCEPT !.cell = <<RootSlot, parses'>>] /\ memory' = memory
  BY DEF ParseIntoHeld
<1>3. held.of \in 1..n /\ held = [cell |-> held.cell, of |-> held.of]
  BY <1>2 DEF IInv, HeldHosted
<1>4. /\ q = [t \in 1..n |-> q[t]]
      /\ \A t \in 1..n : /\ DOMAIN q[t] = Fields /\ q[t].document = states[t].document
                         /\ q[t].views = states[t].views
                         /\ q[t].hostRoot = states[t].hostRoot
                         /\ q[t].hostValues = states[t].hostValues
  <2> DEFINE r == [states[held.of] EXCEPT !.serialized = NoText]
  <2>1. q = [states EXCEPT ![held.of] = r]
    BY <1>1, <1>3 DEF Invalidated
  <2>2. /\ DOMAIN r = Fields /\ r.document = states[held.of].document
        /\ r.views = states[held.of].views /\ r.hostRoot = states[held.of].hostRoot
        /\ r.hostValues = states[held.of].hostValues
    BY <1>1, <1>3 DEF Fields
  <2>. HIDE DEF r
  <2>3. QED
    BY <1>1, <1>3, <2>1, <2>2
<1>. HIDE DEF q
<1>5. Owning(q, n, memory')
  <2>1. \A p \in Pointers : {t \in 1..n : q[t].document = p} = {t \in 1..n : states[t].document = p}
    BY <1>4
  <2>2. QED
    BY <1>1, <1>2, <2>1 DEF Owning
<1>6. /\ held' = [cell |-> held'.cell, of |-> held.of]
      /\ held'.cell # Nothing => held.cell # Nothing
  BY <1>2, <1>3
<1>7. \A t \in 1..n : q[t].hostRoot # Nothing => Hosted(t) /\ q[t].hostValues = states[t].hostValues
  BY <1>4 DEF Hosted
<1>8. \A t \in 1..n : Hosted(t) => q[t].hostRoot # Nothing
  BY <1>4 DEF Hosted
<1>9. Replacing(q, n)
  BY <1>4, <1>7, <1>8 DEF Replacing
<1>10. QED
  BY <1>1, <1>2, <1>5, <1>6, <1>9, PlainStep

-----------------------------------------------------------------------------
LEMMA NextInv ==
  ASSUME IInv, [Next]_vars
  PROVE  IInv'
<1>1. CASE UNCHANGED vars
  <2>1. HeldHosted' /\ UNCHANGED <<memory, unbuilt, states, heap, parses>>
    BY <1>1 DEF vars, IInv, HeldHosted, Hosted
  <2>2. QED
    BY <2>1, Same
<1>2. CASE ParseRetained
  BY <1>2, ParseRetainedInv
<1>3. CASE ParseIntoHeld
  BY <1>3, ParseIntoHeldInv
<1>4. CASE HeldChild
  BY <1>4, HoldInv
<1>5. CASE WriteHeld
  BY <1>5, HostingSteps, HostingInv
<1>6. ASSUME NEW s \in DOMAIN states, NEW slot \in Views(s),
             \/ ParseIntoView(s, slot)
             \/ Child(s, slot) \/ HostChild(s, slot)
             \/ WriteView(s, slot) \/ Enumerate(s, slot)
             \/ Stringify(s, slot) \/ Dispose(s, slot)
      PROVE  IInv'
  <2>1. CASE WriteView(s, slot)
    BY <2>1, HostingSteps, HostingInv
  <2>2. CASE Enumerate(s, slot)
    BY <2>2, HostingSteps, HostingInv
  <2>3. CASE HostChild(s, slot)
    BY <2>3, HoldInv
  <2>4. QED
    BY <1>6, <2>1, <2>2, <2>3, ParseIntoViewInv, ChildInv, StringifyInv, DisposeInv
<1>7. QED
  BY <1>1, <1>2, <1>3, <1>4, <1>5, <1>6 DEF Next

THEOREM Invariance == Spec => []IInv
<1>1. Init => IInv
  BY InitInv
<1>2. IInv /\ [Next]_vars => IInv'
  BY NextInv
<1>3. QED
  BY <1>1, <1>2, PTL DEF Spec

(* A document stays in memory exactly as long as the shared state of one     *)
(* view owns it, whatever is parsed, reused, copied to the host, mutated or  *)
(* disposed, in any order (state.document of dynamicView and its users).     *)
THEOREM DocumentsKept == Spec => []DocumentsHeld
<1>1. IInv => DocumentsHeld
  BY DEF IInv
<1>2. QED
  BY <1>1, Invariance, PTL

-----------------------------------------------------------------------------
(* What a view of a document shows, in memory or in its untouched copy.      *)
Shown(s, slot) ==
  IF IsContainer(<<slot, s>>) THEN HostCopy(s)[<<slot, s>>] ELSE <<Entry("", <<slot, s>>)>>

LEMMA ReadHosted ==
  ASSUME NEW s, NEW slot, Hosted(s)
  PROVE  Reading(s, slot) = IF IsContainer(ToJS(s, slot)) THEN heap[ToJS(s, slot)]
                            ELSE <<Entry("", ToJS(s, slot))>>
BY DEF Reading

LEMMA ReadHostedNext ==
  ASSUME NEW s, NEW slot, Hosted(s)'
  PROVE  Reading(s, slot)' = IF IsContainer(ToJS(s, slot)') THEN heap'[ToJS(s, slot)']
                             ELSE <<Entry("", ToJS(s, slot)')>>
BY DEF Reading, IsContainer

(* The document of views in memory is there, and what they show is built.    *)
LEMMA ReadInMemory ==
  ASSUME IInv, NEW s \in 1..parses, NEW slot \in Views(s), InMemory(s)
  PROVE  Reading(s, slot) = Shown(s, slot)
<1>1. memory[states[s].document] = s
  <2>1. /\ states[s].document \in Pointers /\ DOMAIN states = 1..parses
    BY ShapeFacts DEF IInv, Shaped, InMemory, Released
  <2>2. {t \in DOMAIN states : states[t].document = states[s].document}
          = IF memory[states[s].document] = 0 THEN {} ELSE {memory[states[s].document]}
    BY <2>1 DEF IInv, DocumentsHeld
  <2>3. s \in {t \in DOMAIN states : states[t].document = states[s].document}
    BY <2>1
  <2>4. QED
    BY <2>2, <2>3
<1>2. slot \notin unbuilt[s]
  BY DEF IInv, ViewsBuilt, Views
<1>3. ~Hosted(s) /\ ~Released(s) /\ ToJS(s, slot) = <<slot, s>>
  BY DEF InMemory, ToJS
<1>4. QED
  BY <1>1, <1>2, <1>3 DEF Reading, Shown

LEMMA ReadInMemoryNext ==
  ASSUME IInv', NEW s \in 1..parses', NEW slot \in states'[s].views, InMemory(s)'
  PROVE  Reading(s, slot)' = Shown(s, slot)
<1>1. memory'[states'[s].document] = s
  <2>1. /\ states'[s].document \in Pointers /\ DOMAIN states' = 1..parses'
    BY DEF IInv, Shaped, InMemory, Released
  <2>2. {t \in DOMAIN states' : states'[t].document = states'[s].document}
          = IF memory'[states'[s].document] = 0 THEN {} ELSE {memory'[states'[s].document]}
    BY <2>1 DEF IInv, DocumentsHeld
  <2>3. s \in {t \in DOMAIN states' : states'[t].document = states'[s].document}
    BY <2>1
  <2>4. QED
    BY <2>2, <2>3
<1>2. slot \notin unbuilt'[s]
  BY DEF IInv, ViewsBuilt
<1>3. ~Hosted(s)' /\ ~Released(s)' /\ ToJS(s, slot)' = <<slot, s>>
  BY DEF InMemory, ToJS
<1>4. QED
  BY <1>1, <1>2, <1>3 DEF Reading, Shown, HostCopy, IsContainer

(* What a view of a host copy stands for is the host's.                      *)
LEMMA StandsFor ==
  ASSUME IInv, NEW s \in 1..parses, NEW slot, Hosted(s), IsContainer(ToJS(s, slot))
  PROVE  ToJS(s, slot) \in DOMAIN heap
<1>1. ToJS(s, slot) # Nothing
  BY NamedSlots
<1>2. slot \in DOMAIN states[s].hostValues /\ ToJS(s, slot) = states[s].hostValues[slot]
  BY <1>1 DEF ToJS
<1>3. QED
  BY <1>2 DEF IInv, Copied

(* A step that leaves the views of a state where they are, and the host      *)
(* value they stand for as it is.                                            *)
LEMMA SameReading ==
  ASSUME IInv, IInv', parses' = parses, NEW s \in 1..parses, NEW slot \in Views(s),
         slot \in states'[s].views,
         states'[s].document \in {states[s].document, NoPointer},
         states'[s].hostRoot = states[s].hostRoot,
         states'[s].hostValues = states[s].hostValues,
         Hosted(s) /\ IsContainer(ToJS(s, slot)) =>
           heap'[ToJS(s, slot)] = heap[ToJS(s, slot)]
  PROVE  Changes(s, slot) => Ended(s)
<1>1. CASE Hosted(s)
  <2>1. Hosted(s)' /\ ToJS(s, slot)' = ToJS(s, slot)
    BY <1>1 DEF Hosted, ToJS
  <2>2. Reading(s, slot)' = Reading(s, slot)
    BY <1>1, <2>1, ReadHosted, ReadHostedNext
  <2>3. QED
    BY <2>2 DEF Changes
<1>2. CASE ~Hosted(s) /\ states'[s].document = NoPointer
  BY <1>2 DEF Ended
<1>3. CASE ~Hosted(s) /\ states'[s].document # NoPointer
  <2>1. InMemory(s) /\ InMemory(s)'
    BY <1>3 DEF Hosted, InMemory, Released
  <2>2. Reading(s, slot) = Shown(s, slot)
    BY <2>1, ReadInMemory
  <2>3. Reading(s, slot)' = Shown(s, slot)
    BY <2>1, ReadInMemoryNext
  <2>4. QED
    BY <2>2, <2>3 DEF Changes
<1>4. QED
  BY <1>1, <1>2, <1>3

(* Steps that leave the host's values alone end views, or keep what they     *)
(* show.                                                                     *)
LEMMA QuietReads ==
  ASSUME IInv, IInv', NEW s \in 1..parses, NEW slot \in Views(s),
         NEW t \in DOMAIN states, NEW other \in Views(t),
         \/ Child(t, other) \/ HostChild(t, other) \/ HeldChild
         \/ Stringify(t, other) \/ Dispose(t, other)
  PROVE  Changes(s, slot) => Ended(s)
<1>1. /\ DOMAIN states = 1..parses /\ t \in 1..parses /\ slot \in states[s].views
      /\ DOMAIN states[t] = Fields
  BY ShapeFacts DEF IInv, Shaped, Views
<1>2. parses' = parses /\ heap' = heap
  BY DEF Child, HostChild, HeldChild, Stringify, Dispose
<1> DEFINE Near(r) == /\ states[t].views \subseteq r.views
                      /\ r.document \in {states[t].document, NoPointer}
                      /\ r.hostRoot = states[t].hostRoot
                      /\ r.hostValues = states[t].hostValues
<1>3. states' = states \/ \E r : Near(r) /\ states' = [states EXCEPT ![t] = r]
  <2>1. CASE HostChild(t, other) \/ HeldChild
    BY <2>1 DEF HostChild, HeldChild
  <2>2. CASE Child(t, other)
    <3>1. PICK new : states' = [states EXCEPT ![t].views = @ \cup {new}]
      BY <2>2 DEF Child
    <3> DEFINE r == [states[t] EXCEPT !.views = @ \cup {new}]
    <3>2. states' = [states EXCEPT ![t] = r]
      BY <3>1
    <3>3. Near(r)
      BY <1>1 DEF Fields
    <3>. HIDE DEF r, Near
    <3>4. QED
      BY <3>2, <3>3
  <2>3. CASE Stringify(t, other)
    <3> DEFINE r == [states[t] EXCEPT !.serialized = Stringified(t, other)]
    <3>1. states' = states \/ states' = [states EXCEPT ![t] = r]
      BY <2>3 DEF Stringify
    <3>2. Near(r)
      BY <1>1 DEF Fields
    <3>. HIDE DEF r, Near
    <3>3. QED
      BY <3>1, <3>2
  <2>4. CASE Dispose(t, other)
    <3> DEFINE r == [states[t] EXCEPT !.document = NoPointer]
    <3>1. states' = [states EXCEPT ![t] = r]
      BY <2>4 DEF Dispose
    <3>2. Near(r)
      BY <1>1 DEF Fields
    <3>. HIDE DEF r, Near
    <3>3. QED
      BY <3>1, <3>2
  <2>5. QED
    BY <2>1, <2>2, <2>3, <2>4
<1>4. /\ slot \in states'[s].views
      /\ states'[s].document \in {states[s].document, NoPointer}
      /\ states'[s].hostRoot = states[s].hostRoot
      /\ states'[s].hostValues = states[s].hostValues
  <2>1. CASE states' = states
    BY <1>1, <2>1
  <2>2. CASE \E r : Near(r) /\ states' = [states EXCEPT ![t] = r]
    <3>1. PICK r : Near(r) /\ states' = [states EXCEPT ![t] = r]
      BY <2>2
    <3>2. states'[t] = r /\ (s # t => states'[s] = states[s])
      BY <1>1, <3>1
    <3>3. QED
      BY <1>1, <3>1, <3>2
  <2>3. QED
    BY <1>3, <2>1, <2>2
<1>. HIDE DEF Near
<1>5. QED
  BY <1>2, <1>4, SameReading

(* The copy of a document is made of values that the host did not have.      *)
LEMMA EnsuredKeeps ==
  ASSUME IInv, NEW s, Hosted(s) \/ InMemory(s), NEW cell \in DOMAIN heap
  PROVE  Ensured(s).heap[cell] = heap[cell]
<1>1. CASE Hosted(s)
  BY <1>1 DEF Ensured
<1>2. CASE ~Hosted(s) /\ InMemory(s)
  <2>1. cell \notin DOMAIN HostCopy(s)
    BY <1>2, CopyFacts DEF IInv, Copied
  <2>2. Ensured(s).heap = WithCopy(s)
    BY <1>2 DEF Ensured
  <2>3. QED
    BY <2>1, <2>2, CopyOver
<1>3. QED
  BY <1>1, <1>2

(* Making the host copy of o, and a mutation through it: a view that shows   *)
(* something else stands for a container whose entries were written.         *)
LEMMA HostReads ==
  ASSUME IInv, IInv', NEW o \in 1..parses, Hosted(o) \/ InMemory(o),
         NEW r, Retexted(r, o),
         states' = [Ensured(o).states EXCEPT ![o] = r], unbuilt' = Ensured(o).unbuilt,
         DOMAIN heap' = DOMAIN Ensured(o).heap, UNCHANGED <<memory, held, parses>>,
         NEW s \in 1..parses, NEW slot \in Views(s),
         ToJS(s, slot)' \in DOMAIN heap' =>
           heap'[ToJS(s, slot)'] = Ensured(o).heap[ToJS(s, slot)']
  PROVE  Changes(s, slot) => Ended(s)
<1> DEFINE q == Ensured(o).states[o]
<1>1. /\ Hosted(o)' /\ states'[o] = r
      /\ \A t \in 1..parses : t # o => states'[t] = states[t]
  BY HostStep
<1>2. /\ q.document = states[o].document /\ q.views = states[o].views
      /\ Hosted(o) => q = states[o]
      /\ ~Hosted(o) => q.hostValues = [other \in Slots |-> <<other, o>>]
  BY EnsuredFacts
<1>3. /\ r.document = q.document /\ r.views = q.views
      /\ r.hostRoot = q.hostRoot /\ r.hostValues = q.hostValues
  BY DEF Retexted
<1>. HIDE DEF q
<1>4. slot \in states[s].views /\ slot \in Slots
  BY DEF Views, IInv, Shaped
<1>5. CASE s # o \/ Hosted(o)
  <2>1. /\ slot \in states'[s].views
        /\ states'[s].document = states[s].document
        /\ states'[s].hostRoot = states[s].hostRoot
        /\ states'[s].hostValues = states[s].hostValues
    BY <1>1, <1>2, <1>3, <1>4, <1>5
  <2>2. ASSUME Hosted(s), IsContainer(ToJS(s, slot))
        PROVE  heap'[ToJS(s, slot)] = heap[ToJS(s, slot)]
    <3>1. ToJS(s, slot)' = ToJS(s, slot)
      BY <2>1, <2>2 DEF Hosted, ToJS
    <3>2. ToJS(s, slot) \in DOMAIN heap /\ DOMAIN heap \subseteq DOMAIN heap'
      BY <2>2, StandsFor, EnsuredHeap
    <3>3. Ensured(o).heap[ToJS(s, slot)] = heap[ToJS(s, slot)]
      BY <3>2, EnsuredKeeps
    <3>4. QED
      BY <3>1, <3>2, <3>3
  <2>3. QED
    BY <2>1, <2>2, SameReading
<1>6. CASE s = o /\ ~Hosted(o)
  <2>1. Reading(s, slot) = Shown(s, slot)
    BY <1>6, ReadInMemory
  <2>2. states'[s].hostValues = [other \in Slots |-> <<other, s>>]
    BY <1>1, <1>2, <1>3, <1>6
  <2>3. ToJS(s, slot)' = <<slot, s>> /\ Hosted(s)'
    BY <1>1, <1>4, <1>6, <2>2 DEF ToJS
  <2>4. ASSUME IsContainer(<<slot, s>>)
        PROVE  heap'[<<slot, s>>] = HostCopy(s)[<<slot, s>>]
    <3>1. Ensured(o).heap = WithCopy(o)
      BY <1>6 DEF Ensured
    <3>2. <<slot, s>> \in DOMAIN HostCopy(s)
      <4>1. slot \in Containers
        BY <2>4 DEF IsContainer
      <4>2. QED
        BY <4>1, CopyFacts
    <3>3. WithCopy(s)[<<slot, s>>] = HostCopy(s)[<<slot, s>>]
      BY <3>2, CopyOver
    <3>4. QED
      BY <1>6, <2>3, <3>1, <3>2, <3>3, EnsuredHeap
  <2>5. Reading(s, slot)' = Shown(s, slot)
    BY <2>3, <2>4, ReadHostedNext DEF Shown
  <2>6. QED
    BY <2>1, <2>5 DEF Changes
<1>7. QED
  BY <1>5, <1>6

(* What a view shows after such a step differs only in the container.        *)
LEMMA HostingReads ==
  ASSUME IInv, IInv', NEW o, NEW target, Hosting(o, target),
         NEW s \in 1..parses, NEW slot \in Views(s),
         Changes(s, slot), ~Ended(s)
  PROVE  ToJS(s, slot)' = target /\ heap' # Ensured(o).heap
<1>1. PICK r : Retexted(r, o) /\ states' = [Ensured(o).states EXCEPT ![o] = r]
  BY DEF Hosting
<1>2. ~(ToJS(s, slot)' \in DOMAIN heap' =>
          heap'[ToJS(s, slot)'] = Ensured(o).heap[ToJS(s, slot)'])
  <2>1. /\ o \in 1..parses /\ (Hosted(o) \/ InMemory(o))
        /\ unbuilt' = Ensured(o).unbuilt
        /\ UNCHANGED <<memory, held, parses>>
        /\ DOMAIN heap' = DOMAIN Ensured(o).heap
    BY DEF Hosting
  <2>2. QED
    BY <1>1, <2>1, HostReads
<1>3. QED
  BY <1>2 DEF Hosting

(* What ReadsKept says of a step.                                            *)
ReadsKeptStep ==
  \A s \in DOMAIN states : \A slot \in Views(s) :
    Changes(s, slot) =>
      \/ Ended(s)
      \/ parses' # parses
      \/ /\ writes' # writes
         /\ \A t \in DOMAIN states : \A other \in Views(t) :
              Changes(t, other) /\ ~Ended(t) => ToJS(t, other)' = ToJS(s, slot)'

LEMMA HostingKeeps ==
  ASSUME IInv, IInv', NEW o, NEW target, Hosting(o, target),
         writes' # writes \/ heap' = Ensured(o).heap
  PROVE  ReadsKeptStep
<1>1. DOMAIN states = 1..parses
  BY ShapeFacts DEF IInv
<1>2. \A s \in DOMAIN states : \A slot \in Views(s) :
        Changes(s, slot) /\ ~Ended(s) => ToJS(s, slot)' = target /\ heap' # Ensured(o).heap
  BY <1>1, HostingReads
<1>3. QED
  BY <1>2 DEF ReadsKeptStep

Counted == writes \in Nat

LEMMA CountedInv == Spec => []Counted
<1>1. Init => Counted
  BY DEF Init, Counted
<1>2. Counted /\ [Next]_vars => Counted'
  <2>1. SUFFICES ASSUME writes \in Nat, [Next]_vars PROVE writes' = writes \/ writes' = writes + 1
    BY DEF Counted
  <2>2. CASE UNCHANGED vars
    BY <2>2 DEF vars
  <2>3. CASE ParseRetained \/ ParseIntoHeld \/ HeldChild \/ WriteHeld
    BY <2>3 DEF ParseRetained, ParseIntoHeld, HeldChild, WriteHeld
  <2>4. ASSUME NEW s \in DOMAIN states, NEW slot \in Views(s),
               \/ ParseIntoView(s, slot)
               \/ Child(s, slot) \/ HostChild(s, slot)
               \/ WriteView(s, slot) \/ Enumerate(s, slot)
               \/ Stringify(s, slot) \/ Dispose(s, slot)
        PROVE  writes' = writes \/ writes' = writes + 1
    BY <2>4 DEF ParseIntoView, Child, HostChild, WriteView, Enumerate, Stringify, Dispose
  <2>5. QED
    BY <2>1, <2>2, <2>3, <2>4 DEF Next
<1>3. QED
  BY <1>1, <1>2, PTL DEF Spec

LEMMA NextReads ==
  ASSUME IInv, IInv', Counted, Next
  PROVE  ReadsKeptStep
<1>1. parses \in Nat /\ DOMAIN states = 1..parses
  BY ShapeFacts DEF IInv
<1>2. ASSUME parses' = parses + 1 PROVE ReadsKeptStep
  BY <1>1, <1>2 DEF ReadsKeptStep
<1>3. ASSUME \A s \in DOMAIN states : \A slot \in Views(s) : Changes(s, slot) => Ended(s)
      PROVE  ReadsKeptStep
  BY <1>3 DEF ReadsKeptStep
<1>4. CASE ParseRetained \/ ParseIntoHeld
  BY <1>2, <1>4 DEF ParseRetained, ParseIntoHeld, PlainParse
<1>5. CASE HeldChild
  BY <1>1, <1>3, <1>5, QuietReads
<1>6. CASE WriteHeld
  <2>1. writes' # writes
    BY <1>6 DEF WriteHeld, Counted
  <2>2. QED
    BY <1>6, <2>1, HostingSteps, HostingKeeps
<1>7. ASSUME NEW o \in DOMAIN states, NEW slot \in Views(o),
             \/ ParseIntoView(o, slot)
             \/ Child(o, slot) \/ HostChild(o, slot)
             \/ WriteView(o, slot) \/ Enumerate(o, slot)
             \/ Stringify(o, slot) \/ Dispose(o, slot)
      PROVE  ReadsKeptStep
  <2>1. CASE ParseIntoView(o, slot)
    BY <1>2, <2>1 DEF ParseIntoView, PlainParse
  <2>2. CASE Child(o, slot) \/ HostChild(o, slot) \/ Stringify(o, slot) \/ Dispose(o, slot)
    BY <1>1, <1>3, <2>2, QuietReads
  <2>3. CASE WriteView(o, slot)
    <3>1. writes' # writes
      BY <2>3 DEF WriteView, Counted
    <3>2. QED
      BY <2>3, <3>1, HostingSteps, HostingKeeps
  <2>4. CASE Enumerate(o, slot)
    BY <2>4, HostingSteps, HostingKeeps
  <2>5. QED
    BY <1>7, <2>1, <2>2, <2>3, <2>4
<1>8. QED
  BY <1>4, <1>5, <1>6, <1>7 DEF Next

(* What a view shows changes only when its own container is mutated: the     *)
(* move to the host copy, the building of deferred containers, the release   *)
(* of a document that has a copy and the mutation of another container keep  *)
(* it (ensureDynamicHostState and dynamicView).                              *)
THEOREM ReadsStay == Spec => ReadsKept
<1>1. IInv /\ IInv' /\ Counted /\ [Next]_vars => [ReadFrom' # ReadFrom => ReadsKeptStep]_vars
  BY NextReads
<1>2. Spec => [][ReadFrom' # ReadFrom => ReadsKeptStep]_vars
  BY <1>1, Invariance, CountedInv, PTL DEF Spec
<1>3. QED
  BY <1>2 DEF ReadsKept, ReadsKeptStep

-----------------------------------------------------------------------------
(* What the text of a container asks for: the container, and the containers  *)
(* it is inside.  The further inside, the lighter.                           *)
Weight(D, p) == 2 * Cardinality(D \ p[2]) + (IF p[1] \in p[2] THEN 1 ELSE 0)

(* The containers of R hold no container that is not in R.                   *)
Closed(objects, R) ==
  \A c \in R : \A i \in DOMAIN objects[c] :
    IsContainer(objects[c][i].cell) => objects[c][i].cell \in R

(* A weight is a number.                                                     *)
LEMMA Weighed ==
  ASSUME NEW D, IsFiniteSet(D), NEW I \in SUBSET D, NEW c \in D
  PROVE  Weight(D, <<c, I>>) \in 0..(2 * Cardinality(D) + 1) /\ Cardinality(D) \in Nat
<1>1. D \ I \in SUBSET D
  OBVIOUS
<1>2. /\ Cardinality(D) \in Nat /\ Cardinality(D \ I) \in Nat
      /\ Cardinality(D \ I) <= Cardinality(D)
  BY <1>1, FS_Subset, FS_CardinalityType
<1>3. QED
  BY <1>2 DEF Weight

(* What a container holds is lighter, one level further inside.              *)
LEMMA Lighter ==
  ASSUME NEW D, IsFiniteSet(D), NEW I \in SUBSET D, NEW c \in D,
         NEW d \in D, d \notin I \cup {c}
  PROVE  Weight(D, <<d, I \cup {c}>>) < Weight(D, <<c, I>>)
<1> DEFINE J == D \ I
<1>1. IsFiniteSet(J)
  BY FS_Subset
<1>2. Cardinality(J) \in Nat
  BY <1>1, FS_CardinalityType
<1>3. D \ (I \cup {c}) = J \ {c}
  OBVIOUS
<1>4. Cardinality(J \ {c}) = IF c \in J THEN Cardinality(J) - 1 ELSE Cardinality(J)
  BY <1>1, FS_RemoveElement
<1>5. Weight(D, <<d, I \cup {c}>>) = 2 * Cardinality(J \ {c})
  BY <1>3, <1>2, <1>4 DEF Weight
<1>6. Weight(D, <<c, I>>) = 2 * Cardinality(J) + (IF c \in I THEN 1 ELSE 0)
  BY DEF Weight
<1>7. QED
  BY <1>2, <1>4, <1>5, <1>6

(* A set of numbers that is not empty has a least one.                       *)
LEMMA LeastNumber ==
  ASSUME NEW T, T \subseteq Nat, T # {}
  PROVE  \E n \in T : \A m \in T : ~(m < n)
<1>1. PICK n \in T : \A m \in T : ~(<<m, n>> \in OpToRel(<, Nat))
  BY WFMin, NatLessThanWellFounded
<1>2. QED
  BY <1>1 DEF OpToRel

(* A bracketed text depends on the entries and on the texts inside.          *)
LEMMA BracketedSame ==
  ASSUME NEW f, NEW g, NEW t, NEW u, NEW c, NEW I, f[c] = g[c],
         \A i \in DOMAIN f[c] :
           IsContainer(f[c][i].cell) /\ f[c][i].cell \notin I \cup {c} =>
             t[<<f[c][i].cell, I \cup {c}>>] = u[<<f[c][i].cell, I \cup {c}>>]
  PROVE  Bracketed(f, t, c, I) = Bracketed(g, u, c, I)
<1> DEFINE J == I \cup {c}
<1>1. \A i \in DOMAIN f[c] : Part(t, f[c][i].cell, J) = Part(u, f[c][i].cell, J)
  BY DEF Part
<1>2. [i \in DOMAIN f[c] |-> <<<<f[c][i].key, 0>>>> \o Part(t, f[c][i].cell, J)]
        = [i \in DOMAIN g[c] |-> <<<<g[c][i].key, 0>>>> \o Part(u, g[c][i].cell, J)]
  BY <1>1
<1>3. QED
  BY <1>2 DEF Bracketed

(* The texts of the containers of f, each made of those it holds.            *)
IsTextOf(t, f) ==
  t = [p \in (DOMAIN f) \X (SUBSET DOMAIN f) |-> Bracketed(f, t, p[1], p[2])]
TextsOf(f) == CHOOSE t : IsTextOf(t, f)

(* Every container of a finite, closed set of them has a text.               *)
LEMMA TextExists ==
  ASSUME NEW f, IsFiniteSet(DOMAIN f), Closed(f, DOMAIN f)
  PROVE  IsTextOf(TextsOf(f), f)
<1> DEFINE D == DOMAIN f
           Light(n) == {p \in D \X SUBSET D : Weight(D, p) < n}
           Good(n) == \E t : t = [p \in Light(n) |-> Bracketed(f, t, p[1], p[2])]
<1>1. ASSUME NEW n \in Nat, \A m \in Nat : m < n => Good(m)
      PROVE  Good(n)
  <2>1. CASE n = 0
    <3>1. \A p \in D \X SUBSET D : Weight(D, p) \in Nat
      BY Weighed
    <3>2. Light(n) = {}
      BY <2>1, <3>1
    <3>. HIDE DEF Light
    <3>3. [p \in Light(n) |-> 0]
            = [p \in Light(n) |-> Bracketed(f, [p2 \in Light(n) |-> 0], p[1], p[2])]
      BY <3>2
    <3>4. QED
      BY <3>3
  <2>2. CASE n # 0
    <3>1. n - 1 \in Nat /\ n - 1 < n
      BY <2>2
    <3>2. PICK t : t = [p \in Light(n - 1) |-> Bracketed(f, t, p[1], p[2])]
      BY <1>1, <3>1
    <3> DEFINE h == [p \in Light(n) |-> Bracketed(f, t, p[1], p[2])]
    <3>3. ASSUME NEW p \in Light(n)
          PROVE  Bracketed(f, h, p[1], p[2]) = Bracketed(f, t, p[1], p[2])
      <4> DEFINE c == p[1]
                 I == p[2]
      <4>1. c \in D /\ I \in SUBSET D /\ p = <<c, I>> /\ Weight(D, p) < n
        OBVIOUS
      <4>2. ASSUME NEW i \in DOMAIN f[c], IsContainer(f[c][i].cell),
                   f[c][i].cell \notin I \cup {c}
            PROVE  h[<<f[c][i].cell, I \cup {c}>>] = t[<<f[c][i].cell, I \cup {c}>>]
        <5> DEFINE q == <<f[c][i].cell, I \cup {c}>>
        <5>1. f[c][i].cell \in D /\ I \cup {c} \in SUBSET D
          BY <4>1, <4>2 DEF Closed
        <5>2. /\ Weight(D, q) < Weight(D, p) /\ Weight(D, q) \in Nat /\ Weight(D, p) \in Nat
          BY <4>1, <4>2, <5>1, Lighter, Weighed
        <5>3. q \in Light(n - 1) /\ q \in Light(n)
          BY <4>1, <5>1, <5>2
        <5>. HIDE DEF q, Light
        <5>4. h[q] = Bracketed(f, t, q[1], q[2]) /\ t[q] = Bracketed(f, t, q[1], q[2])
          BY <3>2, <5>3
        <5>5. QED
          BY <5>4 DEF q
      <4>. HIDE DEF h, c, I
      <4>3. Bracketed(f, h, c, I) = Bracketed(f, t, c, I)
        BY <4>2, BracketedSame
      <4>4. QED
        BY <4>3 DEF c, I
    <3>4. h = [p \in Light(n) |-> Bracketed(f, h, p[1], p[2])]
      BY <3>3
    <3>5. QED
      BY <3>4
  <2>3. QED
    BY <2>1, <2>2
<1>2. ASSUME NEW n \in Nat PROVE Good(n)
  <2> DEFINE Bad == {m \in Nat : ~Good(m)}
  <2>. HIDE DEF Good
  <2>1. SUFFICES ASSUME Bad # {} PROVE FALSE
    OBVIOUS
  <2>2. PICK m \in Bad : \A k \in Bad : ~(k < m)
    BY <2>1, LeastNumber
  <2>3. QED
    BY <1>1, <2>2
<1> DEFINE top == 2 * Cardinality(D) + 2
<1>3. Cardinality(D) \in Nat
  BY FS_CardinalityType
<1>4. \A p \in D \X SUBSET D : Weight(D, p) < top
  <2>1. \A p \in D \X SUBSET D : Weight(D, p) \in 0..(2 * Cardinality(D) + 1)
    BY Weighed
  <2>2. QED
    BY <1>3, <2>1
<1>5. Light(top) = D \X SUBSET D
  BY <1>4
<1>6. Good(top)
  <2>1. top \in Nat
    BY <1>3
  <2>. HIDE DEF Good, top
  <2>2. QED
    BY <1>2, <2>1
<1>. HIDE DEF Light, top
<1>7. \E t : IsTextOf(t, f)
  BY <1>5, <1>6 DEF IsTextOf
<1>8. QED
  BY <1>7 DEF TextsOf

(* A text is that of the containers when there is one.                       *)
LEMMA TextDef ==
  ASSUME NEW f, NEW c, NEW I
  PROVE  Text(f, c, I) = Part(TextsOf(f), c, I)
BY DEF Text, TextsOf, IsTextOf

(* The text of a value is that of what it holds, whatever else there is.     *)
LEMMA TextLocal ==
  ASSUME NEW f, IsFiniteSet(DOMAIN f), Closed(f, DOMAIN f),
         NEW g, IsFiniteSet(DOMAIN g), Closed(g, DOMAIN g),
         NEW R, R \subseteq DOMAIN f, R \subseteq DOMAIN g, Closed(f, R),
         \A c \in R : f[c] = g[c],
         NEW root \in R
  PROVE  Text(f, root, {}) = Text(g, root, {})
<1> DEFINE t == TextsOf(f)
           u == TextsOf(g)
<1>1. IsTextOf(t, f) /\ IsTextOf(u, g)
  BY TextExists
<1>. HIDE DEF t, u
<1>2. ASSUME NEW c \in R, NEW I \in SUBSET R
      PROVE  t[<<c, I>>] = Bracketed(f, t, c, I) /\ u[<<c, I>>] = Bracketed(g, u, c, I)
  BY <1>1 DEF IsTextOf
<1>3. IsFiniteSet(R)
  BY FS_Subset
<1> DEFINE Differ == {p \in R \X SUBSET R : t[p] # u[p]}
           Weights == {Weight(R, p) : p \in Differ}
<1>4. Differ = {}
  <2>1. SUFFICES ASSUME Differ # {} PROVE FALSE
    OBVIOUS
  <2>2. \A p \in R \X SUBSET R : Weight(R, p) \in Nat
    BY <1>3, Weighed
  <2>3. Weights \subseteq Nat /\ Weights # {}
    BY <2>1, <2>2
  <2>4. PICK n \in Weights : \A m \in Weights : ~(m < n)
    <3>. HIDE DEF Weights
    <3>1. QED
      BY <2>3, LeastNumber
  <2>5. PICK p \in Differ : n = Weight(R, p)
    BY <2>4
  <2>6. PICK c \in R, I \in SUBSET R : p = <<c, I>>
    BY <2>5
  <2>7. ASSUME NEW i \in DOMAIN f[c], IsContainer(f[c][i].cell), f[c][i].cell \notin I \cup {c}
        PROVE  t[<<f[c][i].cell, I \cup {c}>>] = u[<<f[c][i].cell, I \cup {c}>>]
    <3> DEFINE q == <<f[c][i].cell, I \cup {c}>>
    <3>1. f[c][i].cell \in R /\ I \cup {c} \in SUBSET R
      BY <2>7 DEF Closed
    <3>2. Weight(R, q) < n
      BY <1>3, <2>5, <2>6, <2>7, <3>1, Lighter
    <3>3. q \in R \X SUBSET R
      BY <3>1
    <3>. HIDE DEF q
    <3>4. q \notin Differ
      BY <2>4, <3>2
    <3>5. QED
      BY <3>3, <3>4 DEF q
  <2>8. Bracketed(f, t, c, I) = Bracketed(g, u, c, I)
    BY <2>7, BracketedSame
  <2>9. QED
    BY <1>2, <2>5, <2>6, <2>8
<1>5. t[<<root, {}>>] = u[<<root, {}>>]
  BY <1>4
<1>6. Part(t, root, {}) = Part(u, root, {})
  BY <1>5 DEF Part
<1>7. QED
  BY <1>6, TextDef DEF t, u

-----------------------------------------------------------------------------
(* q is a sequence, of whatever it holds.                                    *)
IsSequence(q) == q \in Seq({q[i] : i \in DOMAIN q})

(* The containers in a container are there, and of the same owner.           *)
Within(objects, cell, own) ==
  \A i \in DOMAIN objects[cell] :
    LET part == objects[cell][i].cell
    IN IsContainer(part) => part \in DOMAIN objects /\ own[part[2]] = own[cell[2]]

(* Host values of n documents, each within the views that own it.            *)
Partitioned(objects, n, own) ==
  /\ objects = [cell \in DOMAIN objects |-> objects[cell]]
  /\ DOMAIN objects \subseteq Containers \X (1..n)
  /\ \A cell \in DOMAIN objects : IsSequence(objects[cell]) /\ Within(objects, cell, own)

(* The state r has the host copy of what the views of s stand for.           *)
CopyOf(r, s, objects, own) ==
  /\ r.hostRoot \in DOMAIN objects
  /\ own[r.hostRoot[2]] = s
  /\ \A slot \in DOMAIN r.hostValues :
       LET cell == r.hostValues[slot]
       IN /\ IsContainer(cell) => own[cell[2]] = s
          /\ slot = RootSlot => cell = r.hostRoot

(* Each document in memory, each host copy and the wrapper that is held are  *)
(* of the views that own them.                                               *)
Owned(own) ==
  /\ \A s \in 1..parses : InMemory(s) => own[s] = s
  /\ \A s \in 1..parses : Hosted(s) => CopyOf(states[s], s, heap, own)
  /\ IsContainer(held.cell) => held.cell \in DOMAIN heap /\ own[held.cell[2]] = held.of

(* The text that stringify would make anew of the root of s.                 *)
Remade(s) ==
  IF Hosted(s) THEN Text(heap, states[s].hostRoot, {}) ELSE Text(HostCopy(s), <<RootSlot, s>>, {})
(* The text kept of a root is the one that it would make anew.               *)
TextsKept ==
  \A s \in 1..parses :
    (Hosted(s) \/ InMemory(s)) /\ states[s].serialized # NoText => states[s].serialized = Remade(s)

(* own names the state whose views own each document: its own, or, when it   *)
(* was parsed into a value that was there, the state of that value.          *)
TInv(own) ==
  /\ own \in [1..parses -> 1..parses]
  /\ Partitioned(heap, parses, own)
  /\ Owned(own)
  /\ TextsKept

-----------------------------------------------------------------------------
(* The host values of one owner hold no others, and are finitely many.       *)
LEMMA PartitionedFacts ==
  ASSUME NEW n \in Nat, NEW objects, NEW own, Partitioned(objects, n, own)
  PROVE  /\ IsFiniteSet(DOMAIN objects)
         /\ Closed(objects, DOMAIN objects)
         /\ \A s : Closed(objects, {cell \in DOMAIN objects : own[cell[2]] = s})
         /\ \A cell \in DOMAIN objects : IsContainer(cell)
<1>1. IsFiniteSet(Containers)
  BY TreeAssumption, FS_Subset DEF TreeAssumption
<1>2. IsFiniteSet(1..n)
  BY FS_Interval
<1>3. IsFiniteSet(Containers \X (1..n))
  BY <1>1, <1>2, FS_Product
<1>4. IsFiniteSet(DOMAIN objects)
  BY <1>3, FS_Subset DEF Partitioned
<1>5. ASSUME NEW s, NEW cell \in DOMAIN objects, NEW i \in DOMAIN objects[cell],
             IsContainer(objects[cell][i].cell)
      PROVE  /\ objects[cell][i].cell \in DOMAIN objects
             /\ own[objects[cell][i].cell[2]] = own[cell[2]]
  BY <1>5 DEF Partitioned, Within
<1>6. \A cell \in DOMAIN objects : IsContainer(cell)
  BY DEF Partitioned, IsContainer
<1>7. QED
  BY <1>4, <1>5, <1>6 DEF Closed

(* Sequences by what they hold.                                              *)
LEMMA SequenceDomain ==
  ASSUME NEW q, IsSequence(q)
  PROVE  /\ Len(q) \in Nat /\ DOMAIN q = 1..Len(q)
         /\ q = [i \in 1..Len(q) |-> q[i]]
         /\ \A S : {q[i] : i \in DOMAIN q} \subseteq S => q \in Seq(S)
<1>1. q \in Seq({q[i] : i \in DOMAIN q})
  BY DEF IsSequence
<1>2. /\ Len(q) \in Nat /\ DOMAIN q = 1..Len(q)
      /\ q \in [1..Len(q) -> {q[i] : i \in DOMAIN q}]
  BY <1>1, LenProperties
<1>3. QED
  BY <1>1, <1>2, SeqMonotonic

LEMMA SequenceOf ==
  ASSUME NEW S, NEW q \in Seq(S)
  PROVE  IsSequence(q) /\ \A i \in DOMAIN q : q[i] \in S
<1>1. /\ Len(q) \in Nat /\ DOMAIN q = 1..Len(q)
      /\ q \in [1..Len(q) -> S]
  BY LenProperties
<1>2. q \in [1..Len(q) -> {q[i] : i \in DOMAIN q}]
  BY <1>1
<1>3. q \in Seq({q[i] : i \in DOMAIN q})
  BY <1>1, <1>2
<1>4. QED
  BY <1>1, <1>3 DEF IsSequence

(* The copy of a document holds that document only.                          *)
LEMMA CopyPartitioned ==
  ASSUME NEW n \in Nat, NEW d \in 1..n, NEW own, NEW cell \in DOMAIN HostCopy(d)
  PROVE  /\ cell \in Containers \X (1..n) /\ cell[2] = d
         /\ IsSequence(HostCopy(d)[cell])
         /\ \A i \in DOMAIN HostCopy(d)[cell] :
              LET part == HostCopy(d)[cell][i].cell
              IN IsContainer(part) => part \in DOMAIN HostCopy(d) /\ part[2] = d
<1>1. DOMAIN HostCopy(d) = Containers \X {d}
  BY CopyFacts
<1>2. cell[1] \in Containers /\ cell[2] = d /\ cell = <<cell[1], cell[2]>>
  BY <1>1
<1> DEFINE row == Tree[cell[1]]
           e(i) == Entry(row[i].key, <<row[i].slot, d>>)
<1>3. HostCopy(d)[cell] = [i \in DOMAIN row |-> e(i)]
  BY <1>1 DEF HostCopy
<1>4. row \in Seq([key : STRING, slot : Slots])
  BY <1>2, TreeAssumption DEF TreeAssumption
<1>5. Len(row) \in Nat /\ DOMAIN row = 1..Len(row)
  BY <1>4, LenProperties
<1>. HIDE DEF row
<1>6. IsSequence(HostCopy(d)[cell])
  <2> DEFINE q == [i \in 1..Len(row) |-> e(i)]
  <2>1. HostCopy(d)[cell] = q
    BY <1>3, <1>5
  <2>2. q \in [1..Len(row) -> {q[i] : i \in DOMAIN q}]
    BY <1>5
  <2>. HIDE DEF q
  <2>3. QED
    BY <1>5, <2>1, <2>2 DEF IsSequence
<1>7. ASSUME NEW i \in DOMAIN HostCopy(d)[cell], IsContainer(HostCopy(d)[cell][i].cell)
      PROVE  /\ HostCopy(d)[cell][i].cell \in DOMAIN HostCopy(d)
             /\ HostCopy(d)[cell][i].cell[2] = d
  <2>1. HostCopy(d)[cell][i].cell = <<row[i].slot, d>>
    BY <1>3, <1>7 DEF Entry
  <2>2. row[i].slot \in Containers
    BY <1>7, <2>1 DEF IsContainer
  <2>3. QED
    BY <1>1, <2>1, <2>2
<1>8. QED
  BY <1>2, <1>6, <1>7

(* What the heap becomes when document d is copied into it: d is owned by s, *)
(* and the host has no value of d.                                           *)
LEMMA CopiedPartitioned ==
  ASSUME NEW m \in Nat, NEW n \in m..(m + 1), NEW own, Partitioned(heap, m, own),
         NEW d \in 1..n, NEW over, \A t \in 1..m : over[t] = own[t],
         DOMAIN heap \cap DOMAIN HostCopy(d) = {}
  PROVE  /\ Partitioned(WithCopy(d), n, over)
         /\ \A cell \in DOMAIN heap : cell \in DOMAIN WithCopy(d) /\ WithCopy(d)[cell] = heap[cell]
<1> DEFINE hp == WithCopy(d)
<1>1. /\ DOMAIN hp = DOMAIN HostCopy(d) \cup DOMAIN heap
      /\ \A cell \in DOMAIN HostCopy(d) : hp[cell] = HostCopy(d)[cell]
      /\ \A cell \in DOMAIN heap : hp[cell] = heap[cell]
  BY CopyOver
<1>. HIDE DEF hp
<1>2. ASSUME NEW cell \in DOMAIN HostCopy(d)
      PROVE  /\ cell \in Containers \X (1..n)
             /\ IsSequence(hp[cell])
             /\ Within(hp, cell, over)
  <2>1. /\ cell \in Containers \X (1..n) /\ cell[2] = d
        /\ IsSequence(HostCopy(d)[cell])
        /\ \A i \in DOMAIN HostCopy(d)[cell] :
             LET part == HostCopy(d)[cell][i].cell
             IN IsContainer(part) => part \in DOMAIN HostCopy(d) /\ part[2] = d
    BY CopyPartitioned
  <2>2. hp[cell] = HostCopy(d)[cell] /\ DOMAIN HostCopy(d) \subseteq DOMAIN hp
    BY <1>1
  <2>3. Within(hp, cell, over)
    BY <2>1, <2>2 DEF Within
  <2>4. QED
    BY <2>1, <2>2, <2>3
<1>3. ASSUME NEW cell \in DOMAIN heap
      PROVE  /\ cell \in Containers \X (1..n)
             /\ IsSequence(hp[cell])
             /\ Within(hp, cell, over)
  <2>1. cell \in Containers \X (1..m) /\ IsSequence(heap[cell]) /\ Within(heap, cell, own)
    BY DEF Partitioned
  <2>2. hp[cell] = heap[cell] /\ DOMAIN heap \subseteq DOMAIN hp
    BY <1>1
  <2>3. ASSUME NEW i \in DOMAIN hp[cell], IsContainer(hp[cell][i].cell)
        PROVE  hp[cell][i].cell \in DOMAIN hp /\ over[hp[cell][i].cell[2]] = over[cell[2]]
    <3> DEFINE part == heap[cell][i].cell
    <3>1. part \in DOMAIN heap /\ own[part[2]] = own[cell[2]]
      BY <2>1, <2>2, <2>3 DEF Within
    <3>2. part[2] \in 1..m /\ cell[2] \in 1..m
      BY <2>1, <3>1 DEF Partitioned
    <3>. HIDE DEF part
    <3>3. over[part[2]] = over[cell[2]]
      BY <3>1, <3>2
    <3>4. QED
      BY <2>2, <3>1, <3>3 DEF part
  <2>4. QED
    BY <2>1, <2>2, <2>3 DEF Within
<1>4. Partitioned(hp, n, over)
  <2>1. hp = [cell \in DOMAIN hp |-> hp[cell]]
    BY DEF hp, WithCopy
  <2>2. QED
    BY <1>1, <1>2, <1>3, <2>1 DEF Partitioned
<1>5. QED
  BY <1>1, <1>4 DEF hp

(* The same for the document of the next parse.                              *)
LEMMA CopiedNext ==
  ASSUME NEW n \in Nat, NEW own, Partitioned(heap, n, own),
         NEW over, \A t \in 1..n : over[t] = own[t],
         DOMAIN heap \cap DOMAIN HostCopy(n + 1) = {}
  PROVE  /\ Partitioned(WithCopy(n + 1), n + 1, over)
         /\ \A cell \in DOMAIN heap :
              cell \in DOMAIN WithCopy(n + 1) /\ WithCopy(n + 1)[cell] = heap[cell]
<1>1. n + 1 \in n..(n + 1) /\ n + 1 \in 1..(n + 1)
  OBVIOUS
<1>2. QED
  BY <1>1, CopiedPartitioned

(* A copy of a document in memory is of the views that own it.               *)
LEMMA EnsuredOwned ==
  ASSUME IInv, NEW own, TInv(own), NEW o \in 1..parses, Hosted(o) \/ InMemory(o),
         NEW hp, hp = Ensured(o).heap, NEW q, q = Ensured(o).states[o]
  PROVE  /\ Partitioned(hp, parses, own)
         /\ \A cell \in DOMAIN heap : cell \in DOMAIN hp /\ hp[cell] = heap[cell]
         /\ CopyOf(q, o, hp, own)
         /\ q.serialized # NoText => q.serialized = Text(hp, q.hostRoot, {})
<1>1. /\ parses \in Nat /\ own \in [1..parses -> 1..parses]
      /\ Partitioned(heap, parses, own) /\ Owned(own) /\ TextsKept
      /\ DOMAIN states = 1..parses /\ DOMAIN states[o] = Fields
  BY ShapeFacts DEF IInv, TInv, Shaped
<1>2. CASE Hosted(o)
  <2>1. hp = heap /\ q = states[o]
    BY <1>2 DEF Ensured
  <2>2. CopyOf(states[o], o, heap, own)
    BY <1>1, <1>2 DEF Owned
  <2>3. states[o].serialized # NoText => states[o].serialized = Text(heap, states[o].hostRoot, {})
    BY <1>1, <1>2 DEF TextsKept, Remade
  <2>4. QED
    BY <1>1, <2>1, <2>2, <2>3
<1>3. CASE ~Hosted(o)
  <2>1. InMemory(o)
    BY <1>3
  <2>2. /\ q.hostRoot = <<RootSlot, o>> /\ q.hostValues = [slot \in Slots |-> <<slot, o>>]
        /\ q.serialized = states[o].serialized /\ hp = WithCopy(o)
    BY <1>1, <1>3 DEF Ensured, Fields
  <2>3. DOMAIN heap \cap DOMAIN HostCopy(o) = {}
    BY <2>1, CopyFacts DEF IInv, Copied
  <2>4. /\ Partitioned(hp, parses, own)
        /\ \A cell \in DOMAIN heap : cell \in DOMAIN hp /\ hp[cell] = heap[cell]
    <3>1. parses \in parses..(parses + 1) /\ \A t \in 1..parses : own[t] = own[t]
      BY <1>1
    <3>2. QED
      BY <1>1, <2>2, <2>3, <3>1, CopiedPartitioned
  <2>5. /\ DOMAIN HostCopy(o) \subseteq DOMAIN hp
        /\ \A cell \in DOMAIN HostCopy(o) : hp[cell] = HostCopy(o)[cell]
    <3>1. /\ DOMAIN WithCopy(o) = DOMAIN HostCopy(o) \cup DOMAIN heap
          /\ \A cell \in DOMAIN HostCopy(o) : WithCopy(o)[cell] = HostCopy(o)[cell]
      BY CopyOver
    <3>2. hp = WithCopy(o)
      BY <2>2
    <3>3. QED
      BY <3>1, <3>2
  <2>6. own[o] = o
    BY <1>1, <2>1 DEF Owned
  <2>7. <<RootSlot, o>> \in DOMAIN HostCopy(o)
    BY CopyFacts, NamedSlots
  <2>8. CopyOf(q, o, hp, own)
    <3>1. q.hostRoot \in DOMAIN hp /\ own[q.hostRoot[2]] = o
      BY <2>2, <2>5, <2>6, <2>7
    <3>2. ASSUME NEW slot \in DOMAIN q.hostValues
          PROVE  own[q.hostValues[slot][2]] = o /\ (slot = RootSlot => q.hostValues[slot] = q.hostRoot)
      BY <2>2, <2>6
    <3>3. QED
      BY <3>1, <3>2 DEF CopyOf
  <2>9. Text(HostCopy(o), <<RootSlot, o>>, {}) = Text(hp, <<RootSlot, o>>, {})
    <3> DEFINE R == DOMAIN HostCopy(o)
    <3>1. IsFiniteSet(DOMAIN hp) /\ Closed(hp, DOMAIN hp)
      BY <1>1, <2>4, PartitionedFacts
    <3>2. IsFiniteSet(R)
      BY <2>5, <3>1, FS_Subset
    <3>3. Closed(HostCopy(o), R)
      BY <1>1, CopyPartitioned DEF Closed
    <3>4. R \subseteq DOMAIN hp /\ \A cell \in R : HostCopy(o)[cell] = hp[cell]
      BY <2>5
    <3>5. QED
      BY <2>7, <3>1, <3>2, <3>3, <3>4, TextLocal
  <2>10. q.serialized # NoText => q.serialized = Text(hp, q.hostRoot, {})
    BY <1>1, <1>3, <2>1, <2>2, <2>9 DEF TextsKept, Remade
  <2>11. QED
    BY <2>4, <2>8, <2>10
<1>4. QED
  BY <1>2, <1>3

-----------------------------------------------------------------------------
(* What an array or an object may hold after a mutation: what it held, and   *)
(* what was stored.                                                          *)
LEMMA RemovedFrom ==
  ASSUME NEW S, NEW q \in Seq(S), NEW i \in DOMAIN q
  PROVE  RemoveAt(q, i) \in Seq(S)
<1>1. Len(q) \in Nat /\ DOMAIN q = 1..Len(q) /\ q \in [1..Len(q) -> S]
  BY LenProperties
<1>2. SubSeq(q, 1, i - 1) \in Seq(S)
  BY <1>1, SubSeqProperties
<1>3. SubSeq(q, i + 1, Len(q)) \in Seq(S)
  BY <1>1, SubSeqProperties
<1>4. QED
  BY <1>2, <1>3, ConcatProperties DEF RemoveAt

LEMMA Reversed ==
  ASSUME NEW S, NEW q \in Seq(S)
  PROVE  Reverse(q) \in Seq(S)
<1> DEFINE n == Len(q)
           r == [i \in 1..n |-> q[(n - i) + 1]]
<1>1. n \in Nat /\ q \in [1..n -> S]
  BY LenProperties
<1>. HIDE DEF n
<1>2. \A i \in 1..n : (n - i) + 1 \in 1..n
  BY <1>1
<1>3. r \in [1..n -> S]
  BY <1>1, <1>2
<1>. HIDE DEF r
<1>4. r \in Seq(S)
  BY <1>1, <1>3
<1>5. QED
  BY <1>4 DEF r, n, Reverse

LEMMA CutFrom ==
  ASSUME NEW S, NEW q \in Seq(S), NEW n \in 0..Len(q)
  PROVE  SubSeq(q, 1, n) \in Seq(S)
<1>1. Len(q) \in Nat /\ DOMAIN q = 1..Len(q) /\ q \in [1..Len(q) -> S]
  BY LenProperties
<1>2. QED
  BY <1>1, SubSeqProperties

LEMMA Prepended ==
  ASSUME NEW S, NEW q \in Seq(S), NEW e \in S
  PROVE  <<e>> \o q \in Seq(S)
<1>1. <<e>> \in Seq(S)
  OBVIOUS
<1>2. QED
  BY <1>1, ConcatProperties

LEMMA ReplacedIn ==
  ASSUME NEW S, NEW q \in Seq(S), NEW e \in S
  PROVE  Replaced(q, e) \subseteq Seq(S)
<1>1. Len(q) \in Nat /\ DOMAIN q = 1..Len(q) /\ q \in [1..Len(q) -> S]
  BY LenProperties
<1>2. ASSUME NEW i \in DOMAIN q, NEW x \in S PROVE [q EXCEPT ![i] = x] \in Seq(S)
  BY <1>1, ExceptSeq
<1>3. ASSUME NEW r \in Replaced(q, e)
      PROVE  \E i \in DOMAIN q, x \in S : r = [q EXCEPT ![i] = x]
  BY <1>1 DEF Replaced
<1>4. QED
  BY <1>2, <1>3

LEMMA ArrayWritten ==
  ASSUME NEW S, NEW old \in Seq(S), NEW cell, Entry("", cell) \in S
  PROVE  ArrayWrites(old, cell) \subseteq Seq(S)
<1> DEFINE entry == Entry("", cell)
<1>1. Replaced(old, entry) \subseteq Seq(S)
  BY ReplacedIn
<1>2. Removed(old) \subseteq Seq(S)
  BY RemovedFrom DEF Removed
<1>3. Truncated(old) \subseteq Seq(S)
  BY CutFrom DEF Truncated
<1>4. Append(old, entry) \in Seq(S) /\ <<entry>> \o old \in Seq(S) /\ Reverse(old) \in Seq(S)
  BY AppendProperties, Prepended, Reversed
<1>5. QED
  BY <1>1, <1>2, <1>3, <1>4 DEF ArrayWrites

LEMMA ObjectWritten ==
  ASSUME NEW S, NEW old \in Seq(S), NEW cell, \A key \in Keys : Entry(key, cell) \in S
  PROVE  ObjectWrites(old, cell) \subseteq Seq(S)
<1>1. Len(old) \in Nat /\ DOMAIN old = 1..Len(old) /\ old \in [1..Len(old) -> S]
  BY LenProperties
<1>2. ASSUME NEW key \in Keys PROVE WithKey(old, key, cell) \in Seq(S)
  <2> DEFINE at == {i \in DOMAIN old : old[i].key = key}
             over == [i \in DOMAIN old |-> IF i \in at THEN Entry(key, cell) ELSE old[i]]
  <2>1. Append(old, Entry(key, cell)) \in Seq(S)
    BY AppendProperties
  <2>2. over \in Seq(S)
    <3>. HIDE DEF at
    <3>1. over \in [1..Len(old) -> S]
      BY <1>1
    <3>2. QED
      BY <1>1, <3>1
  <2>3. WithKey(old, key, cell) \in {Append(old, Entry(key, cell)), over}
    BY DEF WithKey
  <2>. HIDE DEF over
  <2>4. QED
    BY <2>1, <2>2, <2>3
<1>3. Removed(old) \subseteq Seq(S)
  BY RemovedFrom DEF Removed
<1>4. QED
  BY <1>2, <1>3, EmptySeq DEF ObjectWrites

(* What mutating the container `target` through the views of o may leave:    *)
(* entries whose containers were in it, or are held of the same copy.        *)
Entries(objects, target, o, entries) ==
  /\ IsSequence(entries)
  /\ \A i \in DOMAIN entries :
       LET cell == entries[i].cell
       IN \/ ~IsContainer(cell)
          \/ \E j \in DOMAIN objects[target] : cell = objects[target][j].cell
          \/ held.of = o /\ cell = held.cell

LEMMA EntriesWritten ==
  ASSUME NEW objects, NEW target, IsSequence(objects[target]), NEW o, NEW cell \in Storable(o),
         NEW entries \in (IF target[1] \in Arrays THEN ArrayWrites(objects[target], cell)
                          ELSE ObjectWrites(objects[target], cell))
  PROVE  Entries(objects, target, o, entries)
<1> DEFINE old == objects[target]
           S == {old[i] : i \in DOMAIN old} \cup {Entry(key, cell) : key \in Keys \cup {""}}
<1>1. old \in Seq(S)
  BY SequenceDomain
<1>2. \A key \in Keys \cup {""} : Entry(key, cell) \in S
  OBVIOUS
<1>. HIDE DEF S
<1>3. entries \in Seq(S)
  BY <1>1, <1>2, ArrayWritten, ObjectWritten
<1>4. IsSequence(entries) /\ \A i \in DOMAIN entries : entries[i] \in S
  BY <1>3, SequenceOf
<1>5. ~IsContainer(New)
  <2>1. Containers \subseteq Slots /\ "new" \notin Slots
    BY TreeAssumption DEF TreeAssumption
  <2>2. New[1] = "new"
    BY DEF New
  <2>3. QED
    BY <2>1, <2>2 DEF IsContainer
<1>6. cell = New \/ (held.of = o /\ cell = held.cell)
  BY DEF Storable
<1>7. ASSUME NEW i \in DOMAIN entries
      PROVE  \/ ~IsContainer(entries[i].cell)
             \/ \E j \in DOMAIN old : entries[i].cell = old[j].cell
             \/ held.of = o /\ entries[i].cell = held.cell
  <2>1. (\E j \in DOMAIN old : entries[i] = old[j]) \/ \E key \in Keys \cup {""} : entries[i] = Entry(key, cell)
    BY <1>4 DEF S
  <2>2. \A key : Entry(key, cell).cell = cell
    BY DEF Entry
  <2>3. QED
    BY <1>5, <1>6, <2>1, <2>2
<1>8. QED
  BY <1>4, <1>7 DEF Entries

(* A step that makes the host copy of o, when there is none, and may mutate  *)
(* one container of it, which drops the text kept.                           *)
Unmutated(o, r) ==
  /\ heap' = Ensured(o).heap
  /\ r.serialized = Ensured(o).states[o].serialized
Mutated(o, r, own) ==
  /\ r.serialized = NoText
  /\ \E target \in DOMAIN Ensured(o).heap : \E entries :
       /\ own[target[2]] = o
       /\ heap' = [Ensured(o).heap EXCEPT ![target] = entries]
       /\ Entries(Ensured(o).heap, target, o, entries)

(* One of both.                                                              *)
Touched(o, own) ==
  \E r : /\ Retexted(r, o)
         /\ states' = [Ensured(o).states EXCEPT ![o] = r]
         /\ Unmutated(o, r) \/ Mutated(o, r, own)

Effect(o, own) ==
  /\ o \in 1..parses /\ (Hosted(o) \/ InMemory(o))
  /\ Touched(o, own)
  /\ unbuilt' = Ensured(o).unbuilt
  /\ UNCHANGED <<memory, held, parses>>

(* Written is one of them.                                                   *)
LEMMA WrittenEffect ==
  ASSUME IInv, NEW own, TInv(own), NEW o \in 1..parses, Hosted(o) \/ InMemory(o), NEW at,
         at.states = Ensured(o).states, at.heap = Ensured(o).heap,
         NEW target \in DOMAIN Ensured(o).heap, own[target[2]] = o,
         NEW cell \in Storable(o), Written(at, o, target, cell)
  PROVE  Touched(o, own)
<1> DEFINE hp == Ensured(o).heap
           q == Ensured(o).states[o]
<1>1. PICK entries \in (IF target[1] \in Arrays THEN ArrayWrites(hp[target], cell)
                        ELSE ObjectWrites(hp[target], cell)) :
        /\ heap' = [hp EXCEPT ![target] = entries]
        /\ states' = IF target[1] \in Arrays /\ hp[target] = << >> /\ entries = << >>
                     THEN Ensured(o).states
                     ELSE [Ensured(o).states EXCEPT ![o].serialized = NoText]
  BY DEF Written
<1>2. Partitioned(hp, parses, own)
  BY EnsuredOwned
<1>3. IsSequence(hp[target])
  BY <1>2 DEF Partitioned
<1>4. Entries(hp, target, o, entries)
  BY <1>3, EntriesWritten
<1>5. /\ DOMAIN q = Fields /\ DOMAIN states = 1..parses
      /\ Ensured(o).states = [states EXCEPT ![o] = q]
  BY EnsuredFacts, ShapeFacts DEF IInv
<1>6. CASE target[1] \in Arrays /\ hp[target] = << >> /\ entries = << >>
  <2>1. states' = Ensured(o).states
    BY <1>1, <1>6
  <2>2. hp = [c \in DOMAIN hp |-> hp[c]]
    BY <1>2 DEF Partitioned
  <2>3. heap' = hp
    BY <1>1, <1>6, <2>2
  <2>4. Retexted(q, o)
    BY <1>5 DEF Retexted
  <2>5. Unmutated(o, q)
    BY <2>3 DEF Unmutated
  <2>. HIDE DEF q
  <2>6. states' = [Ensured(o).states EXCEPT ![o] = q]
    BY <1>5, <2>1
  <2>7. QED
    BY <2>4, <2>5, <2>6 DEF Touched
<1>7. CASE ~(target[1] \in Arrays /\ hp[target] = << >> /\ entries = << >>)
  <2> DEFINE r == [q EXCEPT !.serialized = NoText]
  <2>1. states' = [Ensured(o).states EXCEPT ![o] = r]
    BY <1>1, <1>7
  <2>2. Retexted(r, o) /\ r.serialized = NoText
    BY <1>5 DEF Retexted, Fields
  <2>. HIDE DEF r, q
  <2>3. Mutated(o, r, own)
    BY <1>1, <1>4, <2>2 DEF Mutated
  <2>4. QED
    BY <2>1, <2>2, <2>3 DEF Touched
<1>8. QED
  BY <1>6, <1>7

(* So are the steps that mutate or enumerate.                                *)
LEMMA Effects ==
  ASSUME IInv, NEW own, TInv(own)
  PROVE  /\ WriteHeld => Effect(held.of, own)
         /\ \A o \in DOMAIN states : \A slot \in Views(o) :
              WriteView(o, slot) \/ Enumerate(o, slot) => Effect(o, own)
<1>1. DOMAIN states = 1..parses /\ Owned(own)
  BY ShapeFacts DEF IInv, TInv
<1>2. ASSUME WriteHeld PROVE Effect(held.of, own)
  <2> DEFINE o == held.of
             at == [states |-> states, heap |-> heap]
  <2>1. o \in 1..parses /\ Hosted(o)
    BY <1>2, NamedSlots DEF WriteHeld, IInv, HeldHosted
  <2>2. /\ at.states = Ensured(o).states /\ at.heap = Ensured(o).heap
        /\ unbuilt = Ensured(o).unbuilt /\ heap = Ensured(o).heap
    BY <2>1 DEF Ensured
  <2>3. PICK cell \in Storable(o) : Written(at, o, held.cell, cell)
    BY <1>2 DEF WriteHeld
  <2>4. held.cell \in DOMAIN heap /\ own[held.cell[2]] = o
    BY <1>1, <1>2 DEF WriteHeld, Owned
  <2>. HIDE DEF at, o
  <2>5. Touched(o, own)
    BY <2>1, <2>2, <2>3, <2>4, WrittenEffect
  <2>6. unbuilt' = Ensured(o).unbuilt /\ UNCHANGED <<memory, held, parses>>
    BY <1>2, <2>2 DEF WriteHeld
  <2>7. Effect(o, own)
    BY <2>1, <2>5, <2>6 DEF Effect
  <2>8. QED
    BY <2>7 DEF o
<1>3. ASSUME NEW o \in DOMAIN states, NEW slot \in Views(o), WriteView(o, slot)
      PROVE  Effect(o, own)
  <2> DEFINE q == Ensured(o).states[o]
             target == q.hostValues[slot]
             at == Ensured(o)
  <2>1. o \in 1..parses /\ (Hosted(o) \/ InMemory(o)) /\ slot \in Slots
    BY <1>1, <1>3 DEF WriteView, Views, IInv, Shaped
  <2>2. PICK cell \in Storable(o) : Written(at, o, target, cell)
    BY <1>3 DEF WriteView
  <2>3. target \in DOMAIN Ensured(o).heap /\ slot \in DOMAIN q.hostValues /\ IsContainer(target)
    <3>1. CASE Hosted(o)
      <4>1. ToJS(o, slot) # Nothing /\ ToJS(o, slot) \in DOMAIN heap /\ IsContainer(ToJS(o, slot))
        BY <1>3, <2>1, <3>1, StandsFor, NamedSlots DEF WriteView
      <4>2. slot \in DOMAIN states[o].hostValues /\ ToJS(o, slot) = states[o].hostValues[slot]
        BY <3>1, <4>1 DEF ToJS
      <4>3. q = states[o] /\ Ensured(o).heap = heap
        BY <3>1 DEF Ensured
      <4>4. QED
        BY <4>1, <4>2, <4>3
    <3>2. CASE ~Hosted(o)
      <4>1. q.hostValues = [other \in Slots |-> <<other, o>>] /\ Ensured(o).heap = WithCopy(o)
        BY <2>1, <3>2, EnsuredFacts
      <4>2. target = <<slot, o>>
        BY <2>1, <4>1
      <4>3. slot \in Containers
        BY <1>3, <3>2 DEF WriteView, ToJS, IsContainer
      <4>4. <<slot, o>> \in DOMAIN WithCopy(o)
        BY <4>3, CopyFacts, CopyOver
      <4>5. QED
        BY <2>1, <4>1, <4>2, <4>3, <4>4 DEF IsContainer
    <3>3. QED
      BY <3>1, <3>2
  <2>4. own[target[2]] = o
    <3>1. CopyOf(q, o, Ensured(o).heap, own)
      BY <2>1, EnsuredOwned
    <3>2. QED
      BY <2>3, <3>1 DEF CopyOf
  <2>5. at.states = Ensured(o).states /\ at.heap = Ensured(o).heap
    OBVIOUS
  <2>. HIDE DEF target, at, q
  <2>6. Touched(o, own)
    BY <2>1, <2>2, <2>3, <2>4, <2>5, WrittenEffect
  <2>7. unbuilt' = Ensured(o).unbuilt /\ UNCHANGED <<memory, held, parses>>
    BY <1>3 DEF WriteView
  <2>8. QED
    BY <2>1, <2>6, <2>7 DEF Effect
<1>4. ASSUME NEW o \in DOMAIN states, NEW slot \in Views(o), Enumerate(o, slot)
      PROVE  Effect(o, own)
  <2> DEFINE q == Ensured(o).states[o]
  <2>1. o \in 1..parses /\ InMemory(o)
    BY <1>1, <1>4 DEF Enumerate
  <2>2. DOMAIN q = Fields /\ Ensured(o).states = [states EXCEPT ![o] = q]
    BY <2>1, EnsuredFacts
  <2>3. Retexted(q, o)
    BY <2>2 DEF Retexted
  <2>4. Unmutated(o, q)
    BY <1>4 DEF Enumerate, Unmutated
  <2>. HIDE DEF q
  <2>5. states' = [Ensured(o).states EXCEPT ![o] = q]
    BY <1>1, <1>4, <2>2 DEF Enumerate
  <2>6. unbuilt' = Ensured(o).unbuilt /\ UNCHANGED <<memory, held, parses>>
    BY <1>4 DEF Enumerate
  <2>7. QED
    BY <2>1, <2>3, <2>4, <2>5, <2>6 DEF Effect, Touched
<1>5. QED
  BY <1>2, <1>3, <1>4

-----------------------------------------------------------------------------
(* What s owns in f is as it is in g.                                        *)
Shares(f, g, own, s) ==
  \A cell \in DOMAIN f : own[cell[2]] = s => cell \in DOMAIN g /\ g[cell] = f[cell]

(* The text of what s owns is the same as long as nothing that s owns is     *)
(* mutated.                                                                  *)
LEMMA TextUntouched ==
  ASSUME NEW n \in Nat, NEW f, NEW own, Partitioned(f, n, own),
         NEW m \in Nat, NEW g, NEW over, Partitioned(g, m, over),
         NEW s, Shares(f, g, own, s),
         NEW root \in DOMAIN f, own[root[2]] = s
  PROVE  Text(f, root, {}) = Text(g, root, {})
<1> DEFINE R == {cell \in DOMAIN f : own[cell[2]] = s}
<1>1. IsFiniteSet(DOMAIN f) /\ Closed(f, DOMAIN f) /\ Closed(f, R)
  BY PartitionedFacts
<1>2. IsFiniteSet(DOMAIN g) /\ Closed(g, DOMAIN g)
  BY PartitionedFacts
<1>3. R \subseteq DOMAIN f /\ R \subseteq DOMAIN g /\ root \in R
  BY DEF Shares
<1>4. \A cell \in R : f[cell] = g[cell]
  BY DEF Shares
<1>. HIDE DEF R
<1>5. QED
  BY <1>1, <1>2, <1>3, <1>4, TextLocal

(* A copy stays one when the host gains values.                              *)
LEMMA CopyGrown ==
  ASSUME NEW r, NEW s, NEW f, NEW g, NEW own, CopyOf(r, s, f, own),
         DOMAIN f \subseteq DOMAIN g
  PROVE  CopyOf(r, s, g, own)
BY DEF CopyOf

(* The next state of what the invariant says of texts.                       *)
LEMMA RemadeNext ==
  ASSUME NEW s
  PROVE  /\ Hosted(s)' => Remade(s)' = Text(heap', states'[s].hostRoot, {})
         /\ ~Hosted(s)' => Remade(s)' = Text(HostCopy(s), <<RootSlot, s>>, {})
BY DEF Remade, HostCopy

(* A mutation through the views of o keeps the texts of all others, and that *)
(* of o only when it changes nothing.                                        *)
LEMMA EffectKeeps ==
  ASSUME IInv, NEW own, TInv(own), NEW o, Effect(o, own)
  PROVE  TInv(own)'
<1> DEFINE hp == Ensured(o).heap
           q == Ensured(o).states[o]
<1>1. /\ parses \in Nat /\ own \in [1..parses -> 1..parses]
      /\ Partitioned(heap, parses, own) /\ Owned(own) /\ TextsKept
      /\ o \in 1..parses /\ (Hosted(o) \/ InMemory(o))
      /\ UNCHANGED <<memory, held, parses>> /\ unbuilt' = Ensured(o).unbuilt
  BY ShapeFacts DEF IInv, TInv, Effect
<1>2. PICK r : /\ Retexted(r, o)
               /\ states' = [Ensured(o).states EXCEPT ![o] = r]
               /\ Unmutated(o, r) \/ Mutated(o, r, own)
  BY DEF Effect, Touched
<1>3. /\ Partitioned(hp, parses, own)
      /\ \A cell \in DOMAIN heap : cell \in DOMAIN hp /\ hp[cell] = heap[cell]
      /\ CopyOf(q, o, hp, own)
      /\ q.serialized # NoText => q.serialized = Text(hp, q.hostRoot, {})
  BY <1>1, EnsuredOwned
<1>4. r.hostRoot = q.hostRoot /\ r.hostValues = q.hostValues
  BY <1>2 DEF Retexted
<1>. HIDE DEF hp, q
<1>5. DOMAIN heap' = DOMAIN hp
  BY <1>2 DEF Unmutated, Mutated, hp
<1>6. /\ Hosted(o)' /\ states'[o] = r
      /\ \A t \in 1..parses : t # o => states'[t] = states[t]
  BY <1>1, <1>2, <1>5, HostStep DEF hp
<1>7. /\ Partitioned(heap', parses, own)
      /\ \A cell \in DOMAIN hp : own[cell[2]] # o => heap'[cell] = hp[cell]
  <2>1. CASE Unmutated(o, r)
    BY <1>3, <2>1 DEF Unmutated, hp
  <2>2. CASE Mutated(o, r, own)
    <3>1. PICK target \in DOMAIN hp : \E entries :
            /\ own[target[2]] = o
            /\ heap' = [hp EXCEPT ![target] = entries]
            /\ Entries(hp, target, o, entries)
      BY <2>2 DEF Mutated, hp
    <3>2. PICK entries :
            /\ own[target[2]] = o
            /\ heap' = [hp EXCEPT ![target] = entries]
            /\ Entries(hp, target, o, entries)
      BY <3>1
    <3>3. /\ heap'[target] = entries /\ heap' = [cell \in DOMAIN heap' |-> heap'[cell]]
          /\ \A cell \in DOMAIN hp : cell # target => heap'[cell] = hp[cell]
      BY <1>5, <3>2
    <3>4. Within(heap', target, own)
      <4>1. ASSUME NEW i \in DOMAIN entries, IsContainer(entries[i].cell)
            PROVE  entries[i].cell \in DOMAIN hp /\ own[entries[i].cell[2]] = o
        <5>1. CASE \E j \in DOMAIN hp[target] : entries[i].cell = hp[target][j].cell
          BY <1>3, <3>2, <4>1, <5>1 DEF Partitioned, Within
        <5>2. CASE held.of = o /\ entries[i].cell = held.cell
          BY <1>1, <1>3, <4>1, <5>2 DEF Owned
        <5>3. QED
          BY <3>2, <4>1, <5>1, <5>2 DEF Entries
      <4>2. QED
        BY <1>5, <3>2, <3>3, <4>1 DEF Within
    <3>5. ASSUME NEW cell \in DOMAIN hp, cell # target
          PROVE  IsSequence(heap'[cell]) /\ Within(heap', cell, own)
      BY <1>3, <1>5, <3>3, <3>5 DEF Partitioned, Within
    <3>6. IsSequence(heap'[target])
      BY <3>2, <3>3 DEF Entries
    <3>7. Partitioned(heap', parses, own)
      BY <1>3, <1>5, <3>3, <3>4, <3>5, <3>6 DEF Partitioned
    <3>8. QED
      BY <3>2, <3>3, <3>7
  <2>3. QED
    BY <1>2, <2>1, <2>2
<1>8. Owned(own)'
  <2>1. ASSUME NEW s \in 1..parses, InMemory(s)' PROVE own[s] = s
    <3>1. s # o
      BY <1>6, <2>1 DEF InMemory
    <3>2. InMemory(s)
      BY <1>6, <2>1, <3>1 DEF InMemory, Hosted, Released
    <3>3. QED
      BY <1>1, <3>2 DEF Owned
  <2>2. ASSUME NEW s \in 1..parses, Hosted(s)' PROVE CopyOf(states'[s], s, heap', own)
    <3>1. CASE s = o
      BY <1>3, <1>4, <1>5, <1>6, <3>1 DEF CopyOf
    <3>2. CASE s # o
      <4>1. states'[s] = states[s] /\ Hosted(s)
        BY <1>6, <2>2, <3>2 DEF Hosted
      <4>2. QED
        BY <1>1, <1>3, <1>5, <4>1, CopyGrown DEF Owned
    <3>3. QED
      BY <3>1, <3>2
  <2>3. IsContainer(held'.cell) => held'.cell \in DOMAIN heap' /\ own[held'.cell[2]] = held'.of
    BY <1>1, <1>3, <1>5 DEF Owned
  <2>4. QED
    BY <1>1, <2>1, <2>2, <2>3 DEF Owned, IsContainer, CopyOf
<1>9. TextsKept'
  <2>1. ASSUME NEW s \in 1..parses, Hosted(s)' \/ InMemory(s)', states'[s].serialized # NoText
        PROVE  states'[s].serialized = Remade(s)'
    <3>1. CASE s = o
      <4>1. Unmutated(o, r)
        BY <1>2, <1>6, <2>1, <3>1 DEF Mutated
      <4>2. heap' = hp /\ r.serialized = q.serialized
        BY <4>1 DEF Unmutated, hp, q
      <4>3. r.serialized = Text(heap', r.hostRoot, {})
        BY <1>3, <1>4, <1>6, <2>1, <3>1, <4>2
      <4>4. QED
        BY <1>6, <3>1, <4>3, RemadeNext
    <3>2. CASE s # o
      <4>1. states'[s] = states[s] /\ Hosted(s)' = Hosted(s) /\ InMemory(s)' = InMemory(s)
        BY <1>6, <3>2 DEF Hosted, InMemory, Released
      <4>2. states[s].serialized = Remade(s)
        BY <1>1, <2>1, <4>1 DEF TextsKept
      <4>3. CASE Hosted(s)
        <5>1. states[s].hostRoot \in DOMAIN heap /\ own[states[s].hostRoot[2]] = s
          BY <1>1, <4>3 DEF Owned, CopyOf
        <5>2. Shares(heap, heap', own, s)
          BY <1>3, <1>5, <1>7, <3>2 DEF Shares
        <5>3. Text(heap, states[s].hostRoot, {}) = Text(heap', states[s].hostRoot, {})
          BY <1>1, <1>7, <5>1, <5>2, TextUntouched
        <5>4. QED
          BY <4>1, <4>2, <4>3, <5>3, RemadeNext DEF Remade
      <4>4. CASE ~Hosted(s)
        BY <4>1, <4>2, <4>4, RemadeNext DEF Remade
      <4>5. QED
        BY <4>3, <4>4
    <3>3. QED
      BY <3>1, <3>2
  <2>2. QED
    BY <1>1, <2>1 DEF TextsKept
<1>10. QED
  BY <1>1, <1>7, <1>8, <1>9 DEF TInv, Partitioned, Within, IsSequence, IsContainer

-----------------------------------------------------------------------------
(* What the state of s becomes when no host value is made or mutated and its *)
(* text is dropped, kept or made anew.                                       *)
Quiet(r, s) ==
  /\ r.hostRoot = states[s].hostRoot /\ r.hostValues = states[s].hostValues
  /\ r.document \in {states[s].document, NoPointer}
  /\ (Hosted(s) \/ InMemory(s)) /\ r.serialized # NoText => r.serialized = Remade(s)

(* Such a step keeps the invariant, if it keeps the wrapper with its owner.  *)
LEMMA QuietKeeps ==
  ASSUME IInv, NEW own, TInv(own), heap' = heap, parses' = parses,
         \A s \in 1..parses : Quiet(states'[s], s),
         IsContainer(held'.cell) => held'.cell \in DOMAIN heap /\ own[held'.cell[2]] = held'.of
  PROVE  TInv(own)'
<1>1. /\ own \in [1..parses -> 1..parses] /\ Partitioned(heap, parses, own)
      /\ Owned(own) /\ TextsKept
  BY DEF TInv
<1>2. \A s \in 1..parses :
        /\ Hosted(s)' = Hosted(s) /\ (InMemory(s)' => InMemory(s))
        /\ states'[s].hostRoot = states[s].hostRoot
        /\ states'[s].hostValues = states[s].hostValues
  BY DEF Quiet, Hosted, InMemory, Released
<1>3. Owned(own)'
  <2>1. \A s \in 1..parses : Hosted(s)' => CopyOf(states'[s], s, heap', own)
    BY <1>1, <1>2 DEF Owned, CopyOf
  <2>2. \A s \in 1..parses : InMemory(s)' => own[s] = s
    BY <1>1, <1>2 DEF Owned
  <2>3. QED
    BY <2>1, <2>2 DEF Owned, IsContainer, CopyOf
<1>4. TextsKept'
  <2>1. ASSUME NEW s \in 1..parses, Hosted(s)' \/ InMemory(s)', states'[s].serialized # NoText
        PROVE  states'[s].serialized = Remade(s)'
    <3>1. Hosted(s) \/ InMemory(s)
      BY <1>2, <2>1
    <3>2. states'[s].serialized = Remade(s)
      BY <2>1, <3>1 DEF Quiet
    <3>3. Remade(s)' = Remade(s)
      BY <1>2, RemadeNext DEF Remade
    <3>4. QED
      BY <3>2, <3>3
  <2>2. QED
    BY <2>1 DEF TextsKept
<1>5. Partitioned(heap', parses', own) /\ own \in [1..parses' -> 1..parses']
  BY <1>1
<1>6. QED
  BY <1>3, <1>4, <1>5 DEF TInv, Partitioned, Within, IsSequence, IsContainer

(* Every state is quiet when one is, and the others are as they were.        *)
LEMMA OneQuiet ==
  ASSUME IInv, NEW own, TInv(own), NEW s \in 1..parses, NEW r, Quiet(r, s),
         states' = [states EXCEPT ![s] = r]
  PROVE  \A t \in 1..parses : Quiet(states'[t], t)
<1>1. DOMAIN states = 1..parses /\ TextsKept
  BY ShapeFacts DEF IInv, TInv
<1>2. \A t \in 1..parses : Quiet(states[t], t)
  BY <1>1 DEF Quiet, TextsKept
<1>3. states'[s] = r /\ \A t \in 1..parses : t # s => states'[t] = states[t]
  BY <1>1
<1>4. QED
  BY <1>2, <1>3

(* The wrapper of what a held container holds is of the same owner.          *)
LEMMA HeldMoves ==
  ASSUME IInv, NEW own, TInv(own), heap' = heap, parses' = parses, states' = states,
         NEW from \in DOMAIN heap, NEW cell \in ChildrenOf(from),
         held'.cell = cell, held'.of = own[from[2]]
  PROVE  TInv(own)'
<1>1. \A t \in 1..parses : Quiet(states'[t], t)
  BY DEF Quiet, TInv, TextsKept
<1>2. cell \in DOMAIN heap /\ own[cell[2]] = own[from[2]]
  BY DEF ChildrenOf, TInv, Partitioned, Within
<1>3. QED
  BY <1>1, <1>2, QuietKeeps

(* HeldChild is such a step.                                                 *)
LEMMA HeldChildKeeps ==
  ASSUME IInv, NEW own, TInv(own), HeldChild
  PROVE  TInv(own)'
<1>1. held.cell \in DOMAIN heap /\ own[held.cell[2]] = held.of
  BY DEF HeldChild, TInv, Owned
<1>2. \E cell \in ChildrenOf(held.cell) : held'.cell = cell /\ held'.of = held.of
  BY DEF HeldChild, IInv, HeldHosted
<1>3. heap' = heap /\ parses' = parses /\ states' = states
  BY DEF HeldChild
<1>4. QED
  BY <1>1, <1>2, <1>3, HeldMoves

(* The other steps that make and mutate no host value.                       *)
LEMMA QuietSteps ==
  ASSUME IInv, NEW own, TInv(own), NEW s \in DOMAIN states, NEW slot \in Views(s),
         \/ Child(s, slot) \/ HostChild(s, slot)
         \/ Stringify(s, slot) \/ Dispose(s, slot)
  PROVE  TInv(own)'
<1>1. /\ s \in 1..parses /\ DOMAIN states[s] = Fields /\ parses \in Nat
      /\ Partitioned(heap, parses, own) /\ Owned(own) /\ TextsKept
  BY ShapeFacts DEF IInv, Shaped, TInv
<1>2. \A t \in 1..parses : Quiet(states[t], t)
  BY <1>1 DEF Quiet, TextsKept
<1>3. heap' = heap /\ parses' = parses
  BY DEF Child, HostChild, Stringify, Dispose
<1>4. CASE HostChild(s, slot)
  <2>1. Hosted(s) /\ IsContainer(ToJS(s, slot)) /\ ToJS(s, slot) # Nothing
    BY <1>4, NamedSlots DEF HostChild
  <2>2. ToJS(s, slot) \in DOMAIN heap
    BY <1>1, <2>1, StandsFor
  <2>3. slot \in DOMAIN states[s].hostValues /\ ToJS(s, slot) = states[s].hostValues[slot]
    BY <2>1 DEF ToJS
  <2>4. own[ToJS(s, slot)[2]] = s
    BY <1>1, <2>1, <2>3 DEF Owned, CopyOf
  <2>5. PICK cell \in ChildrenOf(ToJS(s, slot)) : held'.cell = cell /\ held'.of = s
    BY <1>4 DEF HostChild
  <2>6. states' = states
    BY <1>4 DEF HostChild
  <2>7. QED
    BY <1>3, <2>2, <2>4, <2>5, <2>6, HeldMoves
<1>5. CASE Child(s, slot) \/ Stringify(s, slot) \/ Dispose(s, slot)
  <2>1. held' = held
    BY <1>5 DEF Child, Stringify, Dispose
  <2>2. IsContainer(held'.cell) => held'.cell \in DOMAIN heap /\ own[held'.cell[2]] = held'.of
    BY <1>1, <2>1 DEF Owned
  <2>3. \A t \in 1..parses : Quiet(states'[t], t)
    <3>1. CASE states' = states
      BY <1>2, <3>1
    <3>2. CASE Child(s, slot)
      <4>1. PICK new : states' = [states EXCEPT ![s].views = @ \cup {new}]
        BY <3>2 DEF Child
      <4> DEFINE r == [states[s] EXCEPT !.views = @ \cup {new}]
      <4>2. states' = [states EXCEPT ![s] = r]
        BY <4>1
      <4>3. Quiet(r, s)
        BY <1>1, <1>2 DEF Quiet, Fields
      <4>. HIDE DEF r
      <4>4. QED
        BY <1>1, <4>2, <4>3, OneQuiet
    <3>3. CASE Dispose(s, slot)
      <4> DEFINE r == [states[s] EXCEPT !.document = NoPointer]
      <4>1. states' = [states EXCEPT ![s] = r]
        BY <3>3 DEF Dispose
      <4>2. Quiet(r, s)
        BY <1>1, <1>2 DEF Quiet, Fields
      <4>. HIDE DEF r
      <4>3. QED
        BY <1>1, <4>1, <4>2, OneQuiet
    <3>4. CASE Stringify(s, slot) /\ states' # states
      <4> DEFINE r == [states[s] EXCEPT !.serialized = Stringified(s, slot)]
      <4>1. states' = [states EXCEPT ![s] = r] /\ (Hosted(s) \/ (InMemory(s) /\ slot = RootSlot))
        BY <3>4 DEF Stringify
      <4>2. Stringified(s, slot) = Remade(s)
        BY <1>1, <4>1 DEF Stringified, Remade, TextsKept, InMemory
      <4>3. Quiet(r, s)
        BY <1>1, <4>2 DEF Quiet, Fields
      <4>. HIDE DEF r
      <4>4. QED
        BY <1>1, <4>1, <4>3, OneQuiet
    <3>5. QED
      BY <1>5, <3>1, <3>2, <3>3, <3>4
  <2>4. QED
    BY <1>3, <2>2, <2>3, QuietKeeps
<1>6. QED
  BY <1>4, <1>5

(* The owners of n documents, and s that of the next one.                    *)
Extended(own, n, s) == [t \in 1..(n + 1) |-> IF t = n + 1 THEN s ELSE own[t]]

(* What t stands for after a parse that does not leave it quiet: it has no   *)
(* text yet.                                                                 *)
Fresh(t, over) ==
  /\ states'[t].serialized = NoText
  /\ Hosted(t)' => CopyOf(states'[t], t, heap', over)
  /\ InMemory(t)' => over[t] = t

(* A parse whose document s owns keeps the invariant, for the owners         *)
(* extended with s.                                                          *)
LEMMA ParseKeeps ==
  ASSUME IInv, NEW own, TInv(own), NEW n, n = parses, parses' = n + 1,
         NEW s \in 1..(n + 1), NEW over, over = Extended(own, n, s),
         Partitioned(heap', n + 1, over),
         \A cell \in DOMAIN heap : cell \in DOMAIN heap' /\ heap'[cell] = heap[cell],
         \A t \in 1..n : Quiet(states'[t], t) \/ Fresh(t, over),
         Fresh(n + 1, over),
         IsContainer(held'.cell) => held'.cell \in DOMAIN heap' /\ over[held'.cell[2]] = held'.of
  PROVE  TInv(over)'
<1>1. /\ n \in Nat /\ own \in [1..n -> 1..n] /\ Partitioned(heap, n, own)
      /\ Owned(own) /\ TextsKept
  BY ShapeFacts DEF IInv, TInv
<1>2. /\ over \in [1..(n + 1) -> 1..(n + 1)] /\ over[n + 1] = s
      /\ \A t \in 1..n : over[t] = own[t]
  BY <1>1 DEF Extended
<1>3. \A t \in 1..(n + 1) : t \in 1..n \/ t = n + 1
  BY <1>1
<1>4. \A cell \in DOMAIN heap : cell[2] \in 1..n
  BY <1>1 DEF Partitioned
<1>5. ASSUME NEW t \in 1..n, Quiet(states'[t], t)
      PROVE  /\ Hosted(t)' => CopyOf(states'[t], t, heap', over)
             /\ InMemory(t)' => over[t] = t
             /\ (Hosted(t)' \/ InMemory(t)') /\ states'[t].serialized # NoText =>
                  states'[t].serialized = Remade(t)'
  <2>1. /\ states'[t].hostRoot = states[t].hostRoot /\ states'[t].hostValues = states[t].hostValues
        /\ Hosted(t)' = Hosted(t) /\ (InMemory(t)' => InMemory(t))
    BY <1>5 DEF Quiet, Hosted, InMemory, Released
  <2>2. Hosted(t)' => CopyOf(states'[t], t, heap', over)
    <3>1. SUFFICES ASSUME Hosted(t) PROVE CopyOf(states'[t], t, heap', over)
      BY <2>1
    <3>2. CopyOf(states[t], t, heap, own)
      BY <1>1, <3>1 DEF Owned
    <3>3. \A slot \in DOMAIN states[t].hostValues :
            IsContainer(states[t].hostValues[slot]) => states[t].hostValues[slot] \in DOMAIN heap
      BY <1>1, <3>1 DEF IInv, Copied
    <3>4. QED
      BY <1>2, <1>4, <2>1, <3>2, <3>3 DEF CopyOf
  <2>3. InMemory(t)' => over[t] = t
    BY <1>1, <1>2, <2>1 DEF Owned
  <2>4. ASSUME Hosted(t)' \/ InMemory(t)', states'[t].serialized # NoText
        PROVE  states'[t].serialized = Remade(t)'
    <3>1. states'[t].serialized = Remade(t)
      BY <1>5, <2>1, <2>4 DEF Quiet
    <3>2. CASE Hosted(t)
      <4>1. states[t].hostRoot \in DOMAIN heap /\ own[states[t].hostRoot[2]] = t
        BY <1>1, <3>2 DEF Owned, CopyOf
      <4>2. PICK m \in Nat : Shares(heap, heap', own, t) /\ Partitioned(heap', m, over)
        BY <1>1 DEF Shares
      <4>3. Text(heap, states[t].hostRoot, {}) = Text(heap', states[t].hostRoot, {})
        BY <1>1, <4>1, <4>2, TextUntouched
      <4>4. QED
        BY <2>1, <3>1, <3>2, <4>3, RemadeNext DEF Remade
    <3>3. CASE ~Hosted(t)
      BY <2>1, <3>1, <3>3, RemadeNext DEF Remade
    <3>4. QED
      BY <3>2, <3>3
  <2>5. QED
    BY <2>2, <2>3, <2>4
<1>6. ASSUME NEW t \in 1..(n + 1)
      PROVE  /\ Hosted(t)' => CopyOf(states'[t], t, heap', over)
             /\ InMemory(t)' => over[t] = t
             /\ (Hosted(t)' \/ InMemory(t)') /\ states'[t].serialized # NoText =>
                  states'[t].serialized = Remade(t)'
  <2>1. CASE Fresh(t, over)
    BY <2>1 DEF Fresh
  <2>2. CASE t \in 1..n /\ Quiet(states'[t], t)
    BY <1>5, <2>2
  <2>3. QED
    BY <1>3, <2>1, <2>2
<1>7. Owned(over)'
  BY <1>6 DEF Owned, IsContainer, CopyOf
<1>8. TextsKept'
  BY <1>6 DEF TextsKept
<1>9. Partitioned(heap', parses', over) /\ over \in [1..parses' -> 1..parses']
  BY <1>2
<1>10. QED
  BY <1>7, <1>8, <1>9 DEF TInv, Partitioned, Within, IsSequence, IsContainer

(* A retained document owns itself.                                          *)
LEMMA RetainedKeeps ==
  ASSUME IInv, NEW own, TInv(own), NEW n, n = parses, ParseRetained
  PROVE  \E over : TInv(over)'
<1> DEFINE over == Extended(own, n, n + 1)
<1>1. /\ n \in Nat /\ own \in [1..n -> 1..n] /\ Partitioned(heap, n, own)
      /\ Owned(own) /\ TextsKept /\ states = [t \in 1..n |-> states[t]]
  BY ShapeFacts DEF IInv, TInv, Shaped
<1>2. PICK p : states' = Append(states, NewState(p))
  BY DEF ParseRetained
<1>3. parses' = n + 1 /\ heap' = heap /\ held' = held
  BY DEF ParseRetained
<1>4. /\ states'[n + 1] = NewState(p)
      /\ \A t \in 1..n : states'[t] = states[t]
  BY <1>1, <1>2, AppendFacts
<1>5. over[n + 1] = n + 1 /\ \A t \in 1..n : over[t] = own[t]
  BY <1>1 DEF Extended
<1>. HIDE DEF over
<1>6. Partitioned(heap', n + 1, over)
  <2>1. \A cell \in DOMAIN heap : cell \in Containers \X (1..(n + 1)) /\ cell[2] \in 1..n
    BY <1>1 DEF Partitioned
  <2>2. ASSUME NEW cell \in DOMAIN heap PROVE IsSequence(heap[cell]) /\ Within(heap, cell, over)
    <3>1. IsSequence(heap[cell]) /\ Within(heap, cell, own)
      BY <1>1 DEF Partitioned
    <3>2. Within(heap, cell, over)
      BY <1>5, <2>1, <3>1 DEF Within
    <3>3. QED
      BY <3>1, <3>2
  <2>3. heap = [cell \in DOMAIN heap |-> heap[cell]]
    BY <1>1 DEF Partitioned
  <2>4. Partitioned(heap, n + 1, over)
    BY <2>1, <2>2, <2>3 DEF Partitioned
  <2>5. QED
    BY <1>3, <2>4
<1>7. \A t \in 1..n : Quiet(states'[t], t)
  BY <1>1, <1>4 DEF Quiet, TextsKept
<1>8. Fresh(n + 1, over)
  <2>1. NewState(p).serialized = NoText /\ NewState(p).hostRoot = Nothing
    BY DEF NewState
  <2>2. QED
    BY <1>4, <1>5, <2>1 DEF Fresh, Hosted
<1>9. IsContainer(held'.cell) => held'.cell \in DOMAIN heap' /\ over[held'.cell[2]] = held'.of
  BY <1>1, <1>3, <1>5 DEF Owned, Partitioned
<1>10. n + 1 \in 1..(n + 1) /\ \A cell \in DOMAIN heap : cell \in DOMAIN heap' /\ heap'[cell] = heap[cell]
  BY <1>1, <1>3
<1>11. TInv(over)'
  BY <1>3, <1>6, <1>7, <1>8, <1>9, <1>10, ParseKeeps DEF over
<1>12. QED
  BY <1>11

(* What a parse into a view leaves of its state: document d.                 *)
Reused(r, d) ==
  /\ r.serialized = NoText /\ r.hostRoot = <<RootSlot, d>>
  /\ \A slot \in DOMAIN r.hostValues : r.hostValues[slot] = <<RootSlot, d>>

(* The states of n documents, of which that of s may have changed.           *)
OnlyAt(q, n, s) ==
  q = [t \in 1..n |-> q[t]] /\ \A t \in 1..n : t # s => q[t] = states[t]

(* A plain parse for what is of the views of s.                              *)
LEMMA PlainKeeps ==
  ASSUME IInv, NEW own, TInv(own), NEW n, n = parses, PlainParse,
         NEW s \in 1..n, NEW over, over = Extended(own, n, s),
         NEW q, OnlyAt(q, n, s), states' = Append(q, PlainState),
         Quiet(q[s], s) \/ Reused(q[s], n + 1),
         held' = held \/ (held'.cell = <<RootSlot, n + 1>> /\ held'.of = s)
  PROVE  TInv(over)'
<1>1. /\ n \in Nat /\ own \in [1..n -> 1..n] /\ Partitioned(heap, n, own)
      /\ Owned(own) /\ TextsKept
  BY ShapeFacts DEF IInv, TInv
<1>2. parses' = n + 1 /\ heap' = WithCopy(n + 1)
  BY DEF PlainParse
<1>3. states'[n + 1] = PlainState /\ \A t \in 1..n : states'[t] = q[t]
  BY <1>1, AppendFacts DEF OnlyAt
<1>4. over[n + 1] = s /\ \A t \in 1..n : over[t] = own[t]
  BY <1>1 DEF Extended
<1>5. /\ Partitioned(heap', n + 1, over)
      /\ \A cell \in DOMAIN heap : cell \in DOMAIN heap' /\ heap'[cell] = heap[cell]
  <2>1. \A cell \in DOMAIN heap : cell[2] \in 1..n
    BY <1>1 DEF Partitioned
  <2>2. \A cell \in DOMAIN HostCopy(n + 1) : cell[2] = n + 1
    BY CopyFacts
  <2>3. DOMAIN heap \cap DOMAIN HostCopy(n + 1) = {}
    BY <1>1, <2>1, <2>2
  <2>4. \A t \in 1..n : over[t] = own[t]
    BY <1>4
  <2>5. /\ Partitioned(WithCopy(n + 1), n + 1, over)
        /\ \A cell \in DOMAIN heap :
             cell \in DOMAIN WithCopy(n + 1) /\ WithCopy(n + 1)[cell] = heap[cell]
    BY <1>1, <2>3, <2>4, CopiedNext
  <2>6. QED
    BY <1>2, <2>5
<1>6. <<RootSlot, n + 1>> \in DOMAIN heap' /\ over[<<RootSlot, n + 1>>[2]] = s
  <2>1. <<RootSlot, n + 1>> \in DOMAIN WithCopy(n + 1)
    BY NamedSlots, CopyFacts, CopyOver
  <2>2. QED
    BY <1>2, <1>4, <2>1
<1>7. Fresh(n + 1, over)
  <2>1. /\ PlainState.serialized = NoText /\ PlainState.hostRoot = Nothing
        /\ PlainState.document = NoPointer
    BY DEF PlainState, NewState
  <2>2. QED
    BY <1>3, <2>1 DEF Fresh, Hosted, InMemory, Released
<1>8. \A t \in 1..n : Quiet(states'[t], t) \/ Fresh(t, over)
  <2>1. \A t \in 1..n : t # s => Quiet(states'[t], t)
    BY <1>1, <1>3 DEF Quiet, TextsKept, OnlyAt
  <2>2. CASE Quiet(q[s], s)
    BY <1>3, <2>1, <2>2
  <2>3. CASE Reused(q[s], n + 1)
    <3>1. CopyOf(q[s], s, heap', over)
      BY <1>6, <2>3 DEF CopyOf, Reused
    <3>2. q[s].hostRoot # Nothing
      <4>1. <<RootSlot, n + 1>> # Nothing
        <5>1. <<RootSlot, n + 1>>[2] # 0
          BY <1>1
        <5>2. QED
          BY <5>1 DEF Nothing
      <4>2. QED
        BY <2>3, <4>1 DEF Reused
    <3>3. Fresh(s, over)
      BY <1>3, <2>3, <3>1, <3>2 DEF Fresh, Hosted, InMemory, Reused
    <3>4. QED
      BY <2>1, <3>3
  <2>4. QED
    BY <2>2, <2>3
<1>9. IsContainer(held'.cell) => held'.cell \in DOMAIN heap' /\ over[held'.cell[2]] = held'.of
  <2>1. CASE held' = held
    BY <1>1, <1>4, <1>5, <2>1 DEF Owned, Partitioned
  <2>2. QED
    BY <1>6, <2>1
<1>10. s \in 1..(n + 1)
  BY <1>1
<1>11. QED
  BY <1>2, <1>5, <1>7, <1>8, <1>9, <1>10, ParseKeeps

(* A parse into a view, or into a wrapper, is owned by what it replaces.     *)
LEMMA ParseIntoKeeps ==
  ASSUME IInv, NEW own, TInv(own)
  PROVE  /\ ParseIntoHeld => \E over : TInv(over)'
         /\ \A s \in DOMAIN states : \A slot \in Views(s) :
              ParseIntoView(s, slot) => \E over : TInv(over)'
<1> SUFFICES ASSUME NEW n, n = parses
             PROVE  /\ ParseIntoHeld => \E over : TInv(over)'
                    /\ \A s \in DOMAIN states : \A slot \in Views(s) :
                         ParseIntoView(s, slot) => \E over : TInv(over)'
  OBVIOUS
<1>1. /\ n \in Nat /\ DOMAIN states = 1..n /\ TextsKept
      /\ states = [t \in 1..n |-> states[t]]
      /\ \A t \in 1..n : DOMAIN states[t] = Fields
  BY ShapeFacts DEF IInv, Shaped, TInv
<1>2. ASSUME ParseIntoHeld PROVE \E over : TInv(over)'
  <2>1. /\ held.cell # Nothing /\ held.of \in 1..n
        /\ held = [cell |-> held.cell, of |-> held.of]
    BY <1>2 DEF ParseIntoHeld, IInv, HeldHosted
  <2>2. PICK s \in 1..n : s = held.of
    BY <2>1
  <2> DEFINE r == [states[s] EXCEPT !.serialized = NoText]
  <2>3. PlainParse /\ parses' = n + 1
    BY <1>2 DEF ParseIntoHeld, PlainParse
  <2>4. PICK q : q = [states EXCEPT ![s] = r]
    OBVIOUS
  <2>5. states' = Append(q, PlainState)
    BY <1>1, <1>2, <2>2, <2>4 DEF ParseIntoHeld, Invalidated
  <2>6. held'.cell = <<RootSlot, n + 1>> /\ held'.of = s
    BY <1>2, <2>1, <2>2, <2>3 DEF ParseIntoHeld
  <2>7. Quiet(r, s)
    BY <1>1 DEF Quiet, Fields
  <2>. HIDE DEF r
  <2>8. OnlyAt(q, n, s) /\ q[s] = r
    BY <1>1, <2>4 DEF OnlyAt
  <2>9. Quiet(q[s], s)
    BY <2>7, <2>8
  <2>10. PICK over : over = Extended(own, n, s)
    OBVIOUS
  <2>11. TInv(over)'
    BY <2>3, <2>5, <2>6, <2>8, <2>9, <2>10, PlainKeeps
  <2>12. QED
    BY <2>11
<1>3. ASSUME NEW s \in DOMAIN states, NEW slot \in Views(s), ParseIntoView(s, slot)
      PROVE  \E over : TInv(over)'
  <2> DEFINE top == <<RootSlot, n + 1>>
             r == [states[s] EXCEPT !.document = NoPointer, !.hostRoot = top,
                                    !.hostValues = [only \in {slot} |-> top],
                                    !.serialized = NoText]
  <2>1. PlainParse /\ parses' = n + 1 /\ s \in 1..n /\ held' = held
    BY <1>1, <1>3 DEF ParseIntoView, PlainParse
  <2>2. PICK q : q = [states EXCEPT ![s] = r]
    OBVIOUS
  <2>3. states' = Append(q, PlainState)
    BY <1>3, <2>1, <2>2 DEF ParseIntoView
  <2>4. /\ r.serialized = NoText /\ r.hostRoot = top
        /\ r.hostValues = [only \in {slot} |-> top]
    BY <1>1, <2>1 DEF Fields
  <2>. HIDE DEF r
  <2>5. OnlyAt(q, n, s) /\ q[s] = r
    BY <1>1, <2>1, <2>2 DEF OnlyAt
  <2>6. Reused(q[s], n + 1)
    BY <2>4, <2>5 DEF Reused
  <2>7. PICK over : over = Extended(own, n, s)
    OBVIOUS
  <2>8. TInv(over)'
    BY <2>1, <2>3, <2>5, <2>6, <2>7, PlainKeeps
  <2>9. QED
    BY <2>8
<1>4. QED
  BY <1>2, <1>3

-----------------------------------------------------------------------------
(* The inductive invariant of the texts: some owners keep documents apart.   *)
TextInv == \E own : TInv(own)

(* It holds initially.                                                       *)
LEMMA InitTexts == Init => TextInv
<1> SUFFICES ASSUME Init PROVE TInv(<< >>)
  BY DEF TextInv
<1>1. /\ parses = 0 /\ states = << >> /\ heap = << >> /\ held.cell = Nothing
  BY DEF Init
<1>2. 1..parses = {} /\ DOMAIN heap = {}
  BY <1>1
<1>3. << >> \in [1..parses -> 1..parses]
  BY <1>2
<1>4. Partitioned(heap, parses, << >>)
  BY <1>1, <1>2 DEF Partitioned
<1>5. Owned(<< >>) /\ TextsKept
  BY <1>1, <1>2, NamedSlots DEF Owned, TextsKept
<1>6. QED
  BY <1>3, <1>4, <1>5 DEF TInv

(* Every step keeps it.                                                      *)
LEMMA NextTexts ==
  ASSUME IInv, TextInv, [Next]_vars
  PROVE  TextInv'
<1>1. PICK own : TInv(own)
  BY DEF TextInv
<1> SUFFICES \E over : TInv(over)'
  BY DEF TextInv
<1>2. CASE UNCHANGED vars
  <2>1. heap' = heap /\ parses' = parses /\ states' = states /\ held' = held
    BY <1>2 DEF vars
  <2>2. \A s \in 1..parses : Quiet(states'[s], s)
    BY <1>1, <2>1 DEF Quiet, TInv, TextsKept
  <2>3. IsContainer(held'.cell) => held'.cell \in DOMAIN heap /\ own[held'.cell[2]] = held'.of
    BY <1>1, <2>1 DEF TInv, Owned
  <2>4. QED
    BY <1>1, <2>1, <2>2, <2>3, QuietKeeps
<1>3. CASE ParseRetained
  BY <1>1, <1>3, RetainedKeeps
<1>4. CASE ParseIntoHeld
  BY <1>1, <1>4, ParseIntoKeeps
<1>5. CASE HeldChild
  BY <1>1, <1>5, HeldChildKeeps
<1>6. CASE WriteHeld
  BY <1>1, <1>6, Effects, EffectKeeps
<1>7. ASSUME NEW s \in DOMAIN states, NEW slot \in Views(s),
             \/ ParseIntoView(s, slot)
             \/ Child(s, slot) \/ HostChild(s, slot)
             \/ WriteView(s, slot) \/ Enumerate(s, slot)
             \/ Stringify(s, slot) \/ Dispose(s, slot)
      PROVE  \E over : TInv(over)'
  <2>1. CASE ParseIntoView(s, slot)
    BY <1>1, <2>1, ParseIntoKeeps
  <2>2. CASE WriteView(s, slot) \/ Enumerate(s, slot)
    BY <1>1, <2>2, Effects, EffectKeeps
  <2>3. QED
    BY <1>1, <1>7, <2>1, <2>2, QuietSteps
<1>8. QED
  BY <1>2, <1>3, <1>4, <1>5, <1>6, <1>7 DEF Next

(* The text kept for a root is that of the value it stands for now, for a    *)
(* tree of any shape, whatever was mutated through whichever view or         *)
(* wrapper, in whichever order with stringify, dispose and reuse             *)
(* (state.serialized of stringifyDynamic).                                   *)
THEOREM TextOfRoot == Spec => []RootText
<1>1. Init => TextInv
  BY InitTexts
<1>2. IInv /\ TextInv /\ [Next]_vars => TextInv'
  BY NextTexts
<1>3. IInv /\ TextInv => RootText
  <2> SUFFICES ASSUME IInv, TextInv, NEW s \in DOMAIN states, Hosted(s) \/ InMemory(s),
                      ToJS(s, RootSlot) # Nothing
               PROVE  Stringified(s, RootSlot) = Text(Known(s), ToJS(s, RootSlot), {})
    BY DEF RootText
  <2>1. PICK own : TInv(own)
    BY DEF TextInv
  <2>2. s \in 1..parses /\ TextsKept /\ Owned(own)
    BY <2>1, ShapeFacts DEF IInv, TInv
  <2>3. CASE Hosted(s)
    <3>1. RootSlot \in DOMAIN states[s].hostValues /\ ToJS(s, RootSlot) = states[s].hostValues[RootSlot]
      BY <2>3 DEF ToJS
    <3>2. ToJS(s, RootSlot) = states[s].hostRoot
      BY <2>2, <2>3, <3>1 DEF Owned, CopyOf
    <3>3. QED
      BY <2>2, <2>3, <3>2 DEF Stringified, Known, TextsKept, Remade
  <2>4. CASE ~Hosted(s)
    BY <2>2, <2>4 DEF Stringified, Known, TextsKept, Remade, ToJS
  <2>5. QED
    BY <2>3, <2>4
<1>4. QED
  BY <1>1, <1>2, <1>3, Invariance, PTL DEF Spec

=============================================================================
