----------------------------- MODULE StoreProofs -----------------------------
(***************************************************************************)
(* The allocator implements module DocumentStore: owned documents are      *)
(* independent values.  What each operation touches of memory comes first: *)
(* it always lies in a free block, in the wilderness, or in the block the  *)
(* operation is about.                                                     *)
(***************************************************************************)
EXTENDS AllocatorProofs

(* The block at c, header and payload, is the same before and after a step.  *)
Spared(c) == \A a \in Addr : c <= a /\ a < c + mem[c].size => mem'[a] = mem[a]

(* The payload of block b of memory m.                                       *)
Payload(m, b) == [k \in 1..(m[b].size - HeaderSize) |-> m[b + k]]

-----------------------------------------------------------------------------
(* The payload of an owned block is a sequence of words.                     *)
LEMMA PayloadFacts ==
  ASSUME NEW m, NEW F, NEW L, NEW top, Heap(m, F, L, top), NEW b \in L
  PROVE  /\ m[b].size - HeaderSize \in Nat
         /\ Payload(m, b) \in Seq(Word)
         /\ Len(Payload(m, b)) = m[b].size - HeaderSize
         /\ \A k \in 1..(m[b].size - HeaderSize) : b + k \in Addr /\ Payload(m, b)[k] = m[b + k]
<1> DEFINE n == m[b].size - HeaderSize
<1>1. b \in F \cup L /\ Size(m, b) >= HeaderSize + 1
  BY DEF Heap
<1>2. /\ b \in Addr /\ b \in Int /\ HeapBase <= b /\ Size(m, b) \in Nat
      /\ b + Size(m, b) <= top
  BY <1>1, BlockFacts
<1>3. top \in Int /\ top <= MaxMemory /\ HeapBase \in Nat /\ MaxMemory \in Nat
  BY ConstantsAssumption DEF Heap
<1>4. n \in Nat /\ Size(m, b) = n + HeaderSize
  BY <1>1, <1>2 DEF Size, HeaderSize
<1>. HIDE DEF n
<1>5. \A k \in 1..n : b + k \in Addr
  BY <1>2, <1>3, <1>4 DEF Addr, HeaderSize
<1>6. m \in [Addr -> Word]
  BY DEF Heap, PlainMemory
<1>7. Payload(m, b) \in [1..n -> Word] /\ \A k \in 1..n : Payload(m, b)[k] = m[b + k]
  BY <1>5, <1>6 DEF Payload, n
<1>8. Payload(m, b) \in Seq(Word) /\ Len(Payload(m, b)) = n
  BY <1>4, <1>7
<1>9. QED
  BY <1>4, <1>5, <1>7, <1>8 DEF n

(* What callers see, before and after a step.                                *)
LEMMA HeldFacts ==
  /\ Held = [b \in live |-> Payload(mem, b)]
  /\ Held' = [b \in live' |-> Payload(mem', b)]
  BY DEF Held, Document, Payload

(* A block that is spared keeps its contents.                                *)
LEMMA SparedKept ==
  ASSUME IInv, NEW c \in live, c \in live', Spared(c)
  PROVE  Held'[c] = Held[c] /\ mem'[c] = mem[c]
<1>1. Heap(mem, Free, live, heapBump)
  BY DEF IInv
<1>2. /\ c \in Int /\ HeapBase <= c /\ mem[c].size \in Nat /\ mem[c].size >= HeaderSize + 1
      /\ c \in Addr
  BY OwnedFacts DEF IInv, TypeOK
<1>3. mem'[c] = mem[c]
  BY <1>2 DEF Spared, HeaderSize
<1>4. \A k \in 1..(mem[c].size - HeaderSize) : mem'[c + k] = mem[c + k]
  <2>1. \A k \in 1..(mem[c].size - HeaderSize) : c + k \in Addr
    BY <1>1, PayloadFacts
  <2>2. QED
    BY <1>2, <2>1 DEF Spared, HeaderSize
<1>5. Payload(mem', c) = Payload(mem, c)
  BY <1>3, <1>4 DEF Payload
<1>6. QED
  BY <1>3, <1>5, HeldFacts

(* A step that leaves memory and the owners alone leaves the documents alone. *)
LEMMA HeldSame ==
  ASSUME UNCHANGED <<mem, live>>
  PROVE  Held' = Held
  BY HeldFacts

(* A step that touches nothing between b and e, outside of block c.          *)
LEMMA SparedBeside ==
  ASSUME IInv, NEW b \in Int, NEW e \in Int, NEW c \in live,
         \A a \in Addr : ~(b <= a /\ a < e) => mem'[a] = mem[a],
         c + mem[c].size <= b \/ e <= c
  PROVE  Spared(c)
<1>1. c \in Int /\ mem[c].size \in Nat
  BY OwnedFacts
<1>2. Addr \subseteq Int
  BY ConstantsAssumption DEF Addr
<1>3. QED
  BY <1>1, <1>2 DEF Spared

(* A step that touches nothing but one block spares the others.              *)
LEMMA OthersSpared ==
  ASSUME IInv, NEW b \in Free \cup live,
         \A a \in Addr : ~(b <= a /\ a < b + mem[b].size) => mem'[a] = mem[a],
         NEW c \in live, c # b
  PROVE  Spared(c)
<1>1. Heap(mem, Free, live, heapBump) /\ c \in Free \cup live
  BY DEF IInv
<1>2. b \in Int /\ c \in Int /\ mem[b].size \in Nat
  BY <1>1, BlockFacts DEF Size
<1>3. c < b => c + mem[c].size <= b
  BY <1>1, BlocksDisjoint DEF Size
<1>4. b < c => b + mem[b].size <= c
  BY <1>1, BlocksDisjoint DEF Size
<1>5. b + mem[b].size \in Int /\ (c < b \/ b < c)
  BY <1>2
<1>6. c + mem[c].size <= b \/ b + mem[b].size <= c
  BY <1>3, <1>4, <1>5
<1>7. QED
  BY <1>2, <1>5, <1>6, SparedBeside

-----------------------------------------------------------------------------
(* What each operation touches.                                              *)

(* Filling a payload touches that payload.                                   *)
LEMMA StoredTouches ==
  ASSUME NEW m, DOMAIN m = Addr, NEW b, NEW n, NEW fill, NEW t \in Stored(m, b, n, fill),
         NEW a \in Addr, ~(b < a /\ a <= b + n)
  PROVE  t[a] = m[a]
  BY DEF Stored

(* allocateBlock takes a block nobody owns and spares all that are owned.    *)
LEMMA AllocateTouches ==
  ASSUME PlainCallers, IInv, NEW n \in Nat \ {0}, NEW reuse, NEW fill,
         AllocateBlock(n, reuse, fill)
  PROVE  \/ UNCHANGED <<mem, live>>
         \/ \E b \in Addr \ live : live' = live \cup {b} /\ \A c \in live : Spared(c)
<1>0. Heap(mem, Free, live, heapBump) /\ mem \in [Addr -> Word] /\ Addr \subseteq Int
  BY ConstantsAssumption DEF IInv, TypeOK, Addr
<1>1. CASE Refuse(Exhausted(n, n))
  BY <1>1 DEF Refuse, heap
<1>2. CASE TakeFree(n, fill)
  <2> DEFINE total == n + HeaderSize
  <2>1. PICK i \in DOMAIN freeList :
          /\ mem[freeList[i]].size >= total
          /\ \/ /\ mem[freeList[i]].size - total >= MinSplitSize
                /\ mem' \in Stored([mem EXCEPT ![freeList[i] + total]
                                                 = Header(mem[freeList[i]].size - total, FALSE),
                                               ![freeList[i]] = Header(total, TRUE)],
                                   freeList[i], n, fill)
             \/ mem' \in Stored([mem EXCEPT ![freeList[i]] = Header(mem[freeList[i]].size, TRUE)],
                                freeList[i], n, fill)
          /\ live' = live \cup {freeList[i]}
    BY <1>2 DEF TakeFree, Fits
  <2> DEFINE b == freeList[i]
  <2>2. b \in Free /\ b \in Free \cup live /\ b \notin live
    BY <1>0 DEF Free, Heap
  <2>3. b \in Int /\ b \in Addr /\ mem[b].size \in Nat
    BY <1>0, <2>2, BlockFacts DEF Size
  <2>4. \A a \in Addr : ~(b <= a /\ a < b + mem[b].size) => mem'[a] = mem[a]
    <3> SUFFICES ASSUME NEW a \in Addr, ~(b <= a /\ a < b + mem[b].size) PROVE mem'[a] = mem[a]
      OBVIOUS
    <3>1. a \in Int /\ a # b /\ ~(b < a /\ a <= b + n)
      BY <1>0, <2>1, <2>3 DEF HeaderSize
    <3>2. CASE /\ mem[b].size - total >= MinSplitSize
               /\ mem' \in Stored([mem EXCEPT ![b + total] = Header(mem[b].size - total, FALSE),
                                              ![b] = Header(total, TRUE)], b, n, fill)
      <4> DEFINE m == [mem EXCEPT ![b + total] = Header(mem[b].size - total, FALSE),
                                  ![b] = Header(total, TRUE)]
      <4>1. a # b + total
        BY <2>3, <3>1, <3>2 DEF MinSplitSize, HeaderSize
      <4>2. DOMAIN m = Addr /\ m[a] = mem[a] /\ mem' \in Stored(m, b, n, fill)
        BY <1>0, <3>1, <3>2, <4>1
      <4>. HIDE DEF m
      <4>3. QED
        BY <3>1, <4>2, StoredTouches
    <3>3. CASE mem' \in Stored([mem EXCEPT ![b] = Header(mem[b].size, TRUE)], b, n, fill)
      <4> DEFINE m == [mem EXCEPT ![b] = Header(mem[b].size, TRUE)]
      <4>1. DOMAIN m = Addr /\ m[a] = mem[a] /\ mem' \in Stored(m, b, n, fill)
        BY <1>0, <3>1, <3>3
      <4>. HIDE DEF m
      <4>2. QED
        BY <3>1, <4>1, StoredTouches
    <3>4. QED
      BY <2>1, <3>2, <3>3
  <2>5. \A c \in live : Spared(c)
    BY <2>2, <2>4, OthersSpared
  <2>6. QED
    BY <2>1, <2>2, <2>3, <2>5
<1>3. CASE n <= MaxPayload /\ TakeWilderness(n, fill)
  <2> DEFINE m == [mem EXCEPT ![heapBump] = Header(n + HeaderSize, TRUE)]
  <2>1. CASE Refuse(Exhausted(Wrap(heapBump + n + HeaderSize), n))
    BY <2>1 DEF Refuse, heap
  <2>2. CASE /\ Wrap(heapBump + n + HeaderSize) >= heapBump
             /\ Wrap(heapBump + n + HeaderSize) <= heapLimit
             /\ mem' \in Stored(m, heapBump, n, fill)
             /\ live' = live \cup {heapBump}
             /\ heapBump' = Wrap(heapBump + n + HeaderSize)
    <3>1. /\ heapBump \in HeapBase..MaxMemory /\ heapBump \in Nat /\ heapBump <= heapLimit
          /\ heapLimit = memSize /\ memSize \in HeapBase..MaxMemory
      BY ConstantsAssumption DEF IInv, TypeOK, WithinMemory
    <3>2. heapBump \notin Free \cup live
      <4>1. ASSUME NEW c \in Free \cup live PROVE c # heapBump
        <5>1. c \in Int /\ Size(mem, c) \in Nat \ {0} /\ c + Size(mem, c) <= heapBump
          BY <1>0, BlockFacts
        <5>2. QED
          BY <3>1, <5>1
      <4>2. QED
        BY <4>1
    <3>3. heapBump \in Addr
      <4>1. Wrap(heapBump + n + HeaderSize) = heapBump + n + HeaderSize
        BY <1>3, <3>1, ConstantsAssumption DEF Wrap, MaxPayload, HeaderSize, PlainCallers
      <4>2. heapBump < MaxMemory
        BY <2>2, <3>1, <4>1, ConstantsAssumption DEF HeaderSize
      <4>3. QED
        BY <3>1, <4>2, ConstantsAssumption DEF Addr
    <3>4. \A a \in Addr : a < heapBump => mem'[a] = mem[a]
      <4>1. DOMAIN m = Addr /\ \A a \in Addr : a # heapBump => m[a] = mem[a]
        BY <1>0
      <4>2. mem' \in Stored(m, heapBump, n, fill)
        BY <2>2
      <4>. HIDE DEF m
      <4>3. ASSUME NEW a \in Addr, a < heapBump
            PROVE  mem'[a] = mem[a]
        <5>1. a # heapBump /\ ~(heapBump < a /\ a <= heapBump + n)
          BY <1>0, <3>1, <4>3
        <5>2. QED
          BY <4>1, <4>2, <5>1, StoredTouches
      <4>4. QED
        BY <4>3
    <3>5. \A c \in live : Spared(c)
      <4>1. \A c \in live : c \in Int /\ mem[c].size \in Nat /\ c + mem[c].size <= heapBump
        BY OwnedFacts
      <4>2. QED
        BY <1>0, <3>1, <3>4, <4>1 DEF Spared
    <3>6. QED
      BY <2>2, <3>2, <3>3, <3>5
  <2>3. QED
    BY <1>3, <2>1, <2>2 DEF TakeWilderness
<1>4. QED
  BY <1>1, <1>2, <1>3 DEF AllocateBlock

(* Resizing touches the header of the block only.                            *)
LEMMA ResizeTouches ==
  ASSUME IInv, NEW b \in live, NEW total, Resize(b, total)
  PROVE  live' = live /\ \A a \in Addr : a # b => mem'[a] = mem[a]
  BY DEF IInv, TypeOK, Resize

(* Putting a block back touches its own header and that of a free block.     *)
LEMMA ReclaimTouches ==
  ASSUME IInv, NEW b \in live, Reclaim(b)
  PROVE  \A c \in live \ {b} : Spared(c)
<1>1. /\ Heap(mem, Free, live, heapBump) /\ mem \in [Addr -> Word] /\ Addr \subseteq Int
      /\ \A i \in 1..Len(freeList) : freeList[i] \in Free
      /\ Len(freeList) \in Nat
  BY ListFacts, ConstantsAssumption DEF IInv, TypeOK, Addr
<1>2. ASSUME NEW c \in live \ {b}, NEW a \in Addr, c <= a, a < c + mem[c].size
      PROVE  a # b /\ a \notin Free
  <2>1. ASSUME NEW d \in Free \cup live, d # c PROVE a # d
    <3>1. c \in Free \cup live
      OBVIOUS
    <3>2. c \in Int /\ d \in Int /\ mem[c].size \in Nat /\ mem[d].size \in Nat \ {0}
      BY <1>1, <2>1, <3>1, BlockFacts DEF Size
    <3>3. c < d => c + mem[c].size <= d
      BY <1>1, <2>1, <3>1, BlocksDisjoint DEF Size
    <3>4. d < c \/ c < d
      BY <2>1, <3>2
    <3>5. QED
      BY <1>1, <1>2, <3>2, <3>3, <3>4
  <2>2. c \notin Free /\ c # b
    BY <1>1, <1>2 DEF Heap
  <2>3. QED
    BY <2>1, <2>2
<1>3. \A a \in Addr : a # b /\ a \notin Free => mem'[a] = mem[a]
  <2> SUFFICES ASSUME NEW a \in Addr, a # b, a \notin Free PROVE mem'[a] = mem[a]
    OBVIOUS
  <2>1. CASE UNCHANGED mem
    BY <2>1
  <2>2. CASE mem' = [mem EXCEPT ![b] = Header(mem[b].size, FALSE)]
    BY <1>1, <2>2
  <2>3. ASSUME NEW i \in 0..Len(freeList), LinkFree(b, i)
        PROVE  mem'[a] = mem[a]
    <3>1. i > 0 => freeList[i] \in Free
      BY <1>1
    <3>2. PICK s : \/ mem' = [mem EXCEPT ![b] = Header(s, FALSE)]
                   \/ /\ i > 0
                      /\ \E h : mem' = [[mem EXCEPT ![b] = Header(s, FALSE)] EXCEPT ![freeList[i]] = h]
      BY <2>3 DEF LinkFree
    <3>3. QED
      BY <1>1, <3>1, <3>2
  <2>4. QED
    BY <2>1, <2>2, <2>3 DEF Reclaim, heap
<1>4. QED
  BY <1>2, <1>3 DEF Spared

-----------------------------------------------------------------------------
(* The steps of the document store.                                          *)

(* A step that takes a block nobody owns creates a document.                 *)
LEMMA CreateStep ==
  ASSUME PlainCallers, IInv, IInv', NEW n \in Nat \ {0}, NEW reuse, NEW fill,
         AllocateBlock(n, reuse, fill)
  PROVE  [Store!Next]_Held
<1>1. CASE UNCHANGED <<mem, live>>
  BY <1>1, HeldSame
<1>2. ASSUME NEW b \in Addr \ live, live' = live \cup {b}, \A c \in live : Spared(c)
      PROVE  Store!Next
  <2>1. DOMAIN Held = live /\ DOMAIN Held' = live \cup {b} /\ Held'[b] = Payload(mem', b)
    BY <1>2, HeldFacts
  <2>2. Held'[b] \in Seq(Word)
    <3>1. Heap(mem', Free', live', heapBump') /\ b \in live'
      BY <1>2 DEF IInv
    <3>2. QED
      BY <2>1, <3>1, PayloadFacts
  <2>3. \A c \in live : Held'[c] = Held[c]
    BY <1>2, SparedKept
  <2>4. Store!Create(b)
    BY <1>2, <2>1, <2>2, <2>3 DEF Store!Create, Store!Untouched
  <2>5. QED
    BY <1>2, <2>4 DEF Store!Next
<1>3. QED
  BY <1>1, <1>2, AllocateTouches

(* A step that touches only the header of its block resizes the document.    *)
LEMMA ResizeStep ==
  ASSUME IInv, IInv', NEW b \in live, NEW total, Resize(b, total)
  PROVE  Store!Next
<1>1. live' = live /\ \A a \in Addr : a # b => mem'[a] = mem[a]
  BY ResizeTouches
<1>2. DOMAIN Held = live /\ DOMAIN Held' = live
      /\ Held[b] = Payload(mem, b) /\ Held'[b] = Payload(mem', b)
  BY <1>1, HeldFacts
<1>3. /\ Held[b] \in Seq(Word) /\ Len(Held[b]) = mem[b].size - HeaderSize
      /\ mem[b].size - HeaderSize \in Nat
      /\ \A k \in 1..(mem[b].size - HeaderSize) : b + k \in Addr /\ Held[b][k] = mem[b + k]
  <2>1. Heap(mem, Free, live, heapBump)
    BY DEF IInv
  <2>2. QED
    BY <1>2, <2>1, PayloadFacts
<1>4. /\ Held'[b] \in Seq(Word) /\ Len(Held'[b]) = mem'[b].size - HeaderSize
      /\ mem'[b].size - HeaderSize \in Nat
      /\ \A k \in 1..(mem'[b].size - HeaderSize) : b + k \in Addr /\ Held'[b][k] = mem'[b + k]
  <2>1. Heap(mem', Free', live', heapBump') /\ b \in live'
    BY <1>1 DEF IInv
  <2>2. QED
    BY <1>2, <2>1, PayloadFacts
<1>5. \A k \in Store!Shared(Held[b], Held'[b]) : Held'[b][k] = Held[b][k]
  <2> SUFFICES ASSUME NEW k \in Store!Shared(Held[b], Held'[b]) PROVE Held'[b][k] = Held[b][k]
    OBVIOUS
  <2>1. k \in 1..(mem[b].size - HeaderSize) /\ k \in 1..(mem'[b].size - HeaderSize)
    BY <1>3, <1>4 DEF Store!Shared
  <2>2. b \in Int /\ b + k # b
    BY <2>1, OwnedFacts
  <2>3. QED
    BY <1>1, <1>3, <1>4, <2>1, <2>2
<1>6. \A c \in live \ {b} : Held'[c] = Held[c]
  <2> SUFFICES ASSUME NEW c \in live \ {b} PROVE Held'[c] = Held[c]
    OBVIOUS
  <2>1. b \in Int /\ mem[b].size \in Nat \ {0} /\ b \in Free \cup live
    BY OwnedFacts DEF HeaderSize
  <2>2. \A a \in Addr : ~(b <= a /\ a < b + mem[b].size) => mem'[a] = mem[a]
    BY <1>1, <2>1
  <2>3. Spared(c)
    BY <2>1, <2>2, OthersSpared
  <2>4. QED
    BY <1>1, <2>3, SparedKept
<1>7. Store!Resize(b)
  BY <1>2, <1>4, <1>5, <1>6 DEF Store!Resize, Store!Others, Store!Untouched
<1>8. QED
  BY <1>2, <1>7 DEF Store!Next

(* A step that stores into the payload of one block.                         *)
LEMMA WriteStep ==
  ASSUME IInv, IInv', NEW b \in live, WritePayload(b)
  PROVE  Store!Next
<1>1. PICK x \in (b + HeaderSize)..(b + mem[b].size - 1), w \in Words :
        mem' = [mem EXCEPT ![x] = w] /\ live' = live
  BY DEF WritePayload
<1>2. /\ b \in Int /\ mem[b].size \in Nat /\ b \in Free \cup live /\ mem \in [Addr -> Word]
      /\ b \in Addr
  BY OwnedFacts DEF IInv, TypeOK
<1>3. \A a \in Addr : ~(b <= a /\ a < b + mem[b].size) => mem'[a] = mem[a]
  BY <1>1, <1>2 DEF HeaderSize
<1>4. mem'[b] = mem[b]
  BY <1>1, <1>2 DEF HeaderSize
<1>5. DOMAIN Held = live /\ DOMAIN Held' = live
      /\ Held[b] = Payload(mem, b) /\ Held'[b] = Payload(mem', b)
  BY <1>1, HeldFacts
<1>6. Held'[b] \in Seq(Word) /\ Len(Held'[b]) = Len(Held[b])
  <2>1. Heap(mem', Free', live', heapBump') /\ b \in live' /\ Heap(mem, Free, live, heapBump)
    BY <1>1 DEF IInv
  <2>2. QED
    BY <1>4, <1>5, <2>1, PayloadFacts
<1>7. \A c \in live \ {b} : Held'[c] = Held[c]
  BY <1>1, <1>2, <1>3, OthersSpared, SparedKept
<1>8. Store!Write(b)
  BY <1>5, <1>6, <1>7 DEF Store!Write, Store!Others, Store!Untouched
<1>9. QED
  BY <1>5, <1>8 DEF Store!Next

(* releaseDocument of an owned document.                                     *)
LEMMA ReleaseStep ==
  ASSUME IInv, NEW b \in live, ReleaseDocument(b + HeaderSize)
  PROVE  Store!Next
<1>1. (b + HeaderSize) - HeaderSize = b
  BY OwnedFacts
<1>2. live' = live \ {b} /\ (UNCHANGED mem \/ Reclaim(b))
  BY <1>1 DEF ReleaseDocument, heap
<1>3. \A c \in live \ {b} : Spared(c)
  BY <1>2, ReclaimTouches DEF Spared
<1>4. DOMAIN Held = live /\ DOMAIN Held' = live \ {b}
  BY <1>2, HeldFacts
<1>5. \A c \in live \ {b} : Held'[c] = Held[c]
  BY <1>2, <1>3, SparedKept
<1>6. Store!Release(b)
  BY <1>4, <1>5 DEF Store!Release, Store!Others, Store!Untouched
<1>7. QED
  BY <1>4, <1>6 DEF Store!Next

-----------------------------------------------------------------------------
(* Every step of the allocator is one of the store, or none.                 *)
LEMMA NextStore ==
  ASSUME PlainCallers, IInv, IInv', [Next]_vars
  PROVE  [Store!Next]_Held
<1>1. ASSUME NEW n \in Payloads,
             AllocateDocument(n) \/ AllocateGrowableDocument(n) \/ CommitBytes(n)
      PROVE  [Store!Next]_Held
  <2>1. n \in Nat \ {0}
    BY DEF PlainCallers
  <2>2. CASE Refuse(ScratchExhausted)
    BY <2>2, HeldSame DEF Refuse, heap
  <2>3. ASSUME NEW reuse, NEW fill, AllocateBlock(n, reuse, fill)
        PROVE  [Store!Next]_Held
    BY <2>1, <2>3, CreateStep
  <2>4. QED
    BY <1>1, <2>2, <2>3 DEF AllocateDocument, AllocateGrowableDocument, CommitBytes
<1>2. ASSUME NEW b \in live, NEW n \in Payloads,
             GrowDocument(b + HeaderSize, n) \/ ReserveDocument(b + HeaderSize, n)
      PROVE  [Store!Next]_Held
  <2>1. \/ \E answer : Refuse(answer)
        \/ \E total : Resize(b, total)
    <3>1. (b + HeaderSize) - HeaderSize = b
      BY OwnedFacts
    <3>2. QED
      BY <1>2, <3>1 DEF GrowDocument, ReserveDocument, GrowDocumentTo
  <2>2. QED
    BY <2>1, HeldSame, ResizeStep DEF Refuse, heap
<1>3. ASSUME NEW b \in live, NEW n \in Payloads, TrimDocument(b + HeaderSize, n)
      PROVE  [Store!Next]_Held
  <2>1. \/ \E answer : Refuse(answer)
        \/ \E total : Resize(b, total)
    <3>1. (b + HeaderSize) - HeaderSize = b
      BY OwnedFacts
    <3>2. QED
      BY <1>3, <3>1 DEF TrimDocument
  <2>2. QED
    BY <2>1, HeldSame, ResizeStep DEF Refuse, heap
<1>4. ASSUME NEW b \in live, ReleaseDocument(b + HeaderSize)
      PROVE  [Store!Next]_Held
  BY <1>4, ReleaseStep
<1>5. ASSUME NEW b \in live, WritePayload(b)
      PROVE  [Store!Next]_Held
  BY <1>5, WriteStep
<1>6. CASE EnsureBytes
  BY <1>6, HeldSame DEF EnsureBytes, heap
<1>7. CASE UNCHANGED vars
  BY <1>7, HeldSame DEF vars
<1>8. QED
  BY <1>1, <1>2, <1>3, <1>4, <1>5, <1>6, <1>7 DEF Next

(* The allocator implements a store of independent documents: no allocation, *)
(* growth, trim, store or release changes a document but its own.            *)
THEOREM ImplementsStore == ASSUME PlainCallers PROVE Spec => StoreSpec
<1>1. Init => Store!Init
  <2> SUFFICES ASSUME Init PROVE Held = << >>
    BY DEF Store!Init
  <2>1. QED
    BY DEF Init, Held
<1>2. IInv /\ IInv' /\ [Next]_vars => [Store!Next]_Held
  BY NextStore
<1>3. QED
  BY <1>1, <1>2, Invariance, PTL DEF Spec, StoreSpec, Store!Spec

=============================================================================
