-------------------------- MODULE TypedParseProofs ---------------------------
(***************************************************************************)
(* RawNodeBinding.parse, for every text and every size of memory: while a  *)
(* parse builds its document, the heap differs from the one it was called  *)
(* on by that one block, and giving the block back restores the free list  *)
(* and the end of the heap exactly, wherever the block was taken from.     *)
(***************************************************************************)
EXTENDS TypedParse, StoreProofs

(* Block b of size granules has been taken from a heap with free list l and  *)
(* end h, which leaves free list f and end top: from the wilderness, by      *)
(* taking a free block whole, or from the front of a free block.            *)
Carved(l, h, f, top, size, b) ==
  \/ b = h /\ f = l /\ b + size = top
  \/ /\ top = h
     /\ b + size # top
     /\ b + size \notin Elements(f)
     /\ \E i \in DOMAIN l : b = l[i] /\ f = RemoveAt(l, i)
  \/ /\ top = h
     /\ \E i \in DOMAIN l : b = l[i] /\ f = ReplaceAt(l, i, b + size)

-----------------------------------------------------------------------------
(* Taking a block.                                                           *)

(* A block taken from the free list.                                         *)
LEMMA CarvedFromFree ==
  ASSUME PlainCallers, IInv, NEW n \in Nat \ {0}, TakeFree(n, {})
  PROVE  /\ last' = Ok
         /\ \E b \in Addr \ live :
              /\ live' = live \cup {b}
              /\ n + HeaderSize <= Size(mem', b)
              /\ \A c \in Free' : c + Size(mem', c) # b
              /\ Carved(freeList, heapBump, freeList', heapBump', Size(mem', b), b)
<1> DEFINE total == n + HeaderSize
<1>1. PICK i \in DOMAIN freeList :
        /\ mem[freeList[i]].size >= total
        /\ \/ /\ mem[freeList[i]].size - total >= MinSplitSize
              /\ freeList' = ReplaceAt(freeList, i, freeList[i] + total)
              /\ mem' \in Stored([mem EXCEPT ![freeList[i] + total]
                                               = Header(mem[freeList[i]].size - total, FALSE),
                                             ![freeList[i]] = Header(total, TRUE)],
                                 freeList[i], n, {})
           \/ /\ mem[freeList[i]].size - total < MinSplitSize
              /\ freeList' = RemoveAt(freeList, i)
              /\ mem' \in Stored([mem EXCEPT ![freeList[i]] = Header(mem[freeList[i]].size, TRUE)],
                                 freeList[i], n, {})
        /\ live' = live \cup {freeList[i]}
        /\ last' = Ok
        /\ UNCHANGED <<heapBump, limits>>
  BY DEF TakeFree, Fits
<1> DEFINE b == freeList[i]
<1>2. /\ freeList \in Seq(Int) /\ Increasing(freeList) /\ Free = Elements(freeList)
      /\ DOMAIN freeList = 1..Len(freeList) /\ Len(freeList) \in Nat
      /\ \A j \in 1..Len(freeList) : freeList[j] \in Free /\ freeList[j] \in Int
  BY ListFacts
<1>3. /\ Heap(mem, Free, live, heapBump) /\ b \in Free /\ b \in Free \cup live /\ b \notin live
      /\ PlainMemory(mem)
  BY <1>1, <1>2 DEF IInv, Heap
<1>4. b \in Addr /\ b \in Int /\ Size(mem, b) \in 0..(WordLimit - 1)
  BY <1>3, BlockFacts
<1>5. /\ \A c \in Free : c + Size(mem, c) # b
      /\ \A c \in Free : b + Size(mem, b) # c
      /\ b + Size(mem, b) # heapBump
  BY <1>3 DEF IInv, Coalesced, End, Size
<1>6. CASE /\ mem[b].size - total >= MinSplitSize
           /\ freeList' = ReplaceAt(freeList, i, b + total)
           /\ mem' \in Stored([mem EXCEPT ![b + total] = Header(mem[b].size - total, FALSE),
                                          ![b] = Header(total, TRUE)], b, n, {})
  <2>1. total \in 0..(WordLimit - 1)
    BY <1>4, <1>6, ConstantsAssumption DEF Size, HeaderSize, MinSplitSize
  <2>2. mem'[b] = Taken(total)
    BY <1>3, <1>4, <1>6 DEF Stored, PlainMemory, Taken
  <2>3. Size(mem', b) = total
    BY <2>1, <2>2, HeaderFacts DEF Size
  <2>4. Carved(freeList, heapBump, freeList', heapBump', Size(mem', b), b)
    BY <1>1, <1>6, <2>3 DEF Carved
  <2>5. ASSUME NEW c \in Free' PROVE c + Size(mem', c) # b
    <3>1. c = b + total \/ (c \in Free /\ c # b)
      <4>1. Free' = Elements(freeList') /\ b + total \in Int
        BY <1>4, <2>1 DEF Free, Elements
      <4>2. Elements(freeList') \subseteq (Free \ {b}) \cup {b + total}
        <5>1. i \in 1..Len(freeList) /\ freeList' = ReplaceAt(freeList, i, b + total)
          BY <1>1, <1>2, <1>6
        <5>2. /\ DOMAIN freeList' = 1..Len(freeList) /\ freeList'[i] = b + total
              /\ \A j \in 1..Len(freeList) : j # i => freeList'[j] = freeList[j]
          BY <1>2, <4>1, <5>1, ReplaceFacts
        <5>3. \A j \in 1..Len(freeList) : j # i => freeList[j] # b
          BY <1>2, <5>1, IncreasingDistinct
        <5>4. QED
          BY <1>2, <5>2, <5>3 DEF Elements
      <4>3. QED
        BY <1>5, <4>1, <4>2
    <3>2. CASE c = b + total
      <4> DEFINE rest == mem[b].size - total
      <4>1. rest \in 0..(WordLimit - 1) /\ b + total \in Addr
        <5>1. b + Size(mem, b) <= heapBump /\ heapBump \in HeapBase..MaxMemory /\ HeapBase <= b
          BY <1>3, BlockFacts DEF Heap
        <5>2. QED
          BY <1>4, <1>6, <2>1, <5>1, ConstantsAssumption DEF Size, MinSplitSize, Addr
      <4>2. mem'[c] = Vacant(rest)
        <5>1. b + total # b
          BY <1>4 DEF HeaderSize
        <5>2. mem' = Put(Put(mem, b + total, Vacant(rest)), b, Taken(total))
          BY <1>6 DEF Stored, Put, Vacant, Taken
        <5>3. DOMAIN mem = Addr
          BY <1>3 DEF PlainMemory
        <5>. HIDE DEF rest, total
        <5>4. QED
          BY <1>4, <3>2, <4>1, <5>1, <5>2, <5>3 DEF Put
      <4>3. Size(mem', c) = rest
        BY <4>1, <4>2, HeaderFacts DEF Size
      <4>. HIDE DEF rest
      <4>4. c + rest # b
        BY <1>4, <2>1, <3>2, <4>1, ConstantsAssumption DEF HeaderSize
      <4>5. QED
        BY <4>3, <4>4
    <3>3. CASE c \in Free /\ c # b /\ c # b + total
      <4>1. c \in Addr
        BY <1>3, <3>3 DEF Heap
      <4>2. mem'[c] = mem[c]
        BY <1>3, <1>6, <3>3, <4>1 DEF Stored, PlainMemory
      <4>3. QED
        BY <1>5, <3>3, <4>2 DEF Size
    <3>4. QED
      BY <3>1, <3>2, <3>3
  <2>6. QED
    BY <1>1, <1>3, <1>4, <2>1, <2>3, <2>4, <2>5
<1>7. CASE /\ freeList' = RemoveAt(freeList, i)
           /\ mem' \in Stored([mem EXCEPT ![b] = Header(mem[b].size, TRUE)], b, n, {})
  <2>1. mem'[b] = Taken(Size(mem, b))
    BY <1>3, <1>4, <1>7 DEF Stored, PlainMemory, Taken, Size
  <2>2. Size(mem', b) = Size(mem, b)
    BY <1>4, <2>1, HeaderFacts DEF Size
  <2>3. Elements(freeList') = Free \ {b} /\ Free' = Elements(freeList')
    BY <1>1, <1>2, <1>7, RemoveIncreasing DEF Free, Elements
  <2>4. Carved(freeList, heapBump, freeList', heapBump', Size(mem', b), b)
    BY <1>1, <1>5, <1>7, <2>2, <2>3 DEF Carved
  <2>5. ASSUME NEW c \in Free' PROVE c + Size(mem', c) # b
    <3>1. c \in Free /\ c # b /\ c \in Addr
      BY <1>3, <2>3, <2>5 DEF Heap
    <3>2. mem'[c] = mem[c]
      BY <1>3, <1>7, <3>1 DEF Stored, PlainMemory
    <3>3. QED
      BY <1>5, <3>1, <3>2 DEF Size
  <2>6. QED
    BY <1>1, <1>3, <1>4, <2>2, <2>4, <2>5 DEF Size
<1>8. QED
  BY <1>1, <1>6, <1>7

(* A block taken from the wilderness, or refused.                            *)
LEMMA CarvedFromWilderness ==
  ASSUME PlainCallers, IInv, NEW n \in Nat \ {0}, n <= MaxPayload, TakeWilderness(n, {})
  PROVE  \/ \E answer \in Answers : Refuse(answer) /\ answer.status # "ok"
         \/ /\ last' = Ok
            /\ \E b \in Addr \ live :
                 /\ live' = live \cup {b}
                 /\ n + HeaderSize <= Size(mem', b)
                 /\ \A c \in Free' : c + Size(mem', c) # b
                 /\ Carved(freeList, heapBump, freeList', heapBump', Size(mem', b), b)
<1> DEFINE end == Wrap(heapBump + n + HeaderSize)
<1>1. /\ heapBump \in HeapBase..MaxMemory /\ heapBump \in Nat /\ heapBump <= heapLimit
      /\ heapLimit = memSize /\ memSize \in HeapBase..MaxMemory
  BY ConstantsAssumption DEF IInv, TypeOK, WithinMemory
<1>2. end = heapBump + n + HeaderSize /\ n + HeaderSize \in 0..(WordLimit - 1)
  BY <1>1, ConstantsAssumption DEF Wrap, MaxPayload, HeaderSize, PlainCallers
<1>3. CASE Refuse(Exhausted(end, n))
  <2>1. end \in Nat
    BY <1>1, <1>2 DEF HeaderSize
  <2>2. Exhausted(end, n) \in Answers /\ Exhausted(end, n).status # "ok"
    BY <2>1, AnswerFacts DEF Exhausted
  <2>3. QED
    BY <1>3, <2>2
<1>4. CASE /\ end <= heapLimit
           /\ heapBump' = end
           /\ mem' \in Stored([mem EXCEPT ![heapBump] = Header(n + HeaderSize, TRUE)],
                              heapBump, n, {})
           /\ live' = live \cup {heapBump}
           /\ last' = Ok
           /\ UNCHANGED <<freeList, limits>>
  <2>1. heapBump \in Addr
    BY <1>1, <1>2, <1>4, ConstantsAssumption DEF Addr, HeaderSize
  <2>2. Heap(mem, Free, live, heapBump) /\ PlainMemory(mem)
    BY DEF IInv, Heap
  <2>3. heapBump \notin live /\ \A c \in Free' : c + Size(mem', c) # heapBump
    <3>1. \A c \in Free \cup live : c # heapBump /\ c \in Addr
      <4>1. ASSUME NEW c \in Free \cup live PROVE c # heapBump /\ c \in Addr
        <5>1. /\ c \in Int /\ Size(mem, c) \in Nat \ {0} /\ c + Size(mem, c) <= heapBump
              /\ c \in Addr
          BY <2>2, BlockFacts
        <5>2. QED
          BY <1>1, <5>1
      <4>2. QED
        BY <4>1
    <3>2. \A c \in Free : mem'[c] = mem[c]
      BY <1>4, <2>2, <3>1 DEF Stored, PlainMemory
    <3>3. Free' = Free /\ \A c \in Free : c + mem[c].size # heapBump
      BY <1>4 DEF IInv, Coalesced, End, Free
    <3>4. QED
      BY <3>1, <3>2, <3>3 DEF Size
  <2>4. mem'[heapBump] = Taken(n + HeaderSize)
    BY <1>4, <2>1, <2>2 DEF Stored, PlainMemory, Taken
  <2>5. Size(mem', heapBump) = n + HeaderSize
    BY <1>2, <2>4, HeaderFacts DEF Size
  <2>6. heapBump + Size(mem', heapBump) = heapBump'
    BY <1>1, <1>2, <1>4, <2>5 DEF HeaderSize
  <2>7. Carved(freeList, heapBump, freeList', heapBump', Size(mem', heapBump), heapBump)
    BY <1>4, <2>6 DEF Carved
  <2>8. n + HeaderSize <= Size(mem', heapBump)
    BY <1>2, <2>5
  <2>9. QED
    BY <1>4, <2>1, <2>3, <2>7, <2>8
<1>5. QED
  BY <1>3, <1>4 DEF TakeWilderness

(* allocateDocument.                                                         *)
LEMMA CarvedOrRefused ==
  ASSUME PlainCallers, IInv, NEW n \in Nat \ {0}, AllocateDocument(n)
  PROVE  \/ \E answer \in Answers : Refuse(answer) /\ answer.status # "ok"
         \/ /\ last' = Ok
            /\ \E b \in Addr \ live :
                 /\ live' = live \cup {b}
                 /\ n + HeaderSize <= Size(mem', b)
                 /\ \A c \in Free' : c + Size(mem', c) # b
                 /\ Carved(freeList, heapBump, freeList', heapBump', Size(mem', b), b)
<1>1. CASE Refuse(Exhausted(n, n))
  <2>1. Exhausted(n, n) \in Answers /\ Exhausted(n, n).status # "ok"
    BY AnswerFacts DEF Exhausted
  <2>2. QED
    BY <1>1, <2>1
<1>2. CASE TakeFree(n, {})
  BY <1>2, CarvedFromFree
<1>3. CASE n <= MaxPayload /\ TakeWilderness(n, {})
  BY <1>3, CarvedFromWilderness
<1>4. QED
  BY <1>1, <1>2, <1>3 DEF AllocateDocument, AllocateBlock

-----------------------------------------------------------------------------
(* Giving the block back.                                                    *)

(* A block taken whole goes back to the place it was taken from.             *)
LEMMA PlaceOfRemoved ==
  ASSUME NEW l \in Seq(Int), Increasing(l), NEW p \in 1..Len(l), NEW f, f = RemoveAt(l, p),
         NEW i \in 0..Len(f), \A j \in 1..i : f[j] < l[p], i < Len(f) => l[p] < f[i + 1]
  PROVE  i + 1 = p
<1>1. /\ Len(f) = Len(l) - 1 /\ Len(l) \in Nat /\ p \in Nat
      /\ \A j \in 1..(p - 1) : f[j] = l[j]
      /\ \A j \in p..(Len(l) - 1) : f[j] = l[j + 1]
      /\ DOMAIN l = 1..Len(l) /\ \A j \in 1..Len(l) : l[j] \in Int
  <2>1. /\ Len(f) = Len(l) - 1
        /\ \A j \in 1..(p - 1) : f[j] = l[j]
        /\ \A j \in p..(Len(l) - 1) : f[j] = l[j + 1]
    BY RemoveFacts
  <2>2. Len(l) \in Nat /\ DOMAIN l = 1..Len(l) /\ \A j \in 1..Len(l) : l[j] \in Int
    OBVIOUS
  <2>3. QED
    BY <2>1, <2>2
<1>2. ~(p <= i)
  <2>1. SUFFICES ASSUME p <= i PROVE FALSE
    OBVIOUS
  <2>2. p \in p..(Len(l) - 1) /\ p + 1 \in 1..Len(l) /\ p \in 1..i /\ p < p + 1
    BY <1>1, <2>1
  <2>3. f[p] = l[p + 1] /\ l[p] < l[p + 1]
    <3>1. f[p] = l[p + 1]
      BY <1>1, <2>2
    <3>2. p \in DOMAIN l /\ p + 1 \in DOMAIN l
      BY <1>1, <2>2
    <3>3. QED
      BY <2>2, <3>1, <3>2 DEF Increasing
  <2>4. f[p] < l[p]
    BY <2>2
  <2>5. QED
    BY <1>1, <2>2, <2>3, <2>4
<1>3. ~(i + 1 < p)
  <2>1. SUFFICES ASSUME i + 1 < p PROVE FALSE
    OBVIOUS
  <2>2. i + 1 \in 1..(p - 1) /\ i + 1 \in 1..Len(l) /\ i < Len(f)
    BY <1>1, <2>1
  <2>3. f[i + 1] = l[i + 1] /\ l[i + 1] < l[p]
    BY <1>1, <2>1, <2>2 DEF Increasing
  <2>4. l[p] < f[i + 1]
    BY <2>2
  <2>5. QED
    BY <1>1, <2>2, <2>3, <2>4
<1>4. QED
  BY <1>1, <1>2, <1>3

(* The front of a free block goes back before the rest of it.                *)
LEMMA PlaceOfReplaced ==
  ASSUME NEW l \in Seq(Int), Increasing(l), NEW p \in 1..Len(l), NEW r \in Int, l[p] < r,
         NEW f, f = ReplaceAt(l, p, r),
         NEW i \in 0..Len(f), \A j \in 1..i : f[j] < l[p], i < Len(f) => l[p] < f[i + 1]
  PROVE  i + 1 = p /\ i < Len(f) /\ f[i + 1] = r
<1>1. /\ Len(f) = Len(l) /\ Len(l) \in Nat /\ p \in Nat /\ f[p] = r
      /\ \A j \in 1..Len(l) : j # p => f[j] = l[j]
      /\ DOMAIN l = 1..Len(l) /\ \A j \in 1..Len(l) : l[j] \in Int
  BY ReplaceFacts
<1>2. ~(p <= i)
  <2>1. SUFFICES ASSUME p <= i PROVE FALSE
    OBVIOUS
  <2>2. f[p] < l[p]
    BY <1>1, <2>1
  <2>3. QED
    BY <1>1, <2>2
<1>3. ~(i + 1 < p)
  <2>1. SUFFICES ASSUME i + 1 < p PROVE FALSE
    OBVIOUS
  <2>2. i + 1 \in 1..Len(l) /\ i + 1 # p /\ i < Len(f)
    BY <1>1, <2>1
  <2>3. f[i + 1] = l[i + 1] /\ l[i + 1] < l[p]
    BY <1>1, <2>1, <2>2 DEF Increasing
  <2>4. l[p] < f[i + 1]
    BY <2>2
  <2>5. QED
    BY <1>1, <2>2, <2>3, <2>4
<1>4. i + 1 = p
  BY <1>1, <1>2, <1>3
<1>5. QED
  BY <1>1, <1>4

(* What LinkFree does when no free block ends where b starts.                *)
LEMMA LinkForward ==
  ASSUME IInv, NEW b \in live, NEW i, Place(b, i), \A c \in Free : c + Size(mem, c) # b,
         LinkFree(b, i)
  PROVE  \/ /\ i < Len(freeList) /\ b + Size(mem, b) = freeList[i + 1]
            /\ RollBack(ReplaceAt(freeList, i + 1, b),
                        Put(mem, b, Vacant(Size(mem, b) + Size(mem, freeList[i + 1]))))
         \/ /\ ~(i < Len(freeList) /\ b + Size(mem, b) = freeList[i + 1])
            /\ RollBack(InsertAt(freeList, i + 1, b), Freed(mem, b))
<1> DEFINE c == freeList[i + 1]
           p == freeList[i]
           mergeNext == i < Len(freeList) /\ b + Size(mem, b) = c
           mergePrev == i > 0 /\ p + Size(mem, p) = b
           size == Size(mem, b) + (IF mergeNext THEN Size(mem, c) ELSE 0)
           l == IF mergeNext THEN ReplaceAt(freeList, i + 1, b) ELSE InsertAt(freeList, i + 1, b)
           t == Put(mem, b, Vacant(size))
<1>1. i \in 0..Len(freeList) /\ Len(freeList) \in Nat
      /\ \A j \in 1..Len(freeList) : freeList[j] \in Free
  BY ListFacts DEF Place
<1>2. ~mergePrev
  <2>1. i > 0 => p \in Free
    BY <1>1
  <2>2. QED
    BY <2>1
<1>3. LET list == IF mergePrev THEN RemoveAt(l, i + 1) ELSE l
          merged == IF mergePrev THEN Put(t, p, Vacant(Size(mem, p) + size)) ELSE t
      IN  mem' = merged /\ RollBack(list, merged)
  BY DEF LinkFree, Size, Put, Vacant
<1>. HIDE DEF mergePrev, l, t
<1>4. RollBack(l, t)
  BY <1>2, <1>3
<1>5. CASE mergeNext
  <2>1. l = ReplaceAt(freeList, i + 1, b) /\ t = Put(mem, b, Vacant(Size(mem, b) + Size(mem, c)))
    BY <1>5 DEF l, t
  <2>2. QED
    BY <1>4, <1>5, <2>1
<1>6. CASE ~mergeNext
  <2>1. Size(mem, b) \in Nat
    BY OwnedFacts DEF Size
  <2>2. size = Size(mem, b)
    BY <1>6, <2>1
  <2>3. l = InsertAt(freeList, i + 1, b) /\ t = Freed(mem, b)
    BY <1>6, <2>2 DEF l, t, Freed
  <2>4. QED
    BY <1>4, <1>6, <2>3
<1>7. QED
  BY <1>5, <1>6

(* The heap does not shrink when no block of the list ends at its top.       *)
LEMMA RollBackNothing ==
  ASSUME NEW l \in Seq(Int), NEW m, RollBack(l, m),
         \A d \in Elements(l) : d + Size(m, d) # heapBump
  PROVE  heapBump' = heapBump /\ freeList' = l
  BY DEF RollBack, Elements, Size

(* The heap shrinks over the only block of the list that ends at its top.    *)
LEMMA RollBackOver ==
  ASSUME NEW l \in Seq(Int), NEW m, RollBack(l, m), NEW k \in 1..Len(l),
         l[k] + Size(m, l[k]) = heapBump,
         \A j \in 1..Len(l) : j # k => l[j] + Size(m, l[j]) # heapBump
  PROVE  heapBump' = l[k] /\ freeList' = RemoveAt(l, k)
<1>1. DOMAIN l = 1..Len(l)
  OBVIOUS
<1>2. ~(\A j \in DOMAIN l : l[j] + m[l[j]].size # heapBump)
  BY <1>1 DEF Size
<1>3. PICK j \in DOMAIN l : /\ l[j] + m[l[j]].size = heapBump
                            /\ heapBump' = l[j]
                            /\ freeList' = RemoveAt(l, j)
  BY <1>2 DEF RollBack
<1>4. j = k
  BY <1>1, <1>3 DEF Size
<1>5. QED
  BY <1>3, <1>4

(* A free block of the heap does not end at its top.                         *)
LEMMA FreeEnds ==
  ASSUME IInv
  PROVE  /\ Heap(mem, Free, live, heapBump)
         /\ \A d \in Free : d + Size(mem, d) # heapBump
  BY DEF IInv, Coalesced, End, Size

(* A block taken from the wilderness goes back to it.                        *)
LEMMA RestoredTop ==
  ASSUME IInv, NEW b \in live, b + Size(mem, b) = heapBump,
         \A c \in Free : c + Size(mem, c) # b,
         NEW i, Place(b, i), LinkFree(b, i)
  PROVE  heapBump' = b /\ freeList' = freeList
<1> DEFINE l == InsertAt(freeList, i + 1, b)
           t == Freed(mem, b)
<1>1. /\ freeList \in Seq(Int) /\ Len(freeList) \in Nat /\ i \in Nat /\ i + 1 \in 1..(Len(freeList) + 1)
      /\ \A j \in 1..Len(freeList) : freeList[j] \in Free
  BY ListFacts, PlaceFacts
<1>2. b \in Int
  BY OwnedFacts
<1>3. ~(i < Len(freeList) /\ b + Size(mem, b) = freeList[i + 1])
  <2>1. SUFFICES ASSUME i < Len(freeList), heapBump = freeList[i + 1] PROVE FALSE
    OBVIOUS
  <2>2. heapBump \in Free \cup live
    BY <1>1, <2>1
  <2>3. Size(mem, heapBump) \in Nat \ {0} /\ heapBump \in Int
        /\ heapBump + Size(mem, heapBump) <= heapBump
    BY <2>2, FreeEnds, BlockFacts
  <2>4. QED
    BY <2>3
<1>4. RollBack(l, t)
  BY <1>3, LinkForward
<1>5. Linked(l, t, b, i)
  BY <1>3, LinkAlone
<1>6. Size(t, b) = Size(mem, b)
  BY FreedFacts
<1>. HIDE DEF l, t
<1>7. /\ l \in Seq(Int) /\ Increasing(l) /\ i + 1 \in 1..Len(l) /\ l[i + 1] = b
      /\ \A d \in Elements(l) : d # b => d \in Free /\ Size(t, d) = Size(mem, d)
  BY <1>5 DEF Linked
<1>8. ASSUME NEW j \in 1..Len(l), j # i + 1 PROVE l[j] + Size(t, l[j]) # heapBump
  <2>1. l[j] # b
    BY <1>7, <1>8, IncreasingDistinct
  <2>2. l[j] \in Elements(l)
    BY <1>7 DEF Elements
  <2>3. QED
    BY <1>7, <2>1, <2>2, FreeEnds
<1>9. heapBump' = b /\ freeList' = RemoveAt(l, i + 1)
  BY <1>4, <1>6, <1>7, <1>8, RollBackOver
<1>10. RemoveAt(l, i + 1) = freeList
  BY <1>1, <1>2, InsertUndone DEF l
<1>11. QED
  BY <1>9, <1>10

(* A block between owned blocks is linked in as it is.                       *)
LEMMA RestoredWhole ==
  ASSUME IInv, NEW b \in live, b + Size(mem, b) # heapBump, b + Size(mem, b) \notin Free,
         \A c \in Free : c + Size(mem, c) # b,
         NEW i, Place(b, i), LinkFree(b, i)
  PROVE  heapBump' = heapBump /\ freeList' = InsertAt(freeList, i + 1, b)
<1> DEFINE l == InsertAt(freeList, i + 1, b)
           t == Freed(mem, b)
<1>1. /\ Len(freeList) \in Nat /\ i \in Nat /\ i + 1 \in 1..(Len(freeList) + 1)
      /\ \A j \in 1..Len(freeList) : freeList[j] \in Free
  BY ListFacts, PlaceFacts
<1>2. ~(i < Len(freeList) /\ b + Size(mem, b) = freeList[i + 1])
  BY <1>1
<1>3. RollBack(l, t)
  BY <1>2, LinkForward
<1>4. Linked(l, t, b, i)
  BY <1>2, LinkAlone
<1>5. Size(t, b) = Size(mem, b)
  BY FreedFacts
<1>. HIDE DEF l, t
<1>6. /\ l \in Seq(Int)
      /\ \A d \in Elements(l) : d # b => d \in Free /\ Size(t, d) = Size(mem, d)
  BY <1>4 DEF Linked
<1>7. \A d \in Elements(l) : d + Size(t, d) # heapBump
  BY <1>5, <1>6, FreeEnds
<1>8. QED
  BY <1>3, <1>6, <1>7, RollBackNothing DEF l

(* The front of a free block is merged with the rest of it again.            *)
LEMMA RestoredFront ==
  ASSUME PlainCallers, IInv, NEW b \in live, \A c \in Free : c + Size(mem, c) # b,
         NEW i, Place(b, i), i < Len(freeList), freeList[i + 1] = b + Size(mem, b),
         LinkFree(b, i)
  PROVE  heapBump' = heapBump /\ freeList' = ReplaceAt(freeList, i + 1, b)
<1> DEFINE c == freeList[i + 1]
           n == Size(mem, b) + Size(mem, c)
           l == ReplaceAt(freeList, i + 1, b)
           t == Put(mem, b, Vacant(n))
<1>1. c \in Free /\ c \in Free \cup live /\ b \in Free \cup live
  BY ListFacts, PlaceFacts
<1>2. /\ Size(mem, b) \in Nat /\ b \in Int /\ b \in Addr /\ HeapBase <= b
      /\ Size(mem, c) \in Nat /\ c + Size(mem, c) <= heapBump
  BY <1>1, FreeEnds, BlockFacts
<1>3. b + n = c + Size(mem, c)
  BY <1>2
<1>4. n \in 0..(WordLimit - 1)
  <2>1. heapBump \in HeapBase..MaxMemory
    BY DEF IInv, TypeOK
  <2>2. n \in Nat
    BY <1>2
  <2>. HIDE DEF n, c
  <2>3. QED
    BY <1>2, <1>3, <2>1, <2>2, ConstantsAssumption DEF PlainCallers
<1>5. RollBack(l, t)
  BY LinkForward
<1>6. Linked(l, t, b, i)
  BY LinkNext
<1>7. Size(t, b) = n
  <2>1. PlainMemory(mem)
    BY FreeEnds DEF Heap
  <2>. HIDE DEF n
  <2>2. QED
    BY <1>2, <1>4, <2>1, PutFree
<1>. HIDE DEF l, t, n
<1>8. /\ l \in Seq(Int)
      /\ \A d \in Elements(l) : d # b => d \in Free /\ Size(t, d) = Size(mem, d)
  BY <1>6 DEF Linked
<1>9. b + Size(t, b) # heapBump
  BY <1>1, <1>3, <1>7, FreeEnds
<1>10. \A d \in Elements(l) : d + Size(t, d) # heapBump
  BY <1>8, <1>9, FreeEnds
<1>11. QED
  BY <1>5, <1>8, <1>10, RollBackNothing DEF l

(* The three ways of taking a block back.                                    *)
LEMMA ReclaimCases ==
  ASSUME IInv, NEW b \in live, Reclaim(b)
  PROVE  \/ /\ freeList = << >> /\ b + Size(mem, b) = heapBump
            /\ heapBump' = b /\ freeList' = freeList
         \/ /\ freeList = << >> /\ b + Size(mem, b) # heapBump
            /\ heapBump' = heapBump /\ freeList' = <<b>>
         \/ \E i : Place(b, i) /\ LinkFree(b, i)
<1>1. /\ Len(freeList) \in Nat /\ b \in Int /\ b \notin Free
      /\ \A j \in 1..Len(freeList) : freeList[j] \in Free /\ freeList[j] \in Int
  BY ListFacts, OwnedFacts, FreeEnds DEF Heap
<1>2. ASSUME NEW i \in 0..Len(freeList), \A j \in 1..i : freeList[j] < b,
             \/ i < Len(freeList) /\ freeList[i + 1] = b
             \/ (i < Len(freeList) => freeList[i + 1] > b) /\ LinkFree(b, i)
      PROVE  Place(b, i) /\ LinkFree(b, i)
  <2>1. i < Len(freeList) => i + 1 \in 1..Len(freeList)
    BY <1>1
  <2>2. ~(i < Len(freeList) /\ freeList[i + 1] = b)
    BY <1>1, <2>1
  <2>3. i < Len(freeList) => b < freeList[i + 1]
    BY <1>1, <1>2, <2>1, <2>2
  <2>4. QED
    BY <1>2, <2>2, <2>3 DEF Place
<1>3. CASE \E i \in 0..Len(freeList) :
             /\ \A j \in 1..i : freeList[j] < b
             /\ \/ i < Len(freeList) /\ freeList[i + 1] = b
                \/ (i < Len(freeList) => freeList[i + 1] > b) /\ LinkFree(b, i)
  BY <1>2, <1>3
<1>4. QED
  BY <1>3 DEF Reclaim, AtWilderness, Size

(* releaseDocument of a block restores the heap it was carved from.          *)
LEMMA Restored ==
  ASSUME PlainCallers, IInv, NEW l \in Seq(Int), Increasing(l), NEW h, NEW b \in live,
         \A c \in Free : c + Size(mem, c) # b,
         Carved(l, h, freeList, heapBump, Size(mem, b), b),
         ReleaseDocument(b + HeaderSize)
  PROVE  freeList' = l /\ heapBump' = h /\ live' = live \ {b}
<1> DEFINE n == Size(mem, b)
<1>1. Reclaim(b) /\ live' = live \ {b}
  BY ReleaseReclaims
<1>2. /\ freeList \in Seq(Int) /\ Free = Elements(freeList) /\ Len(freeList) \in Nat
      /\ DOMAIN l = 1..Len(l) /\ Len(l) \in Nat
      /\ \A j \in 1..Len(l) : l[j] \in Int
  BY ListFacts
<1>3. b \in Int /\ n \in Nat /\ n > 0
  BY OwnedFacts DEF Size, HeaderSize
<1>. HIDE DEF n
<1>4. CASE b = h /\ freeList = l /\ b + n = heapBump
  BY <1>1, <1>4, ReclaimCases, RestoredTop DEF n
<1>5. ASSUME heapBump = h, b + n # heapBump, b + n \notin Elements(freeList),
             NEW p \in DOMAIN l, b = l[p], freeList = RemoveAt(l, p)
      PROVE  freeList' = l /\ heapBump' = h
  <2>1. p \in 1..Len(l)
    BY <1>2, <1>5
  <2>2. InsertAt(freeList, p, b) = l
    BY <1>5, <2>1, RemoveUndone
  <2>3. CASE freeList = << >> /\ heapBump' = heapBump /\ freeList' = <<b>>
    <3>1. Len(freeList) = 0 /\ Len(freeList) = Len(l) - 1
      BY <1>5, <2>1, <2>3, RemoveFacts
    <3>2. Len(l) = 1
      <4>1. Len(l) \in Nat
        BY <1>2
      <4>2. QED
        BY <3>1, <4>1
    <3>3. p = 1
      BY <2>1, <3>2
    <3>4. l = <<b>>
      BY <1>2, <1>5, <3>2, <3>3, SeqEqual
    <3>5. QED
      BY <1>5, <2>3, <3>4
  <2>4. ASSUME NEW i, Place(b, i), LinkFree(b, i)
        PROVE  freeList' = l /\ heapBump' = h
    <3>1. heapBump' = heapBump /\ freeList' = InsertAt(freeList, i + 1, b)
      BY <1>2, <1>5, <2>4, RestoredWhole DEF n
    <3>2. i + 1 = p
      BY <1>5, <2>1, <2>4, PlaceOfRemoved DEF Place
    <3>3. QED
      BY <1>5, <2>2, <3>1, <3>2
  <2>5. QED
    BY <1>1, <1>5, <2>3, <2>4, ReclaimCases DEF n
<1>6. ASSUME heapBump = h, NEW p \in DOMAIN l, b = l[p], freeList = ReplaceAt(l, p, b + n)
      PROVE  freeList' = l /\ heapBump' = h
  <2>1. p \in 1..Len(l) /\ b + n \in Int /\ b < b + n
    BY <1>2, <1>3, <1>6
  <2>2. Len(freeList) = Len(l) /\ ReplaceAt(freeList, p, b) = l
    BY <1>6, <2>1, ReplaceFacts, ReplaceUndone
  <2>3. freeList # << >>
    BY <1>2, <2>1, <2>2
  <2>4. ASSUME NEW i, Place(b, i), LinkFree(b, i)
        PROVE  freeList' = l /\ heapBump' = h
    <3>1. i + 1 = p /\ i < Len(freeList) /\ freeList[i + 1] = b + n
      <4>1. /\ i \in 0..Len(freeList) /\ \A j \in 1..i : freeList[j] < l[p]
            /\ i < Len(freeList) => l[p] < freeList[i + 1]
        BY <1>6, <2>4 DEF Place
      <4>2. l[p] < b + n /\ b + n \in Int /\ freeList = ReplaceAt(l, p, b + n)
        BY <1>6, <2>1
      <4>3. QED
        BY <2>1, <4>1, <4>2, PlaceOfReplaced
    <3>2. heapBump' = heapBump /\ freeList' = ReplaceAt(freeList, i + 1, b)
      BY <2>4, <3>1, RestoredFront DEF n
    <3>3. QED
      BY <1>6, <2>2, <3>1, <3>2
  <2>5. QED
    BY <1>1, <2>3, <2>4, ReclaimCases
<1>7. Carved(l, h, freeList, heapBump, n, b)
  BY DEF n
<1>8. QED
  BY <1>1, <1>4, <1>5, <1>6, <1>7 DEF Carved

-----------------------------------------------------------------------------
(* The invariant of a parse.                                                 *)

Tiers == {"compact", "conservative"}

Waiting == [phase : {"allocate", "refused"}, text : Texts, tier : Tiers, retried : BOOLEAN]

Building == [phase : {"build"}, text : Texts, tier : Tiers, retried : BOOLEAN, document : Int]

Calls == {NoCall} \cup Waiting \cup Building

(* The heap a call began on, and that it has no outcome yet.                 *)
Begun ==
  ~Idle => /\ before \in [freeList : Seq(Int), heapBump : Int, live : SUBSET Addr]
           /\ Increasing(before.freeList)
           /\ outcome.result = "none"

(* A call that has no block has changed nothing.                             *)
Unspent == call.phase \in {"allocate", "refused"} => HeapNow = before

(* Block b is what the call has taken from the heap it began on.             *)
Borrowed(b) ==
  /\ b \in live
  /\ b \notin before.live
  /\ live = before.live \cup {b}
  /\ \A c \in Free : c + Size(mem, c) # b
  /\ Carved(before.freeList, before.heapBump, freeList, heapBump, Size(mem, b), b)

Construction ==
  call.phase = "build" =>
    /\ Borrowed(call.document - HeaderSize)
    /\ Capacity(call.text, call.tier) + HeaderSize <= Size(mem, call.document - HeaderSize)

ParseInv ==
  /\ IInv
  /\ call \in Calls
  /\ Begun
  /\ Unspent
  /\ Construction
  /\ HeapRestored
  /\ ParsedFits

-----------------------------------------------------------------------------

(* The phases of a call.                                                     *)
LEMMA CallFacts ==
  ASSUME call \in Calls
  PROVE  /\ Idle => call = NoCall
         /\ call.phase \in {"allocate", "refused"} => call \in Waiting
         /\ call.phase = "build" => call \in Building
         /\ call.phase \in Phases
         /\ ~Idle => /\ call.phase \in {"allocate", "refused", "build"}
                     /\ call.text \in Texts /\ call.tier \in Tiers /\ call.retried \in BOOLEAN
<1>1. NoCall.phase = "idle"
  BY DEF NoCall
<1>2. CASE call = NoCall
  BY <1>1, <1>2 DEF Idle, Phases
<1>3. CASE call \in Waiting
  BY <1>3 DEF Waiting, Idle, Phases
<1>4. CASE call \in Building
  BY <1>4 DEF Building, Idle, Phases
<1>5. QED
  BY <1>2, <1>3, <1>4 DEF Calls

(* What is asked for a text is a block of at least one granule.              *)
LEMMA CapacityFacts ==
  ASSUME NEW text \in Texts, NEW tier
  PROVE  /\ Capacity(text, tier) \in Nat \ {0}
         /\ text.size \in Nat \ {0} /\ text.peak \in Nat /\ text.size <= text.peak
<1>1. /\ text.length \in Nat \ {0} /\ text.size \in Nat \ {0} /\ text.peak \in Nat
      /\ text.size <= text.peak /\ RecordSize \in Nat
  BY TextsAssumption
<1>2. text.length \div 4 \in Nat
  BY <1>1
<1>3. QED
  BY <1>1, <1>2 DEF Capacity, BaseCapacity

(* A step that leaves the allocator alone keeps its invariant.               *)
LEMMA SameHeap ==
  ASSUME IInv, UNCHANGED vars
  PROVE  IInv' /\ HeapNow' = HeapNow
<1>1. Refuse(last)
  BY DEF vars, Refuse, heap, limits
<1>2. last \in Answers
  BY DEF IInv, TypeOK, Answers
<1>3. QED
  BY <1>1, <1>2, RefuseInv DEF vars, HeapNow

(* The initial states.                                                       *)
LEMMA ParseInitInv == ParseInit => ParseInv
<1> SUFFICES ASSUME ParseInit PROVE ParseInv
  OBVIOUS
<1>1. IInv
  BY InitInv DEF ParseInit
<1>2. call = NoCall /\ call.phase = "idle" /\ outcome.result = "none"
  BY DEF ParseInit, NoCall
<1>3. QED
  BY <1>1, <1>2 DEF ParseInv, Calls, Begun, Idle, Unspent, Construction, HeapRestored, ParsedFits

(* A step to a waiting call on the heap the call began on.                   *)
LEMMA WaitingInv ==
  ASSUME IInv', call' \in Waiting, HeapNow' = before',
         before' \in [freeList : Seq(Int), heapBump : Int, live : SUBSET Addr],
         Increasing(before'.freeList), outcome'.result = "none"
  PROVE  ParseInv'
<1>1. call' \in Calls /\ call'.phase # "build"
  BY DEF Waiting, Calls
<1>2. QED
  BY <1>1 DEF ParseInv, Begun, Unspent, Construction, HeapRestored, ParsedFits

(* The call begins.                                                          *)
LEMMA ParseBegins ==
  ASSUME ParseInv, NEW text \in Texts, Parse(text)
  PROVE  ParseInv'
<1>1. IInv' /\ HeapNow' = HeapNow
  BY SameHeap DEF ParseInv, Parse
<1>2. call' \in Waiting
  BY DEF Parse, Waiting, Tiers
<1>3. before' = HeapNow /\ outcome'.result = "none"
  BY DEF Parse
<1>4. IInv
  BY DEF ParseInv
<1>5. freeList \in Seq(Int) /\ Increasing(freeList) /\ heapBump \in Int /\ live \subseteq Addr
  BY <1>4, ListFacts, ConstantsAssumption DEF IInv, TypeOK
<1>6. /\ before'.freeList = freeList
      /\ before' \in [freeList : Seq(Int), heapBump : Int, live : SUBSET Addr]
  BY <1>3, <1>5 DEF HeapNow
<1>7. QED
  BY <1>5, <1>6, <1>1, <1>2, <1>3, WaitingInv

(* What a call in progress knows.                                            *)
LEMMA BegunFacts ==
  ASSUME ParseInv, ~Idle
  PROVE  /\ IInv /\ call \in Calls
         /\ before \in [freeList : Seq(Int), heapBump : Int, live : SUBSET Addr]
         /\ Increasing(before.freeList)
         /\ outcome.result = "none"
  BY DEF ParseInv, Begun

(* A refused allocation changes nothing.                                     *)
LEMMA RefusedCall ==
  ASSUME ParseInv, call.phase = "allocate", NEW answer \in Answers, Refuse(answer),
         Continue([call EXCEPT !.phase = "refused"])
  PROVE  ParseInv'
<1>1. ~Idle /\ call \in Waiting /\ HeapNow = before
  BY CallFacts DEF ParseInv, Idle, Unspent
<1>2. IInv' /\ HeapNow' = HeapNow
  BY RefuseInv DEF ParseInv, Refuse, heap, HeapNow
<1>3. call' \in Waiting /\ outcome' = outcome /\ before' = before
  BY <1>1 DEF Continue, Waiting
<1>4. QED
  BY <1>1, <1>2, <1>3, BegunFacts, WaitingInv

(* The call takes its block, or is refused.                                  *)
LEMMA EnterInv ==
  ASSUME PlainCallers, ParseInv, Enter
  PROVE  ParseInv'
<1>1. call.phase = "allocate" /\ ~Idle
  BY DEF Enter, Idle
<1>2. /\ IInv /\ call \in Waiting /\ HeapNow = before
      /\ before \in [freeList : Seq(Int), heapBump : Int, live : SUBSET Addr]
      /\ Increasing(before.freeList) /\ outcome.result = "none"
      /\ call.text \in Texts
  BY <1>1, CallFacts, BegunFacts DEF Unspent, ParseInv
<1>3. CASE /\ Refuse(Exhausted(call.text.length, 0))
           /\ Continue([call EXCEPT !.phase = "refused"])
  <2>1. call.text.length \in Nat
    BY <1>2, TextsAssumption
  <2>2. Exhausted(call.text.length, 0) \in Answers
    BY <2>1, AnswerFacts
  <2>3. QED
    BY <1>1, <1>3, <2>2, RefusedCall
<1> DEFINE n == Capacity(call.text, call.tier)
<1>4. CASE /\ AllocateDocument(n)
           /\ IF last'.status = "ok"
              THEN \E block \in live' \ live :
                     Continue([phase    |-> "build",
                               text     |-> call.text,
                               tier     |-> call.tier,
                               retried  |-> call.retried,
                               document |-> block + HeaderSize])
              ELSE Continue([call EXCEPT !.phase = "refused"])
  <2>1. n \in Nat \ {0}
    BY <1>2, CapacityFacts
  <2>2. CASE \E answer \in Answers : Refuse(answer) /\ answer.status # "ok"
    BY <1>1, <1>4, <2>2, RefusedCall DEF Refuse
  <2>3. ASSUME last' = Ok,
               NEW b \in Addr \ live,
               live' = live \cup {b},
               n + HeaderSize <= Size(mem', b),
               \A c \in Free' : c + Size(mem', c) # b,
               Carved(freeList, heapBump, freeList', heapBump', Size(mem', b), b)
        PROVE  ParseInv'
    <3>1. Continue([phase    |-> "build",
                    text     |-> call.text,
                    tier     |-> call.tier,
                    retried  |-> call.retried,
                    document |-> b + HeaderSize])
      BY <1>4, <2>3 DEF Ok
    <3>. HIDE DEF n
    <3>2. b \in Int /\ (b + HeaderSize) - HeaderSize = b
      BY <2>3, ConstantsAssumption DEF Addr, HeaderSize
    <3>3. /\ call' \in Building /\ call'.phase = "build" /\ call'.document = b + HeaderSize
          /\ call'.text = call.text /\ call'.tier = call.tier
          /\ outcome' = outcome /\ before' = before
      BY <1>2, <3>1, <3>2 DEF Continue, Building, Waiting, HeaderSize
    <3>4. IInv'
      BY <1>2, <1>4, <2>1, AllocateBlockInv DEF AllocateDocument, n
    <3>5. before.freeList = freeList /\ before.heapBump = heapBump /\ before.live = live
      BY <1>2 DEF HeapNow
    <3>6. Borrowed(b)'
      BY <2>3, <3>3, <3>5 DEF Borrowed
    <3>7. Construction'
      BY <2>3, <3>2, <3>3, <3>6 DEF Construction, n, Capacity, BaseCapacity
    <3>8. QED
      BY <1>2, <3>3, <3>4, <3>7 DEF ParseInv, Calls, Begun, Unspent, HeapRestored, ParsedFits
  <2>4. QED
    BY <1>2, <1>4, <2>1, <2>2, <2>3, CarvedOrRefused
<1>5. QED
  BY <1>1, <1>3, <1>4 DEF Enter

(* The block of the call, and what releasing it does.                        *)
LEMMA BuildFacts ==
  ASSUME ParseInv, call.phase = "build"
  PROVE  /\ ~Idle /\ IInv /\ call \in Building /\ call.text \in Texts
         /\ \E b \in live : /\ call.document = b + HeaderSize
                            /\ call.document - HeaderSize = b
                            /\ Borrowed(b)
                            /\ Capacity(call.text, call.tier) + HeaderSize <= Size(mem, b)
<1>1. ~Idle /\ IInv /\ call \in Building /\ call.text \in Texts
  BY CallFacts DEF ParseInv, Idle
<1> DEFINE b == call.document - HeaderSize
<1>2. call.document \in Int
  BY <1>1 DEF Building
<1>3. call.document = b + HeaderSize
  BY <1>2 DEF HeaderSize
<1>4. Borrowed(b) /\ Capacity(call.text, call.tier) + HeaderSize <= Size(mem, b)
  BY DEF ParseInv, Construction
<1>5. QED
  BY <1>1, <1>3, <1>4 DEF Borrowed

LEMMA ReleasedCall ==
  ASSUME PlainCallers, ParseInv, call.phase = "build", ReleaseDocument(call.document)
  PROVE  IInv' /\ HeapNow' = before
<1>1. ~Idle /\ IInv
  BY BuildFacts
<1>2. PICK b \in live : call.document = b + HeaderSize /\ Borrowed(b)
  BY BuildFacts
<1>3. /\ before \in [freeList : Seq(Int), heapBump : Int, live : SUBSET Addr]
      /\ Increasing(before.freeList)
  BY <1>1, BegunFacts
<1>4. IInv'
  BY <1>1, <1>2, ReleaseInv
<1>5. /\ \A c \in Free : c + Size(mem, c) # b
      /\ Carved(before.freeList, before.heapBump, freeList, heapBump, Size(mem, b), b)
      /\ before.live = live \ {b}
  BY <1>2 DEF Borrowed
<1>6. ReleaseDocument(b + HeaderSize) /\ before.freeList \in Seq(Int)
  BY <1>2, <1>3
<1>7. freeList' = before.freeList /\ heapBump' = before.heapBump /\ live' = live \ {b}
  BY <1>1, <1>3, <1>5, <1>6, Restored
<1>8. HeapNow' = before
  BY <1>3, <1>5, <1>7 DEF HeapNow
<1>9. QED
  BY <1>4, <1>8

(* The compact attempt gives its block back.                                 *)
LEMMA RetryConservativelyInv ==
  ASSUME PlainCallers, ParseInv, RetryConservatively
  PROVE  ParseInv'
<1>1. call.phase = "build" /\ ReleaseDocument(call.document)
  BY DEF RetryConservatively
<1>2. IInv' /\ HeapNow' = before /\ ~Idle /\ call \in Building
  BY <1>1, ReleasedCall, BuildFacts
<1>3. call' \in Waiting /\ outcome' = outcome /\ before' = before
  BY <1>2 DEF RetryConservatively, Continue, Waiting, Building, Tiers
<1>4. QED
  BY <1>2, <1>3, BegunFacts, WaitingInv

(* A step that ends the call.                                                *)
LEMMA EndedInv ==
  ASSUME IInv', call' = NoCall, HeapRestored', ParsedFits'
  PROVE  ParseInv'
<1>1. call'.phase = "idle" /\ call' \in Calls
  BY DEF NoCall, Calls
<1>2. QED
  BY <1>1 DEF ParseInv, Begun, Idle, Unspent, Construction

(* A failed parse.                                                           *)
LEMMA FailInv ==
  ASSUME PlainCallers, ParseInv, Fail
  PROVE  ParseInv'
<1>1. /\ call.phase = "build" /\ ReleaseDocument(call.document)
      /\ call' = NoCall /\ outcome' = [result |-> "failed"] /\ before' = before
  BY DEF Fail, Return
<1>2. IInv' /\ HeapNow' = before
  BY <1>1, ReleasedCall
<1>3. HeapRestored' /\ ParsedFits'
  BY <1>1, <1>2 DEF HeapRestored, ParsedFits
<1>4. QED
  BY <1>1, <1>2, <1>3, EndedInv

(* Calls that end without a block.                                           *)
LEMMA AbandonInv ==
  ASSUME ParseInv, call.phase = "refused", UNCHANGED vars, NEW result, Return(result),
         result.result \in {"exhausted", "cannot_grow"}
  PROVE  ParseInv'
<1>1. HeapNow = before /\ IInv
  BY DEF ParseInv, Unspent
<1>2. IInv' /\ HeapNow' = before'
  BY <1>1, SameHeap DEF Return
<1>3. call' = NoCall /\ outcome'.result \in {"exhausted", "cannot_grow"}
  BY DEF Return
<1>4. HeapRestored' /\ ParsedFits'
  BY <1>2, <1>3 DEF HeapRestored, ParsedFits
<1>5. QED
  BY <1>2, <1>3, <1>4, EndedInv

LEMMA GiveUpInv ==
  ASSUME ParseInv, GiveUp
  PROVE  ParseInv'
  BY AbandonInv DEF GiveUp

(* The host calls again, after it has grown memory or found it large enough. *)
LEMMA RetryInv ==
  ASSUME PlainCallers, ParseInv, Retry
  PROVE  ParseInv'
<1>1. call.phase = "refused" /\ ~Idle
  BY DEF Retry, Idle
<1>2. IInv /\ HeapNow = before /\ call \in Waiting
  BY <1>1, CallFacts DEF ParseInv, Unspent
<1>3. CASE Return([result |-> "cannot_grow"]) /\ UNCHANGED vars
  BY <1>1, <1>3, AbandonInv
<1>4. CASE (UNCHANGED vars \/ EnsureBytes) /\ CallAgain
  <2>1. IInv' /\ HeapNow' = HeapNow
    <3>1. CASE UNCHANGED vars
      BY <1>2, <3>1, SameHeap
    <3>2. CASE EnsureBytes
      BY <1>2, <3>2, EnsureInv DEF EnsureBytes, heap, HeapNow
    <3>3. QED
      BY <1>4, <3>1, <3>2
  <2>2. call' \in Waiting /\ outcome' = outcome /\ before' = before
    BY <1>2, <1>4 DEF CallAgain, Continue, Waiting, Tiers
  <2>3. QED
    BY <1>1, <1>2, <2>1, <2>2, BegunFacts, WaitingInv
<1>5. QED
  BY <1>3, <1>4 DEF Retry

(* The application releases a document.                                      *)
LEMMA DisposeInv ==
  ASSUME PlainCallers, ParseInv, NEW b \in live, Dispose(b)
  PROVE  ParseInv'
<1>1. IInv' /\ outcome'.result = "none" /\ Idle /\ call' = call
  BY ReleaseInv DEF ParseInv, Dispose
<1>2. call' = NoCall
  BY <1>1, CallFacts DEF ParseInv
<1>3. HeapRestored' /\ ParsedFits'
  BY <1>1 DEF HeapRestored, ParsedFits
<1>4. QED
  BY <1>1, <1>2, <1>3, EndedInv

(* trimDocument of a block at least as large as its document.                *)
LEMMA TrimFits ==
  ASSUME IInv, NEW b \in live, NEW n \in Nat, n + HeaderSize <= mem[b].size,
         TrimDocument(b + HeaderSize, n)
  PROVE  /\ live' = live
         /\ n + HeaderSize <= mem'[b].size
         /\ b + mem'[b].size = heapBump' => mem'[b].size < n + HeaderSize + MinSplitSize
<1>1. /\ b \in Int /\ HeapBase <= b /\ HeapBase \in Nat /\ mem[b].alloc
      /\ mem[b].size \in Nat /\ mem[b].size < WordLimit /\ WordLimit \in Nat
      /\ (b + HeaderSize) - HeaderSize = b
  BY OwnedFacts
<1>2. Owned(b + HeaderSize)
  BY <1>1 DEF Owned, HeaderSize
<1>3. CASE ~AtWilderness(b) /\ Refuse(Invalid)
  BY <1>3 DEF AtWilderness, Refuse, heap
<1>4. CASE mem[b].size - (n + HeaderSize) < MinSplitSize /\ Refuse(Ok)
  BY <1>1, <1>4 DEF Refuse, heap, HeaderSize, MinSplitSize
<1>5. CASE Resize(b, n + HeaderSize)
  <2> DEFINE total == n + HeaderSize
  <2>1. total \in 0..(WordLimit - 1)
    BY <1>1 DEF HeaderSize
  <2>2. mem' = Put(mem, b, Taken(total)) /\ live' = live
    BY <1>5 DEF Resize, Put, Taken
  <2>3. PlainMemory(mem) /\ b \in Addr
    BY DEF IInv, Heap, TypeOK
  <2>. HIDE DEF total
  <2>4. mem'[b].size = total
    BY <2>1, <2>2, <2>3, PutAllocated DEF Size
  <2>5. QED
    BY <2>1, <2>2, <2>4 DEF total, MinSplitSize
<1>6. QED
  BY <1>1, <1>2, <1>3, <1>4, <1>5 DEF TrimDocument

(* A parsed document, trimmed or left its tail.                              *)
LEMMA SucceedInv ==
  ASSUME PlainCallers, ParseInv, Succeed
  PROVE  ParseInv'
<1>1. /\ call.phase = "build" /\ ~OutOfSpace
      /\ call' = NoCall /\ before' = before /\ outcome'.result = "parsed"
      /\ outcome'.text = call.text /\ outcome'.tier = call.tier
      /\ outcome'.document = call.document
  BY DEF Succeed, ReturnDocument, Return
<1>2. IInv /\ call.text \in Texts
  BY <1>1, BuildFacts
<1>3. PICK b \in live : /\ call.document = b + HeaderSize
                        /\ call.document - HeaderSize = b
                        /\ Borrowed(b)
                        /\ Capacity(call.text, call.tier) + HeaderSize <= Size(mem, b)
  BY <1>1, BuildFacts
<1> DEFINE n == call.text.size
           room == Capacity(call.text, call.tier)
<1>4. n \in Nat \ {0} /\ n <= room /\ room \in Nat
  <2>1. /\ n \in Nat \ {0} /\ call.text.peak \in Nat /\ room \in Nat /\ n <= call.text.peak
    BY <1>2, CapacityFacts
  <2>2. ~(call.text.peak > room)
    BY <1>1 DEF OutOfSpace
  <2>. HIDE DEF n, room
  <2>3. QED
    BY <2>1, <2>2
<1>5. room + HeaderSize <= mem[b].size
  BY <1>3 DEF Size
<1>6. Capacity(outcome'.text, outcome'.tier) = room /\ outcome'.text.size = n
  BY <1>1
<1>7. \/ call.text.deferred /\ UNCHANGED vars
      \/ ~call.text.deferred /\ TrimDocument(b + HeaderSize, n)
  BY <1>3 DEF Succeed
<1>. HIDE DEF n, room
<1>8. n + HeaderSize <= mem[b].size
  <2>1. mem[b].size \in Nat
    BY <1>2, OwnedFacts
  <2>2. QED
    BY <1>4, <1>5, <2>1 DEF HeaderSize
<1>9. /\ IInv' /\ live' = live
      /\ n + HeaderSize <= mem'[b].size
      /\ call.text.deferred => room + HeaderSize <= mem'[b].size
      /\ ~call.text.deferred /\ b + mem'[b].size = heapBump' =>
           mem'[b].size < n + HeaderSize + MinSplitSize
  <2>1. CASE call.text.deferred /\ UNCHANGED vars
    <3>1. IInv' /\ live' = live /\ mem' = mem
      BY <1>2, <2>1, SameHeap DEF vars
    <3>2. QED
      BY <1>5, <1>8, <2>1, <3>1
  <2>2. CASE ~call.text.deferred /\ TrimDocument(b + HeaderSize, n)
    <3>1. IInv'
      BY <1>2, <1>4, <2>2, TrimInv
    <3>2. QED
      BY <1>2, <1>4, <1>8, <2>2, <3>1, TrimFits
  <2>3. QED
    BY <1>7, <2>1, <2>2
<1>10. ParsedFits'
  <2>1. /\ outcome'.document - HeaderSize = b /\ live' = before'.live \cup {b}
        /\ b \notin before'.live
    BY <1>1, <1>3, <1>9 DEF Borrowed
  <2>2. QED
    BY <1>1, <1>6, <1>9, <2>1 DEF ParsedFits, AtWilderness, Capacity, BaseCapacity
<1>11. HeapRestored'
  BY <1>1 DEF HeapRestored
<1>12. QED
  BY <1>1, <1>9, <1>10, <1>11, EndedInv

-----------------------------------------------------------------------------
(* Every step preserves the invariant.                                       *)
LEMMA ParseNextInv ==
  ASSUME PlainCallers, ParseInv, [ParseNext]_<<vars, callVars>>
  PROVE  ParseInv'
<1>1. ASSUME NEW text \in Texts, Parse(text) PROVE ParseInv'
  BY <1>1, ParseBegins
<1>2. CASE ParseStep
  BY <1>2, EnterInv, RetryConservativelyInv, FailInv, SucceedInv, RetryInv, GiveUpInv
  DEF ParseStep
<1>3. ASSUME NEW b \in live, Dispose(b) PROVE ParseInv'
  BY <1>3, DisposeInv
<1>4. CASE UNCHANGED <<vars, callVars>>
  <2>1. UNCHANGED vars /\ call' = call /\ outcome' = outcome /\ before' = before
    BY <1>4 DEF callVars
  <2>2. IInv' /\ HeapNow' = HeapNow
    BY <2>1, SameHeap DEF ParseInv
  <2>3. /\ mem' = mem /\ freeList' = freeList /\ heapBump' = heapBump /\ live' = live
        /\ Free' = Free
    BY <2>1 DEF vars, Free
  <2>4. Begun' /\ Unspent' /\ HeapRestored' /\ call' \in Calls
    BY <2>1, <2>2 DEF ParseInv, Begun, Idle, Unspent, HeapRestored
  <2>5. Construction'
    BY <2>1, <2>3 DEF ParseInv, Construction, Borrowed, Capacity, BaseCapacity
  <2>6. ParsedFits'
    BY <2>1, <2>3 DEF ParseInv, ParsedFits, AtWilderness, Capacity, BaseCapacity
  <2>7. QED
    BY <2>2, <2>4, <2>5, <2>6 DEF ParseInv
<1>5. QED
  BY <1>1, <1>2, <1>3, <1>4 DEF ParseNext

(* The invariant holds of every sequence of parses and releases.             *)
THEOREM ParseInvariance == ASSUME PlainCallers PROVE ParseSpec => []ParseInv
<1>1. ParseInit => ParseInv
  BY ParseInitInv
<1>2. ParseInv /\ [ParseNext]_<<vars, callVars>> => ParseInv'
  BY ParseNextInv
<1>3. QED
  BY <1>1, <1>2, PTL DEF ParseSpec

(* The document under construction is owned, and holds what was asked for    *)
(* (graph.ts:657-672).                                                       *)
THEOREM CallKept == ASSUME PlainCallers PROVE ParseSpec => []CallOK
<1>1. ASSUME ParseInv PROVE CallOK
  <2>1. call \in Calls
    BY <1>1 DEF ParseInv
  <2>2. call.phase = "build" =>
          /\ call.document - HeaderSize \in live
          /\ Capacity(call.text, call.tier) + HeaderSize <= mem[call.document - HeaderSize].size
    BY <1>1 DEF ParseInv, Construction, Borrowed, Size
  <2>3. QED
    BY <2>1, <2>2, CallFacts DEF CallOK, Tiers
<1>2. QED
  BY <1>1, ParseInvariance, PTL

(* A parse that fails, or is refused twice, or finds memory at its maximum,  *)
(* leaves the free list, the end of the heap and the documents of the        *)
(* application as it found them.                                             *)
THEOREM FailuresRestore == ASSUME PlainCallers PROVE ParseSpec => []HeapRestored
<1>1. ParseInv => HeapRestored
  BY DEF ParseInv
<1>2. QED
  BY <1>1, ParseInvariance, PTL

(* A parsed document is new and holds its graph; it keeps the room of its    *)
(* attempt if its schema defers fields, and else no slack at the wilderness  *)
(* (graph.ts:706-712).                                                      *)
THEOREM DocumentsFit == ASSUME PlainCallers PROVE ParseSpec => []ParsedFits
<1>1. ParseInv => ParsedFits
  BY DEF ParseInv
<1>2. QED
  BY <1>1, ParseInvariance, PTL

-----------------------------------------------------------------------------
(* Parses and the application's other documents.                             *)

(* A step of a parse creates, trims or releases its own document.            *)
LEMMA ParseNextStore ==
  ASSUME PlainCallers, ParseInv, ParseInv', [ParseNext]_<<vars, callVars>>
  PROVE  [Store!Next]_Held
<1>1. IInv /\ IInv'
  BY DEF ParseInv
<1>2. CASE UNCHANGED vars
  BY <1>2, HeldSame DEF vars
<1>3. CASE EnsureBytes
  BY <1>3, HeldSame DEF EnsureBytes, heap
<1>4. CASE \E answer : Refuse(answer)
  BY <1>4, HeldSame DEF Refuse, heap
<1>5. ASSUME NEW b \in live, ReleaseDocument(b + HeaderSize) PROVE [Store!Next]_Held
  BY <1>1, <1>5, ReleaseStep
<1>6. CASE call.phase = "build" /\ ReleaseDocument(call.document)
  BY <1>5, <1>6, BuildFacts
<1>7. CASE Enter
  <2>1. CASE \E answer : Refuse(answer)
    BY <1>4, <2>1
  <2>2. CASE call.phase = "allocate" /\ AllocateDocument(Capacity(call.text, call.tier))
    <3>1. call.text \in Texts
      BY <2>2, CallFacts DEF ParseInv, Idle
    <3>2. Capacity(call.text, call.tier) \in Nat \ {0}
      BY <3>1, CapacityFacts
    <3>3. QED
      BY <1>1, <2>2, <3>2, CreateStep DEF AllocateDocument
  <2>3. QED
    BY <1>7, <2>1, <2>2 DEF Enter
<1>8. CASE Succeed
  <2>1. PICK b \in live : call.document - HeaderSize = b
    BY <1>8, BuildFacts DEF Succeed
  <2>2. UNCHANGED vars \/ (\E answer : Refuse(answer)) \/ \E total : Resize(b, total)
    BY <1>8, <2>1 DEF Succeed, TrimDocument
  <2>3. QED
    BY <1>1, <1>2, <1>4, <2>2, ResizeStep
<1>9. CASE RetryConservatively \/ Fail
  BY <1>6, <1>9 DEF RetryConservatively, Fail
<1>10. CASE Retry \/ GiveUp
  BY <1>2, <1>3, <1>10 DEF Retry, GiveUp
<1>11. ASSUME NEW text \in Texts, Parse(text) PROVE [Store!Next]_Held
  BY <1>2, <1>11 DEF Parse
<1>12. ASSUME NEW b \in live, Dispose(b) PROVE [Store!Next]_Held
  BY <1>5, <1>12 DEF Dispose
<1>13. QED
  BY <1>2, <1>7, <1>8, <1>9, <1>10, <1>11, <1>12 DEF ParseNext, ParseStep

(* Whatever the attempts and retries of a parse do, no document the          *)
(* application already holds changes: parses, too, run on a store of         *)
(* independent documents.                                                    *)
THEOREM ParsesIsolated == ASSUME PlainCallers PROVE ParseSpec => StoreSpec
<1>1. ParseInit => Store!Init
  <2> SUFFICES ASSUME ParseInit PROVE Held = << >>
    BY DEF Store!Init
  <2>1. QED
    BY DEF ParseInit, Init, Held
<1>2. ParseInv /\ ParseInv' /\ [ParseNext]_<<vars, callVars>> => [Store!Next]_Held
  BY ParseNextStore
<1>3. QED
  BY <1>1, <1>2, ParseInvariance, PTL DEF ParseSpec, StoreSpec, Store!Spec

=============================================================================
