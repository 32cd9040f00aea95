--------------------------- MODULE AllocatorProofs ---------------------------
(***************************************************************************)
(* The safety of the persistent-block allocator, for every size of memory, *)
(* page and payload: an inductive invariant of Allocator!Spec, and what    *)
(* follows from it.                                                        *)
(***************************************************************************)
EXTENDS AllocatorHeaps, SortedLists

IInv ==
  /\ TypeOK
  /\ Heap(mem, Free, live, heapBump)
  /\ FreeListSorted
  /\ Coalesced
  /\ WithinMemory

-----------------------------------------------------------------------------
(* The free list as an increasing sequence of integers.                      *)
LEMMA ListFacts ==
  ASSUME IInv
  PROVE  /\ freeList \in Seq(Int)
         /\ Increasing(freeList)
         /\ Free = Elements(freeList)
         /\ DOMAIN freeList = 1..Len(freeList)
         /\ Len(freeList) \in Nat
         /\ \A i \in 1..Len(freeList) : freeList[i] \in Free /\ freeList[i] \in Int
<1>1. freeList \in Seq(Addr) /\ Addr \subseteq Int
  BY ConstantsAssumption DEF IInv, TypeOK, Addr
<1>2. /\ DOMAIN freeList = 1..Len(freeList) /\ Len(freeList) \in Nat
      /\ \A i \in 1..Len(freeList) : freeList[i] \in Addr
  BY <1>1
<1>3. freeList \in Seq(Int)
  <2>1. freeList \in [1..Len(freeList) -> Int]
    <3>1. freeList \in [1..Len(freeList) -> Addr]
      BY <1>1, LenProperties
    <3>2. QED
      BY <1>1, <3>1
  <2>2. QED
    BY <2>1, <1>2
<1>4. QED
  BY <1>1, <1>2, <1>3 DEF IInv, FreeListSorted, Increasing, Free, Elements

(* A list of addresses.                                                      *)
LEMMA AddrList ==
  ASSUME NEW l \in Seq(Int), Elements(l) \subseteq Addr
  PROVE  l \in Seq(Addr)
<1>1. \A i \in 1..Len(l) : l[i] \in Addr
  BY DEF Elements
<1>2. l \in [1..Len(l) -> Addr] /\ Len(l) \in Nat
  BY <1>1
<1>3. QED
  BY <1>2

(* Filling a payload keeps memory plain and touches nothing else.            *)
LEMMA StoredFacts ==
  ASSUME PlainCallers, NEW m, PlainMemory(m), NEW b, NEW n,
         NEW fill, fill = {} \/ fill = Words, NEW t \in Stored(m, b, n, fill)
  PROVE  /\ PlainMemory(t)
         /\ \A a \in Addr : ~(b < a /\ a <= b + n) => t[a] = m[a]
<1>1. CASE fill = {}
  BY <1>1 DEF Stored
<1>2. CASE fill = Words /\ fill # {}
  <2>1. PICK w \in Words : t = [a \in DOMAIN m |-> IF b < a /\ a <= b + n THEN w ELSE m[a]]
    BY <1>2 DEF Stored
  <2>2. w \in Word /\ ~w.external
    BY ConstantsAssumption DEF PlainCallers
  <2>3. DOMAIN m = Addr /\ \A a \in Addr : m[a] \in Word /\ ~m[a].external
    BY DEF PlainMemory
  <2>4. t \in [Addr -> Word]
    BY <2>1, <2>2, <2>3
  <2>5. \A a \in Addr : t[a] = IF b < a /\ a <= b + n THEN w ELSE m[a]
    BY <2>1, <2>3
  <2>6. \A a \in Addr : ~t[a].external
    BY <2>2, <2>3, <2>5
  <2>7. QED
    BY <2>4, <2>5, <2>6 DEF PlainMemory
<1>3. QED
  BY <1>1, <1>2

(* Filling the payload of an owned block.                                    *)
LEMMA StoredHeap ==
  ASSUME PlainCallers, NEW m, NEW F, NEW L, NEW top, Heap(m, F, L, top),
         NEW b \in L, NEW n \in Nat, Size(m, b) >= n + HeaderSize,
         NEW fill, fill = {} \/ fill = Words, NEW t \in Stored(m, b, n, fill)
  PROVE  Heap(t, F, L, top) /\ \A c \in F \cup L : Size(t, c) = Size(m, c)
<1>1. PlainMemory(m)
  BY DEF Heap
<1>2. /\ PlainMemory(t)
      /\ \A a \in Addr : ~(b < a /\ a <= b + n) => t[a] = m[a]
  BY <1>1, StoredFacts
<1>3. b \in F \cup L
  OBVIOUS
<1>4. b \in Int /\ Size(m, b) \in Int
  BY <1>3, BlockFacts
<1>5. \A a \in Addr : ~(b < a /\ a < b + Size(m, b)) => t[a] = m[a]
  BY <1>2, <1>4, ConstantsAssumption DEF HeaderSize, Addr
<1>6. QED
  BY <1>2, <1>5, HeapStore

-----------------------------------------------------------------------------
(* The initial states.                                                       *)
LEMMA InitInv == Init => IInv
<1> SUFFICES ASSUME Init PROVE IInv
  OBVIOUS
<1>1. /\ mem = [a \in Addr |-> Zero] /\ freeList = << >> /\ heapBump = HeapBase
      /\ live = {} /\ last = Ok /\ memSize = InitialMemory /\ heapLimit = InitialMemory
  BY ConstantsAssumption DEF Init, Wrap
<1>2. Zero \in Word /\ ~Zero.external
  BY ConstantsAssumption DEF Zero, Word
<1>3. PlainMemory(mem)
  BY <1>1, <1>2 DEF PlainMemory
<1>4. DOMAIN freeList = {} /\ Free = {}
  BY <1>1 DEF Free
<1>5. Heap(mem, Free, live, heapBump)
  BY <1>1, <1>3, <1>4, ConstantsAssumption DEF Heap, Tiles
<1>6. TypeOK
  BY <1>1, <1>3, ConstantsAssumption DEF TypeOK, PlainMemory, Ok
<1>7. FreeListSorted /\ Coalesced /\ WithinMemory
  BY <1>1, <1>4, ConstantsAssumption DEF FreeListSorted, Coalesced, WithinMemory
<1>8. QED
  BY <1>5, <1>6, <1>7 DEF IInv

(* The type of last.                                                         *)
Answers == [status   : {"ok", "invalid_state", "scratch_exhausted", "memory_exhausted"},
            required : Nat,
            payload  : Nat]

(* What operations report has that type.                                     *)
LEMMA AnswerFacts ==
  /\ Ok \in Answers
  /\ Invalid \in Answers
  /\ ScratchExhausted \in Answers
  /\ \A r, p \in Nat : Exhausted(r, p) \in Answers
  BY DEF Answers, Ok, Invalid, ScratchExhausted, Exhausted

(* A refused operation reports its answer and changes nothing.               *)
LEMMA RefuseInv ==
  ASSUME IInv, NEW answer \in Answers, Refuse(answer)
  PROVE  IInv'
<1>1. /\ last' = answer /\ mem' = mem /\ freeList' = freeList /\ heapBump' = heapBump
      /\ heapLimit' = heapLimit /\ memSize' = memSize /\ live' = live
  BY DEF Refuse, heap, limits
<1>2. Free' = Free
  BY <1>1 DEF Free
<1>3. Heap(mem, Free, live, heapBump)' /\ FreeListSorted' /\ WithinMemory' /\ Coalesced'
  BY <1>1, <1>2 DEF IInv, FreeListSorted, WithinMemory, Coalesced, End
<1>4. TypeOK'
  BY <1>1 DEF IInv, TypeOK, Answers
<1>5. QED
  BY <1>3, <1>4 DEF IInv

(* The invariant from its parts, for a step that leaves memory's size alone  *)
(* and rewrites the heap.                                                    *)
LEMMA HeapStep ==
  ASSUME IInv,
         freeList' \in Seq(Int), Increasing(freeList'),
         Heap(mem', Elements(freeList'), live', heapBump'),
         Apart(mem', Elements(freeList')),
         \A b \in Elements(freeList') : b + Size(mem', b) # heapBump',
         heapBump' <= heapLimit', heapLimit' = memSize', memSize' \in HeapBase..MaxMemory,
         last' \in Answers
  PROVE  IInv'
<1>1. Free' = Elements(freeList')
  BY DEF Free, Elements
<1>2. freeList' \in Seq(Addr)
  <2>1. Elements(freeList') \subseteq Addr
    BY DEF Heap
  <2>2. QED
    BY <2>1, AddrList
<1>3. TypeOK'
  <2>1. mem' \in [Addr -> Word] /\ live' \subseteq Addr /\ heapBump' \in HeapBase..MaxMemory
    BY DEF Heap, PlainMemory
  <2>2. heapLimit' \in 0..MaxMemory
    BY ConstantsAssumption
  <2>3. QED
    BY <1>2, <2>1, <2>2 DEF TypeOK, Answers
<1>4. FreeListSorted'
  BY DEF FreeListSorted, Increasing
<1>5. Coalesced'
  BY <1>1 DEF Coalesced, End, Apart, Size
<1>6. WithinMemory'
  BY DEF WithinMemory
<1>7. QED
  BY <1>1, <1>3, <1>4, <1>5, <1>6 DEF IInv

-----------------------------------------------------------------------------
(* allocateBlock: the first free block that fits.                            *)
LEMMA TakeFreeInv ==
  ASSUME PlainCallers, IInv, NEW n \in Nat \ {0}, NEW fill, fill = {} \/ fill = Words,
         TakeFree(n, fill)
  PROVE  IInv'
<1> DEFINE total == n + HeaderSize
<1>1. PICK i \in DOMAIN freeList :
        /\ mem[freeList[i]].size >= total
        /\ \/ /\ mem[freeList[i]].size - total >= MinSplitSize
              /\ freeList' = ReplaceAt(freeList, i, freeList[i] + total)
              /\ mem' \in Stored([mem EXCEPT ![freeList[i] + total]
                                               = Header(mem[freeList[i]].size - total, FALSE),
                                             ![freeList[i]] = Header(total, TRUE)],
                                 freeList[i], n, fill)
           \/ /\ mem[freeList[i]].size - total < MinSplitSize
              /\ freeList' = RemoveAt(freeList, i)
              /\ mem' \in Stored([mem EXCEPT ![freeList[i]] = Header(mem[freeList[i]].size, TRUE)],
                                 freeList[i], n, fill)
        /\ live' = live \cup {freeList[i]}
        /\ last' = Ok
        /\ UNCHANGED <<heapBump, limits>>
  BY DEF TakeFree, Fits
<1> DEFINE b == freeList[i]
           size == Size(mem, b)
<1>2. /\ freeList \in Seq(Int) /\ Increasing(freeList) /\ Free = Elements(freeList)
      /\ DOMAIN freeList = 1..Len(freeList) /\ i \in 1..Len(freeList) /\ Len(freeList) \in Nat
      /\ b \in Free /\ b \in Int
      /\ \A j \in 1..Len(freeList) : freeList[j] \in Free /\ freeList[j] \in Int
  BY ListFacts
<1>3. Heap(mem, Free, live, heapBump) /\ Apart(mem, Free)
      /\ \A c \in Free : c + Size(mem, c) # heapBump
  BY DEF IInv, Coalesced, End, Apart, Size
<1>4. size \in Nat /\ total \in Nat /\ total >= HeaderSize + 1 /\ size >= total
  <2>1. b \in Free \cup live
    BY <1>2
  <2>2. size \in Nat \ {0}
    BY <1>3, <2>1, BlockFacts
  <2>3. QED
    BY <1>1, <2>2 DEF HeaderSize, Size
<1>5. /\ heapBump' = heapBump /\ heapLimit' = heapLimit /\ memSize' = memSize
      /\ heapBump <= heapLimit /\ heapLimit = memSize /\ memSize \in HeapBase..MaxMemory
      /\ last' \in Answers /\ live' = live \cup {b}
  BY <1>1, AnswerFacts DEF limits, IInv, WithinMemory, TypeOK
<1>6. CASE /\ size - total >= MinSplitSize
           /\ freeList' = ReplaceAt(freeList, i, b + total)
           /\ mem' \in Stored([mem EXCEPT ![b + total] = Header(size - total, FALSE),
                                          ![b] = Header(total, TRUE)], b, n, fill)
  <2> DEFINE m1 == SplitAt(mem, b, total)
             F1 == (Free \ {b}) \cup {b + total}
  <2>1. mem' \in Stored(m1, b, n, fill)
    BY <1>6 DEF SplitAt, Put, Vacant, Taken, Size
  <2>2. total < size
    BY <1>4, <1>6 DEF MinSplitSize
  <2>. HIDE DEF total
  <2>3. /\ Heap(m1, F1, live', heapBump)
        /\ Size(m1, b) = total
        /\ Size(m1, b + total) = size - total
        /\ b + total \notin Free \cup live
        /\ \A c \in Free \cup live : c # b => Size(m1, c) = Size(mem, c)
    <3> DEFINE c == b + total
               K == live \cup {b}
    <3>. HIDE DEF b, m1
    <3>1. /\ b \in Free /\ total < Size(mem, b) /\ total \in Nat /\ total >= HeaderSize + 1
          /\ c = b + total /\ F1 = (Free \ {b}) \cup {c} /\ K = live \cup {b}
      BY <1>2, <1>4, <2>2
    <3>. HIDE DEF c, F1, K
    <3>2. Heap(SplitAt(mem, b, total), F1, K, heapBump)
      BY <1>3, <3>1, HeapSplit
    <3>3. /\ Size(SplitAt(mem, b, total), b) = total
          /\ Size(SplitAt(mem, b, total), c) = Size(mem, b) - total
          /\ c \notin Free \cup live
          /\ \A d \in Free \cup live : d # b => Size(SplitAt(mem, b, total), d) = Size(mem, d)
      BY <1>3, <3>1, SplitSizes
    <3>4. QED
      BY <1>5, <3>2, <3>3 DEF m1, c, K
  <2>. HIDE DEF m1, F1
  <2>4. b \in live' /\ Size(m1, b) >= n + HeaderSize
    BY <1>4, <1>5, <2>3 DEF total
  <2>5. Heap(mem', F1, live', heapBump) /\ \A c \in F1 \cup live' : Size(mem', c) = Size(m1, c)
    BY <2>1, <2>3, <2>4, StoredHeap
  <2>6. \A c \in F1 : Size(mem', c) = Size(m1, c)
    BY <2>5
  <2>7. \A j \in 1..Len(freeList) : /\ j < i => freeList[j] < b + total
                                    /\ i < j => b + total < freeList[j]
    <3>1. ASSUME NEW j \in 1..Len(freeList), i < j PROVE b + size <= freeList[j]
      <4>1. b < freeList[j] /\ b \in Free \cup live /\ freeList[j] \in Free \cup live
        BY <1>2, <3>1 DEF Increasing
      <4>2. QED
        BY <4>1, <1>3, BlocksDisjoint
    <3>2. ASSUME NEW j \in 1..Len(freeList), j < i PROVE freeList[j] < b
      BY <1>2, <3>2 DEF Increasing
    <3>3. QED
      BY <1>2, <1>4, <2>2, <3>1, <3>2
  <2>8. b + total \in Int
    BY <1>2, <1>4
  <2>9. freeList' \in Seq(Int) /\ Increasing(freeList') /\ Elements(freeList') = F1
    BY <1>2, <1>6, <2>7, <2>8, ReplaceIncreasing DEF F1, total
  <2>10. Apart(mem', F1) /\ \A c \in F1 : c + Size(mem', c) # heapBump
    <3>1. ASSUME NEW c \in Free, c # b PROVE c + Size(mem, c) # b + total
      <4>1. c \in Free \cup live /\ b \in Free \cup live
        BY <1>2
      <4>2. c \in Int /\ Size(mem, c) \in Nat \ {0}
        BY <1>3, <4>1, BlockFacts
      <4>3. c < b => c + Size(mem, c) <= b
        BY <1>3, <4>1, BlocksDisjoint
      <4>4. b < c => b + size <= c
        BY <1>3, <4>1, BlocksDisjoint
      <4>5. c < b \/ b < c
        BY <3>1, <4>2, <1>2
      <4>. HIDE DEF b, size
      <4>6. QED
        BY <4>2, <4>3, <4>4, <4>5, <1>2, <1>4, <2>2 DEF HeaderSize
    <3>2. (b + total) + (size - total) = b + size
      BY <1>2, <1>4
    <3>3. \A c \in F1 : c + Size(mem', c) =
                          IF c = b + total THEN b + size ELSE c + Size(mem, c)
      BY <2>3, <2>6, <3>2 DEF F1
    <3>4. \A c \in Free : b + size # c /\ b + size # heapBump
      BY <1>2, <1>3 DEF Apart
    <3>5. b + size # b + total
      BY <1>2, <1>4, <2>2
    <3>6. \A c, d \in F1 : c + Size(mem', c) # d
      BY <1>3, <3>1, <3>3, <3>4, <3>5 DEF F1, Apart
    <3>7. \A c \in F1 : c + Size(mem', c) # heapBump
      BY <1>2, <1>3, <3>3, <3>4 DEF F1
    <3>8. QED
      BY <3>6, <3>7 DEF Apart
  <2>11. QED
    BY <1>5, <2>5, <2>9, <2>10, HeapStep
<1>7. CASE /\ size - total < MinSplitSize
           /\ freeList' = RemoveAt(freeList, i)
           /\ mem' \in Stored([mem EXCEPT ![b] = Header(size, TRUE)], b, n, fill)
  <2> DEFINE m1 == TakenWhole(mem, b)
             F1 == Free \ {b}
  <2>1. mem' \in Stored(m1, b, n, fill)
    BY <1>7 DEF TakenWhole, Put, Taken, Size
  <2>2. size >= HeaderSize + 1
    BY <1>4 DEF HeaderSize
  <2>. HIDE DEF total
  <2>3. /\ Heap(m1, F1, live', heapBump)
        /\ \A c \in Free \cup live : Size(m1, c) = Size(mem, c)
    <3>. HIDE DEF b, m1
    <3>1. b \in Free /\ Size(mem, b) >= HeaderSize + 1
      BY <1>2, <2>2
    <3>2. /\ Heap(TakenWhole(mem, b), Free \ {b}, live \cup {b}, heapBump)
          /\ \A c \in Free \cup live : Size(TakenWhole(mem, b), c) = Size(mem, c)
      BY <1>3, <3>1, HeapTake
    <3>3. QED
      BY <1>5, <3>2 DEF m1
  <2>. HIDE DEF m1
  <2>4. b \in live' /\ Size(m1, b) >= n + HeaderSize
    BY <1>2, <1>4, <1>5, <2>3 DEF total
  <2>. HIDE DEF F1
  <2>5. Heap(mem', F1, live', heapBump) /\ \A c \in F1 \cup live' : Size(mem', c) = Size(m1, c)
    BY <2>1, <2>3, <2>4, StoredHeap
  <2>6. freeList' \in Seq(Int) /\ Increasing(freeList') /\ Elements(freeList') = F1
    BY <1>2, <1>7, RemoveIncreasing DEF F1
  <2>7. \A c \in F1 : c \in Free /\ Size(mem', c) = Size(mem, c)
    BY <2>3, <2>5 DEF F1
  <2>8. Apart(mem', F1) /\ \A c \in F1 : c + Size(mem', c) # heapBump
    BY <1>3, <2>7 DEF Apart
  <2>9. QED
    BY <1>5, <2>5, <2>6, <2>8, HeapStep
<1>8. QED
  BY <1>1, <1>6, <1>7 DEF Size

(* allocateBlock: the wilderness.                                            *)
LEMMA TakeWildernessInv ==
  ASSUME PlainCallers, IInv, NEW n \in Nat \ {0}, n <= MaxPayload,
         NEW fill, fill = {} \/ fill = Words, TakeWilderness(n, fill)
  PROVE  IInv'
<1> DEFINE total == n + HeaderSize
           end == heapBump + total
<1>1. /\ heapBump \in HeapBase..MaxMemory /\ heapBump \in Nat /\ heapBump <= heapLimit
      /\ heapLimit = memSize /\ memSize \in HeapBase..MaxMemory
  BY ConstantsAssumption DEF IInv, TypeOK, WithinMemory
<1>2. /\ total \in Nat /\ total >= HeaderSize + 1 /\ total < WordLimit /\ end \in Nat
      /\ heapBump < end
      /\ Wrap(heapBump + n + HeaderSize) = end
  BY <1>1, ConstantsAssumption DEF MaxPayload, HeaderSize, Wrap, PlainCallers
<1>3. CASE Refuse(Exhausted(end, n))
  <2>1. Exhausted(end, n) \in Answers
    BY <1>2, AnswerFacts
  <2>2. QED
    BY <1>3, <2>1, RefuseInv
<1>4. CASE /\ end <= heapLimit
           /\ heapBump' = end
           /\ mem' \in Stored([mem EXCEPT ![heapBump] = Header(total, TRUE)], heapBump, n, fill)
           /\ live' = live \cup {heapBump}
           /\ last' = Ok
           /\ UNCHANGED <<freeList, limits>>
  <2> DEFINE m1 == Put(mem, heapBump, Taken(total))
  <2>1. Heap(mem, Free, live, heapBump) /\ Apart(mem, Free)
    BY DEF IInv, Coalesced, End, Apart, Size
  <2>2. mem' \in Stored(m1, heapBump, n, fill)
    BY <1>4 DEF Put, Taken
  <2>3. end <= MaxMemory
    <3>. HIDE DEF end
    <3>1. QED
      BY <1>1, <1>2, <1>4, ConstantsAssumption
  <2>. HIDE DEF total
  <2>4. /\ Heap(m1, Free, live', end)
        /\ Size(m1, heapBump) = total
        /\ \A c \in Free \cup live : Size(m1, c) = Size(mem, c)
    BY <1>2, <1>4, <2>1, <2>3, HeapPush, SMTT(20)
  <2>5. heapBump \in live' /\ Size(m1, heapBump) >= n + HeaderSize
    BY <1>4, <2>4, <1>2 DEF total
  <2>. HIDE DEF m1, end
  <2>6. Heap(mem', Free, live', end) /\ \A c \in Free \cup live' : Size(mem', c) = Size(m1, c)
    BY <2>2, <2>4, <2>5, StoredHeap
  <2>7. \A c \in Free : Size(mem', c) = Size(mem, c) /\ c \in Int /\ c + Size(mem, c) <= heapBump
                        /\ Size(mem, c) \in Nat
    <3>1. \A c \in Free : c \in Free \cup live
      OBVIOUS
    <3>2. QED
      BY <2>1, <2>4, <2>6, <3>1, BlockFacts
  <2>8. Apart(mem', Free) /\ \A c \in Free : c + Size(mem', c) # end
    BY <1>1, <1>2, <2>1, <2>7 DEF Apart
  <2>9. freeList' \in Seq(Int) /\ Increasing(freeList') /\ Elements(freeList') = Free
    BY <1>4, ListFacts
  <2>10. heapBump' = end /\ heapLimit' = heapLimit /\ memSize' = memSize /\ last' \in Answers
    BY <1>4, AnswerFacts DEF limits
  <2>11. QED
    BY <1>1, <1>4, <2>6, <2>8, <2>9, <2>10, HeapStep
<1>5. QED
  <2>1. n + HeaderSize = total /\ heapBump + n + HeaderSize = end
    BY <1>1, <1>2 DEF HeaderSize
  <2>. HIDE DEF end, total
  <2>2. QED
    BY <1>2, <1>3, <1>4, <2>1 DEF TakeWilderness

(* allocateBlock.                                                            *)
LEMMA AllocateBlockInv ==
  ASSUME PlainCallers, IInv, NEW n \in Nat \ {0}, NEW reuse \in BOOLEAN,
         NEW fill, fill = {} \/ fill = Words, AllocateBlock(n, reuse, fill)
  PROVE  IInv'
<1>1. CASE Refuse(Exhausted(n, n))
  <2>1. Exhausted(n, n) \in Answers
    BY AnswerFacts
  <2>2. QED
    BY <1>1, <2>1, RefuseInv
<1>2. CASE n <= MaxPayload /\ TakeFree(n, fill)
  BY <1>2, TakeFreeInv
<1>3. CASE n <= MaxPayload /\ TakeWilderness(n, fill)
  BY <1>3, TakeWildernessInv
<1>4. QED
  BY <1>1, <1>2, <1>3 DEF AllocateBlock

(* The three operations that allocate.                                       *)
LEMMA AllocateInv ==
  ASSUME PlainCallers, IInv, NEW n \in Payloads,
         AllocateDocument(n) \/ AllocateGrowableDocument(n) \/ CommitBytes(n)
  PROVE  IInv'
<1>1. n \in Nat \ {0}
  BY DEF PlainCallers
<1>2. CASE AllocateDocument(n)
  BY <1>1, <1>2, AllocateBlockInv DEF AllocateDocument
<1>3. CASE AllocateGrowableDocument(n)
  BY <1>1, <1>3, AllocateBlockInv DEF AllocateGrowableDocument
<1>4. CASE CommitBytes(n)
  <2>1. CASE Refuse(ScratchExhausted)
    BY <2>1, AnswerFacts, RefuseInv
  <2>2. CASE AllocateBlock(n, TRUE, Words)
    BY <1>1, <2>2, AllocateBlockInv
  <2>3. QED
    BY <1>4, <2>1, <2>2 DEF CommitBytes
<1>5. QED
  BY <1>2, <1>3, <1>4

-----------------------------------------------------------------------------
(* A block that ends at the wilderness, given another size.                  *)
LEMMA ResizeInv ==
  ASSUME PlainCallers, IInv, NEW b \in live, AtWilderness(b),
         NEW total \in Nat, total >= HeaderSize + 1, total < WordLimit,
         Resize(b, total), b + total <= heapLimit',
         heapLimit' = memSize', memSize' \in HeapBase..MaxMemory
  PROVE  IInv'
<1>1. /\ heapBump' = b + total
      /\ mem' = Put(mem, b, Taken(total))
      /\ last' = Ok /\ freeList' = freeList /\ live' = live
  BY DEF Resize, Put, Taken
<1>2. Heap(mem, Free, live, heapBump) /\ Apart(mem, Free) /\ b \in Free \cup live /\ b \notin Free
  BY DEF IInv, Coalesced, End, Apart, Size, Heap
<1>3. b + Size(mem, b) = heapBump
  BY DEF AtWilderness, Size
<1>4. b \in Int
  BY <1>2, BlockFacts
<1>5. b + total <= MaxMemory
  BY <1>4, ConstantsAssumption
<1>6. /\ Heap(mem', Free, live', heapBump')
      /\ \A c \in Free \cup live : c # b => /\ Size(mem', c) = Size(mem, c)
                                            /\ c + Size(mem, c) <= b
  BY <1>1, <1>2, <1>3, <1>5, HeapResize
<1>7. \A c \in Free : /\ Size(mem', c) = Size(mem, c) /\ c \in Int /\ Size(mem, c) \in Nat
                      /\ c + Size(mem, c) <= b
  <2>1. \A c \in Free : c \in Free \cup live /\ c # b
    BY <1>2
  <2>2. QED
    BY <1>2, <1>6, <2>1, BlockFacts
<1>8. Apart(mem', Free) /\ \A c \in Free : c + Size(mem', c) # heapBump'
  BY <1>1, <1>2, <1>4, <1>7 DEF Apart, HeaderSize
<1>9. freeList' \in Seq(Int) /\ Increasing(freeList') /\ Elements(freeList') = Free
  BY <1>1, ListFacts
<1>10. QED
  BY <1>1, <1>6, <1>8, <1>9, AnswerFacts, HeapStep

(* What a document operation knows of an owned block.                        *)
LEMMA OwnedFacts ==
  ASSUME IInv, NEW b \in live
  PROVE  /\ b \in Free \cup live /\ b \in Int /\ HeapBase <= b
         /\ mem[b].alloc
         /\ mem[b].size \in Nat /\ mem[b].size >= HeaderSize + 1
         /\ mem[b].size < WordLimit
         /\ b + mem[b].size <= heapBump
         /\ (b + HeaderSize) - HeaderSize = b
         /\ HeapBase \in Nat /\ heapBump \in Nat /\ heapBump <= memSize /\ heapLimit = memSize
         /\ memSize \in HeapBase..MaxMemory /\ MaxMemory \in Nat /\ WordLimit \in Nat
<1>1. Heap(mem, Free, live, heapBump) /\ b \in Free \cup live
  BY DEF IInv
<1>2. /\ b \in Int /\ HeapBase <= b /\ Size(mem, b) \in Nat
      /\ b + Size(mem, b) <= heapBump /\ Size(mem, b) \in 0..(WordLimit - 1)
  BY <1>1, BlockFacts
<1>3. mem[b].alloc /\ Size(mem, b) >= HeaderSize + 1
  BY <1>1 DEF Heap
<1>4. /\ heapBump \in HeapBase..MaxMemory /\ heapBump <= heapLimit
      /\ heapLimit = memSize /\ memSize \in HeapBase..MaxMemory
  BY DEF IInv, TypeOK, WithinMemory
<1>5. QED
  BY <1>1, <1>2, <1>3, <1>4, ConstantsAssumption DEF Size, HeaderSize

(* growDocument and reserveDocument.                                         *)
LEMMA GrowInv ==
  ASSUME PlainCallers, IInv, NEW b \in live, NEW n \in Nat \ {0}, NEW geometric \in BOOLEAN,
         GrowDocumentTo(b + HeaderSize, n, geometric)
  PROVE  IInv'
<1> DEFINE step == IF geometric THEN Geometric(mem[b].size - HeaderSize) ELSE n
           payload == IF step < n THEN n ELSE step
           total == payload + HeaderSize
           end == b + total
<1>1. /\ b \in Int /\ HeapBase <= b /\ HeapBase \in Nat
      /\ mem[b].size \in Nat /\ mem[b].size >= HeaderSize + 1
      /\ (b + HeaderSize) - HeaderSize = b
      /\ heapLimit = memSize /\ memSize \in HeapBase..MaxMemory /\ MaxMemory \in Nat
      /\ b + mem[b].size <= heapBump /\ heapBump <= memSize /\ heapBump \in Nat
  BY OwnedFacts
<1>2. payload \in Nat \ {0}
  <2>1. Geometric(mem[b].size - HeaderSize) \in Nat
    BY <1>1 DEF Geometric, HeaderSize
  <2>2. step \in Nat
    BY <2>1
  <2>. HIDE DEF step
  <2>3. QED
    BY <2>2
<1>. HIDE DEF payload
<1>3. /\ total \in Nat /\ total >= HeaderSize + 1
      /\ payload <= MaxPayload => total < WordLimit /\ Wrap(end) = end /\ end \in Nat
  BY <1>1, <1>2, ConstantsAssumption DEF MaxPayload, HeaderSize, Wrap, PlainCallers
<1>4. Wrap(end) \in Nat \/ ~(payload <= MaxPayload)
  BY <1>3
<1>5. \/ Refuse(Invalid)
      \/ Refuse(Exhausted(n, 0))
      \/ Refuse(Exhausted(payload, 0))
      \/ payload <= MaxPayload /\ Refuse(Exhausted(Wrap(end), 0))
      \/ /\ AtWilderness(b) /\ payload <= MaxPayload /\ Wrap(end) <= heapLimit
         /\ Resize(b, total) /\ UNCHANGED limits
      \/ /\ AtWilderness(b) /\ payload <= MaxPayload /\ Wrap(end) > heapLimit
         /\ \E g \in PageGrowth(Wrap(end) - heapLimit) :
              /\ memSize + g <= MaxMemory
              /\ memSize' = memSize + g
              /\ heapLimit' = Wrap(memSize')
         /\ Resize(b, total)
  BY <1>1 DEF GrowDocumentTo, payload
<1>. HIDE DEF total, end
<1>6. CASE Refuse(Invalid)
  BY <1>6, AnswerFacts, RefuseInv
<1>7. CASE Refuse(Exhausted(n, 0)) \/ Refuse(Exhausted(payload, 0))
  BY <1>2, <1>7, AnswerFacts, RefuseInv
<1>8. CASE payload <= MaxPayload /\ Refuse(Exhausted(Wrap(end), 0))
  BY <1>4, <1>8, AnswerFacts, RefuseInv
<1>9. CASE /\ AtWilderness(b) /\ payload <= MaxPayload /\ Wrap(end) <= heapLimit
           /\ Resize(b, total) /\ UNCHANGED limits
  <2>1. heapLimit' = memSize' /\ memSize' \in HeapBase..MaxMemory /\ b + total <= heapLimit'
    BY <1>1, <1>3, <1>9 DEF limits, end
  <2>2. QED
    BY <1>3, <1>9, <2>1, ResizeInv
<1>10. CASE /\ AtWilderness(b) /\ payload <= MaxPayload /\ Wrap(end) > heapLimit
            /\ \E g \in PageGrowth(Wrap(end) - heapLimit) :
                 /\ memSize + g <= MaxMemory
                 /\ memSize' = memSize + g
                 /\ heapLimit' = Wrap(memSize')
            /\ Resize(b, total)
  <2>1. PICK g \in PageGrowth(end - heapLimit) :
          memSize + g <= MaxMemory /\ memSize' = memSize + g /\ heapLimit' = Wrap(memSize')
    BY <1>3, <1>10
  <2>2. g \in Nat /\ end - heapLimit <= g
    BY ConstantsAssumption DEF PageGrowth
  <2>3. heapLimit' = memSize' /\ memSize' \in HeapBase..MaxMemory /\ end <= heapLimit'
    BY <1>1, <1>3, <1>10, <2>1, <2>2, ConstantsAssumption DEF Wrap, PlainCallers
  <2>4. QED
    BY <1>3, <1>10, <2>3, ResizeInv DEF end
<1>11. QED
  BY <1>5, <1>6, <1>7, <1>8, <1>9, <1>10

(* trimDocument.                                                             *)
LEMMA TrimInv ==
  ASSUME PlainCallers, IInv, NEW b \in live, NEW n \in Nat \ {0},
         TrimDocument(b + HeaderSize, n)
  PROVE  IInv'
<1>1. /\ b \in Int /\ HeapBase <= b /\ HeapBase \in Nat
      /\ mem[b].size \in Nat /\ mem[b].size < WordLimit /\ WordLimit \in Nat
      /\ (b + HeaderSize) - HeaderSize = b
      /\ heapLimit = memSize /\ memSize \in HeapBase..MaxMemory
      /\ b + mem[b].size <= heapBump /\ heapBump <= memSize /\ heapBump \in Nat /\ MaxMemory \in Nat
  BY OwnedFacts
<1>2. \/ Refuse(Invalid)
      \/ Refuse(Ok)
      \/ /\ AtWilderness(b) /\ n + HeaderSize <= mem[b].size
         /\ Resize(b, n + HeaderSize) /\ UNCHANGED limits
  BY <1>1 DEF TrimDocument
<1>3. CASE Refuse(Invalid) \/ Refuse(Ok)
  BY <1>3, AnswerFacts, RefuseInv
<1>4. CASE /\ AtWilderness(b) /\ n + HeaderSize <= mem[b].size
           /\ Resize(b, n + HeaderSize) /\ UNCHANGED limits
  <2>1. /\ n + HeaderSize \in Nat /\ n + HeaderSize >= HeaderSize + 1 /\ n + HeaderSize < WordLimit
        /\ heapLimit' = memSize' /\ memSize' \in HeapBase..MaxMemory
        /\ b + (n + HeaderSize) <= heapLimit'
    BY <1>1, <1>4 DEF HeaderSize, limits
  <2>2. QED
    BY <1>4, <2>1, ResizeInv
<1>5. QED
  BY <1>2, <1>3, <1>4

(* A store into an owned payload.                                            *)
LEMMA WriteInv ==
  ASSUME PlainCallers, IInv, NEW b \in live, WritePayload(b)
  PROVE  IInv'
<1>1. PICK a \in (b + HeaderSize)..(b + mem[b].size - 1), w \in Words :
        /\ mem' = Put(mem, a, w)
        /\ UNCHANGED <<freeList, heapBump, limits, live, last>>
  BY DEF WritePayload, Put
<1>2. /\ b \in Int /\ HeapBase <= b /\ HeapBase \in Nat /\ mem[b].size \in Nat
      /\ b + mem[b].size <= heapBump /\ heapBump <= memSize /\ memSize \in HeapBase..MaxMemory
      /\ heapLimit = memSize /\ heapBump \in Nat /\ MaxMemory \in Nat /\ b \in Free \cup live
  BY OwnedFacts
<1>3. /\ Heap(mem, Free, live, heapBump) /\ Apart(mem, Free) /\ PlainMemory(mem)
      /\ \A c \in Free : c + Size(mem, c) # heapBump
  BY DEF IInv, Coalesced, End, Apart, Size, Heap
<1>4. a \in Addr /\ b < a /\ a < b + Size(mem, b)
  BY <1>2 DEF Addr, HeaderSize, Size
<1>5. w \in Word /\ ~w.external
  BY ConstantsAssumption DEF PlainCallers
<1>6. PlainMemory(mem') /\ \A c \in Addr : c # a => mem'[c] = mem[c]
  BY <1>1, <1>3, <1>4, <1>5, PutFacts
<1>7. \A c \in Addr : ~(b < c /\ c < b + Size(mem, b)) => mem'[c] = mem[c]
  BY <1>4, <1>6
<1>8. Heap(mem', Free, live, heapBump) /\ \A c \in Free \cup live : Size(mem', c) = Size(mem, c)
  BY <1>3, <1>6, <1>7, HeapStore
<1>9. Apart(mem', Free) /\ \A c \in Free : c + Size(mem', c) # heapBump
  BY <1>3, <1>8 DEF Apart
<1>10. /\ freeList' \in Seq(Int) /\ Increasing(freeList') /\ Elements(freeList') = Free
       /\ last' \in Answers
  BY <1>1, ListFacts DEF IInv, TypeOK, Answers
<1>11. QED
  BY <1>1, <1>2, <1>8, <1>9, <1>10, HeapStep DEF limits

(* The host grows memory.                                                    *)
LEMMA EnsureInv ==
  ASSUME PlainCallers, IInv, EnsureBytes
  PROVE  IInv'
<1>1. /\ heapBump \in HeapBase..MaxMemory /\ heapBump <= heapLimit
      /\ heapLimit = memSize /\ memSize \in HeapBase..MaxMemory /\ last.required \in Nat
  BY DEF IInv, TypeOK, WithinMemory
<1>2. PICK g \in PageGrowth(last.required - memSize) :
        memSize + g <= MaxMemory /\ memSize' = memSize + g /\ heapLimit' = Wrap(memSize')
  BY DEF EnsureBytes
<1>3. g \in Nat
  BY ConstantsAssumption DEF PageGrowth
<1>4. heapLimit' = memSize' /\ memSize' \in HeapBase..MaxMemory /\ heapBump <= heapLimit'
  BY <1>1, <1>2, <1>3, ConstantsAssumption DEF Wrap, PlainCallers
<1>5. /\ mem' = mem /\ freeList' = freeList /\ heapBump' = heapBump
      /\ live' = live /\ last' = last
  BY DEF EnsureBytes, heap
<1>6. /\ Heap(mem, Free, live, heapBump) /\ Apart(mem, Free)
      /\ \A c \in Free : c + Size(mem, c) # heapBump
  BY DEF IInv, Coalesced, End, Apart, Size
<1>7. /\ freeList \in Seq(Int) /\ Increasing(freeList) /\ Elements(freeList) = Free
      /\ last \in Answers
  BY ListFacts DEF IInv, TypeOK, Answers
<1>8. QED
  BY <1>4, <1>5, <1>6, <1>7, HeapStep

-----------------------------------------------------------------------------
(* releaseDocument: rolling the bump pointer back over the last free block.  *)
LEMMA RollBackInv ==
  ASSUME IInv, NEW l \in Seq(Int), Increasing(l), NEW m, NEW L, NEW F,
         F = Elements(l), Heap(m, F, L, heapBump), Apart(m, F),
         RollBack(l, m), mem' = m, live' = L, last' = Ok, UNCHANGED limits
  PROVE  IInv'
<1>1. /\ heapBump \in HeapBase..MaxMemory /\ heapBump <= heapLimit /\ heapLimit' = heapLimit
      /\ memSize' = memSize /\ heapLimit = memSize /\ memSize \in HeapBase..MaxMemory
      /\ HeapBase \in Nat /\ MaxMemory \in Nat /\ last' \in Answers
  BY AnswerFacts, ConstantsAssumption DEF IInv, TypeOK, WithinMemory, limits
<1>2. DOMAIN l = 1..Len(l) /\ \A k \in 1..Len(l) : l[k] \in F
  BY DEF Elements
<1>3. CASE /\ \A k \in DOMAIN l : l[k] + m[l[k]].size # heapBump
           /\ heapBump' = heapBump
           /\ freeList' = l
  <2>1. \A c \in F : c + Size(m, c) # heapBump
    BY <1>2, <1>3 DEF Elements, Size
  <2>2. QED
    BY <1>1, <1>3, <2>1, HeapStep
<1>4. ASSUME NEW k \in DOMAIN l, l[k] + m[l[k]].size = heapBump,
             heapBump' = l[k], freeList' = RemoveAt(l, k)
      PROVE  IInv'
  <2> DEFINE b == l[k]
             G == F \ {b}
  <2>1. b \in F /\ b \in F \cup L /\ b + Size(m, b) = heapBump
    BY <1>2, <1>4 DEF Size
  <2>2. freeList' \in Seq(Int) /\ Increasing(freeList') /\ Elements(freeList') = G
    BY <1>2, <1>4, RemoveIncreasing
  <2>. HIDE DEF b
  <2>3. L \ {b} = L
    BY <2>1 DEF Heap
  <2>4. b <= heapBump
    BY <2>1, BlockFacts
  <2>5. Heap(m, G, L, b)
    BY <2>1, <2>3, HeapPop
  <2>6. b \in Int /\ heapBump' = b
    BY <1>4, <2>1, BlockFacts DEF b
  <2>7. Apart(m, G) /\ \A c \in G : c + Size(m, c) # b
    BY <2>1 DEF Apart
  <2>8. b <= heapLimit
    BY <1>1, <2>4, <2>6
  <2>. HIDE DEF G
  <2>9. QED
    BY <1>1, <2>2, <2>5, <2>6, <2>7, <2>8, HeapStep
<1>5. QED
  BY <1>3, <1>4 DEF RollBack

(* The place of a released block b in the list: after i smaller blocks.      *)
Place(b, i) ==
  /\ i \in 0..Len(freeList)
  /\ \A j \in 1..i : freeList[j] < b
  /\ i < Len(freeList) => b < freeList[i + 1]

(* Where b stands among the free blocks, and what it can touch there.        *)
LEMMA PlaceFacts ==
  ASSUME IInv, NEW b \in live, NEW i, Place(b, i)
  PROVE  /\ i \in Nat /\ i + 1 \in 1..(Len(freeList) + 1)
         /\ \A j \in 1..Len(freeList) : /\ j < i + 1 => freeList[j] < b
                                        /\ i + 1 <= j => b < freeList[j]
         /\ \A d \in Free : b + Size(mem, b) = d => i < Len(freeList) /\ d = freeList[i + 1]
<1>1. /\ freeList \in Seq(Int) /\ Increasing(freeList) /\ Free = Elements(freeList)
      /\ DOMAIN freeList = 1..Len(freeList) /\ Len(freeList) \in Nat
      /\ \A j \in 1..Len(freeList) : freeList[j] \in Free /\ freeList[j] \in Int
  BY ListFacts
<1>2. Heap(mem, Free, live, heapBump) /\ b \in Free \cup live
  BY DEF IInv
<1>3. b \in Int /\ Size(mem, b) \in Nat \ {0}
  BY <1>2, BlockFacts
<1>4. \A j \in 1..Len(freeList) : j < i + 1 => freeList[j] < b
  BY <1>1 DEF Place
<1>5. \A j \in 1..Len(freeList) : i + 1 <= j => b < freeList[j]
  <2>1. ASSUME NEW j \in 1..Len(freeList), i + 1 <= j PROVE b < freeList[j]
    <3>1. i + 1 \in 1..Len(freeList) /\ b < freeList[i + 1]
      BY <1>1, <2>1 DEF Place
    <3>2. i + 1 < j => freeList[i + 1] < freeList[j]
      BY <1>1, <3>1 DEF Increasing
    <3>3. i + 1 = j \/ i + 1 < j
      BY <2>1, <3>1
    <3>4. QED
      BY <1>1, <1>3, <3>1, <3>2, <3>3
  <2>2. QED
    BY <2>1
<1>6. ASSUME NEW d \in Free, b + Size(mem, b) = d
      PROVE  i < Len(freeList) /\ d = freeList[i + 1]
  <2>1. PICK k \in 1..Len(freeList) : d = freeList[k]
    BY <1>1 DEF Elements
  <2>2. b < d /\ i \in Nat
    BY <1>1, <1>3, <1>6 DEF Place
  <2>3. i + 1 <= k
    BY <1>1, <1>3, <1>4, <2>1, <2>2
  <2>4. i + 1 \in 1..Len(freeList)
    BY <1>1, <2>2, <2>3
  <2>5. freeList[i + 1] \in Free \cup live /\ b < freeList[i + 1]
    BY <1>1, <1>5, <2>4
  <2>6. b + Size(mem, b) <= freeList[i + 1]
    BY <1>2, <2>5, BlocksDisjoint
  <2>7. ~(i + 1 < k)
    <3>1. i + 1 < k => freeList[i + 1] < freeList[k]
      BY <1>1, <2>1, <2>4 DEF Increasing
    <3>2. /\ freeList[k] <= freeList[i + 1]
          /\ freeList[k] \in Int /\ freeList[i + 1] \in Int
      BY <1>1, <1>6, <2>1, <2>4, <2>6
    <3>3. QED
      BY <3>1, <3>2
  <2>8. QED
    BY <2>1, <2>2, <2>3, <2>4, <2>7, <1>1
<1>7. QED
  BY <1>1, <1>4, <1>5, <1>6 DEF Place

(* List l and memory t after b has been linked in at i and merged with the   *)
(* free block that follows it.                                              *)
Linked(l, t, b, i) ==
  /\ l \in Seq(Int)
  /\ Increasing(l)
  /\ i + 1 \in 1..Len(l)
  /\ l[i + 1] = b
  /\ \A j \in 1..i : l[j] = freeList[j]
  /\ Heap(t, Elements(l), live \ {b}, heapBump)
  /\ \A d \in Elements(l) : d # b => d \in Free /\ Size(t, d) = Size(mem, d)
  /\ \A d \in Elements(l) : b + Size(t, b) # d

(* Rewriting a header twice.                                                 *)
LEMMA PutTwice ==
  ASSUME NEW m, PlainMemory(m), NEW b \in Addr, NEW x, NEW y
  PROVE  Put(Put(m, b, x), b, y) = Put(m, b, y)
BY DEF PlainMemory, Put

(* Marking an owned block free.                                              *)
LEMMA FreedFacts ==
  ASSUME IInv, NEW b \in live
  PROVE  /\ Heap(Freed(mem, b), Free \cup {b}, live \ {b}, heapBump)
         /\ \A d \in Free \cup live : Size(Freed(mem, b), d) = Size(mem, d)
<1>1. Heap(mem, Free, live, heapBump)
  BY DEF IInv
<1>2. QED
  BY <1>1, HeapFree

(* Linking without a free block to follow.                                   *)
LEMMA LinkAlone ==
  ASSUME IInv, NEW b \in live, NEW i, Place(b, i),
         ~(i < Len(freeList) /\ b + Size(mem, b) = freeList[i + 1])
  PROVE  Linked(InsertAt(freeList, i + 1, b), Freed(mem, b), b, i)
<1> DEFINE l == InsertAt(freeList, i + 1, b)
           t == Freed(mem, b)
           F == Free \cup {b}
<1>1. /\ freeList \in Seq(Int) /\ Increasing(freeList) /\ Free = Elements(freeList)
      /\ Len(freeList) \in Nat
  BY ListFacts
<1>2. /\ Heap(mem, Free, live, heapBump) /\ b \in Free \cup live /\ b \notin Free
      /\ Apart(mem, Free)
  BY DEF IInv, Heap, Coalesced, Apart, End, Size
<1>3. b \in Int /\ Size(mem, b) \in Nat \ {0}
  BY <1>2, BlockFacts
<1>4. /\ i \in Nat /\ i + 1 \in 1..(Len(freeList) + 1)
      /\ \A j \in 1..Len(freeList) : /\ j < i + 1 => freeList[j] < b
                                     /\ i + 1 <= j => b < freeList[j]
      /\ \A d \in Free : b + Size(mem, b) = d => i < Len(freeList) /\ d = freeList[i + 1]
  BY PlaceFacts
<1>5. l \in Seq(Int) /\ Increasing(l) /\ Elements(l) = F
  BY <1>1, <1>3, <1>4, InsertIncreasing
<1>6. Len(l) = Len(freeList) + 1 /\ l[i + 1] = b /\ \A j \in 1..i : l[j] = freeList[j]
  <2> DEFINE k == i + 1
  <2>1. k \in 1..(Len(freeList) + 1) /\ k - 1 = i
    BY <1>4
  <2>. HIDE DEF k
  <2>2. /\ Len(InsertAt(freeList, k, b)) = Len(freeList) + 1 /\ InsertAt(freeList, k, b)[k] = b
        /\ \A j \in 1..(k - 1) : InsertAt(freeList, k, b)[j] = freeList[j]
    BY <1>1, <1>3, <2>1, InsertFacts
  <2>3. QED
    BY <2>1, <2>2 DEF k
<1>. HIDE DEF l, t
<1>7. Heap(t, F, live \ {b}, heapBump)
  BY FreedFacts DEF t
<1>8. \A c \in Free \cup live : Size(t, c) = Size(mem, c)
  BY FreedFacts DEF t
<1>9. \A d \in F : b + Size(t, b) # d
  BY <1>2, <1>3, <1>4, <1>8
<1>10. \A d \in F : d # b => d \in Free /\ Size(t, d) = Size(mem, d)
  BY <1>8
<1>11. i + 1 \in 1..Len(l) /\ \A j \in 1..i : l[j] = freeList[j]
  BY <1>1, <1>4, <1>6
<1>. HIDE DEF F
<1>12. Linked(l, t, b, i)
  BY <1>5, <1>6, <1>7, <1>9, <1>10, <1>11 DEF Linked
<1>13. QED
  BY <1>12 DEF l, t

(* Linking with the free block that follows.                                 *)
LEMMA LinkNext ==
  ASSUME PlainCallers, IInv, NEW b \in live, NEW i, Place(b, i),
         NEW c, i < Len(freeList), c = freeList[i + 1], b + Size(mem, b) = c
  PROVE  Linked(ReplaceAt(freeList, i + 1, b),
                Put(mem, b, Vacant(Size(mem, b) + Size(mem, c))), b, i)
<1> DEFINE l == ReplaceAt(freeList, i + 1, b)
           m1 == Freed(mem, b)
           t == Merged(m1, b, c)
           F == Free \cup {b}
           G == F \ {c}
<1>1. /\ freeList \in Seq(Int) /\ Increasing(freeList) /\ Free = Elements(freeList)
      /\ Len(freeList) \in Nat /\ \A j \in 1..Len(freeList) : freeList[j] \in Free
  BY ListFacts
<1>2. /\ Heap(mem, Free, live, heapBump) /\ b \in Free \cup live /\ b \notin Free
      /\ Apart(mem, Free) /\ PlainMemory(mem)
  BY DEF IInv, Heap, Coalesced, Apart, End, Size
<1>3. b \in Int /\ Size(mem, b) \in Nat \ {0} /\ b \in Addr
  BY <1>2, BlockFacts
<1>4. /\ i \in Nat /\ i + 1 \in 1..Len(freeList)
      /\ \A j \in 1..Len(freeList) : /\ j < i + 1 => freeList[j] < b
                                     /\ i + 1 <= j => b < freeList[j]
  BY <1>1, PlaceFacts
<1>5. c \in Free /\ c \in Free \cup live
  BY <1>1, <1>4
<1>6. c \in Int /\ Size(mem, c) \in Nat \ {0} /\ c # b
  BY <1>2, <1>5, BlockFacts
<1>7. \A j \in 1..Len(freeList) : /\ j < i + 1 => freeList[j] < b
                                  /\ i + 1 < j => b < freeList[j]
  BY <1>1, <1>4
<1>8. l \in Seq(Int) /\ Increasing(l) /\ Elements(l) = G
  <2>1. /\ l \in Seq(Int) /\ Increasing(l)
        /\ Elements(l) = (Elements(freeList) \ {freeList[i + 1]}) \cup {b}
    BY <1>1, <1>3, <1>4, <1>7, ReplaceIncreasing
  <2>2. QED
    BY <1>1, <1>6, <2>1
<1>9. /\ Len(l) = Len(freeList) /\ l[i + 1] = b
      /\ \A j \in 1..Len(freeList) : j # i + 1 => l[j] = freeList[j]
  BY <1>1, <1>3, <1>4, ReplaceFacts
<1>. HIDE DEF l, m1
<1>10. Heap(m1, F, live \ {b}, heapBump)
  BY FreedFacts DEF m1
<1>11. \A d \in Free \cup live : Size(m1, d) = Size(mem, d)
  BY FreedFacts DEF m1
<1>12. /\ b \in F /\ c \in F /\ b + Size(m1, b) = c /\ MaxMemory <= WordLimit
       /\ Size(m1, b) = Size(mem, b) /\ Size(m1, c) = Size(mem, c)
  BY <1>2, <1>5, <1>11 DEF PlainCallers
<1>. HIDE DEF F
<1>13. Heap(t, G, live \ {b}, heapBump)
  BY <1>10, <1>12, HeapMerge
<1>14. /\ Size(t, b) = Size(mem, b) + Size(mem, c)
       /\ \A d \in F \cup (live \ {b}) : d # b => Size(t, d) = Size(m1, d)
  <2> DEFINE L == live \ {b}
  <2>1. Heap(m1, F, L, heapBump)
    BY <1>10
  <2>. HIDE DEF L
  <2>2. /\ Heap(Merged(m1, b, c), F \ {c}, L, heapBump)
        /\ Size(Merged(m1, b, c), b) = Size(m1, b) + Size(m1, c)
        /\ \A d \in F \cup L : d # b => Size(Merged(m1, b, c), d) = Size(m1, d)
    BY <2>1, <1>12, HeapMerge
  <2>3. QED
    BY <1>12, <2>2 DEF L
<1>. HIDE DEF t
<1>15. \A d \in G : d # b => d \in Free /\ Size(t, d) = Size(mem, d)
  BY <1>11, <1>14 DEF F
<1>16. b + Size(t, b) = c + Size(mem, c)
  BY <1>3, <1>6, <1>14
<1>17. \A d \in G : b + Size(t, b) # d
  <2>1. \A d \in Free : c + Size(mem, c) # d
    BY <1>2, <1>5 DEF Apart
  <2>2. c + Size(mem, c) # b
    BY <1>3, <1>6
  <2>3. QED
    BY <1>16, <2>1, <2>2 DEF F
<1>18. i + 1 \in 1..Len(l) /\ \A j \in 1..i : l[j] = freeList[j]
  BY <1>1, <1>4, <1>9
<1>. HIDE DEF G
<1>19. Linked(l, t, b, i)
  BY <1>8, <1>9, <1>13, <1>15, <1>17, <1>18 DEF Linked
<1>20. t = Put(mem, b, Vacant(Size(mem, b) + Size(mem, c)))
  BY <1>2, <1>3, <1>12, PutTwice DEF t, Merged, m1, Freed
<1>21. QED
  BY <1>19, <1>20 DEF l

(* Merging with the free block that precedes, if it ends at b.               *)
LEMMA LinkPrevious ==
  ASSUME PlainCallers, IInv, NEW b \in live, NEW i \in Nat, NEW l, NEW t, Linked(l, t, b, i),
         NEW p, i > 0, p = freeList[i], p + Size(mem, p) = b,
         RollBack(RemoveAt(l, i + 1), Put(t, p, Vacant(Size(mem, p) + Size(t, b)))),
         mem' = Put(t, p, Vacant(Size(mem, p) + Size(t, b))),
         live' = live \ {b}, last' = Ok, UNCHANGED limits
  PROVE  IInv'
<1> DEFINE F == Elements(l)
           G == F \ {b}
           L == live \ {b}
           m == Merged(t, p, b)
           r == RemoveAt(l, i + 1)
<1>1. /\ l \in Seq(Int) /\ Increasing(l) /\ i + 1 \in 1..Len(l) /\ l[i + 1] = b
      /\ Heap(t, F, L, heapBump)
      /\ \A d \in F : d # b => d \in Free /\ Size(t, d) = Size(mem, d)
      /\ \A d \in F : b + Size(t, b) # d
      /\ \A j \in 1..i : l[j] = freeList[j]
  BY DEF Linked
<1>2. i \in 1..Len(l) /\ l[i] = p /\ i < i + 1
  BY <1>1
<1>3. b \in F /\ p \in F /\ p < b
  BY <1>1, <1>2 DEF Elements, Increasing
<1>4. p # b /\ p \in Free /\ Size(t, p) = Size(mem, p)
  <2>1. p \in Int /\ b \in Int
    BY <1>1, <1>2
  <2>2. p # b
    BY <1>3, <2>1
  <2>3. QED
    BY <1>1, <1>3, <2>2
<1>5. r \in Seq(Int) /\ Increasing(r) /\ Elements(r) = G
  BY <1>1, RemoveIncreasing
<1>6. p + Size(t, p) = b /\ MaxMemory <= WordLimit
  BY <1>4 DEF PlainCallers
<1>. HIDE DEF F, L, m, r
<1>7. /\ Heap(m, G, L, heapBump)
      /\ Size(m, p) = Size(t, p) + Size(t, b)
      /\ \A d \in F \cup L : d # p => Size(m, d) = Size(t, d)
  <2>1. /\ Heap(t, F, L, heapBump) /\ p \in F /\ b \in F /\ p + Size(t, p) = b
        /\ MaxMemory <= WordLimit
    BY <1>1, <1>3, <1>6
  <2>2. /\ Heap(Merged(t, p, b), F \ {b}, L, heapBump)
        /\ Size(Merged(t, p, b), p) = Size(t, p) + Size(t, b)
        /\ \A d \in F \cup L : d # p => Size(Merged(t, p, b), d) = Size(t, d)
    BY <2>1, HeapMerge
  <2>3. QED
    BY <2>2 DEF m
<1>8. p + Size(m, p) = b + Size(t, b)
  <2>1. p \in F \cup L /\ b \in F \cup L
    BY <1>3
  <2>2. p \in Int /\ Size(t, p) \in Nat /\ Size(t, b) \in Nat /\ b \in Int
    BY <1>1, <2>1, BlockFacts
  <2>3. QED
    BY <1>6, <1>7, <2>2
<1>9. Apart(m, G)
  <2>1. \A d \in G : p + Size(m, p) # d
    BY <1>1, <1>8
  <2>2. ASSUME NEW c \in G, c # p, NEW d \in G PROVE c + Size(m, c) # d
    <3>1. c \in Free /\ d \in Free /\ Size(m, c) = Size(mem, c)
      BY <1>1, <1>7, <2>2
    <3>2. QED
      BY <3>1 DEF IInv, Coalesced, End, Size
  <2>3. QED
    BY <2>1, <2>2 DEF Apart
<1>. HIDE DEF G
<1>10. m = Put(t, p, Vacant(Size(mem, p) + Size(t, b)))
  BY <1>4 DEF m, Merged
<1>11. RollBack(r, m) /\ mem' = m /\ live' = L
  BY <1>10 DEF r, L
<1>12. QED
  BY <1>5, <1>7, <1>9, <1>11, RollBackInv

(* Leaving the free block that precedes alone.                               *)
LEMMA LinkOnly ==
  ASSUME PlainCallers, IInv, NEW b \in live, NEW i \in Nat, NEW l, NEW t, Linked(l, t, b, i),
         ~(i > 0 /\ freeList[i] + Size(mem, freeList[i]) = b),
         RollBack(l, t), mem' = t,
         live' = live \ {b}, last' = Ok, UNCHANGED limits
  PROVE  IInv'
<1> DEFINE F == Elements(l)
           L == live \ {b}
<1>1. /\ l \in Seq(Int) /\ Increasing(l) /\ i + 1 \in 1..Len(l) /\ l[i + 1] = b
      /\ Heap(t, F, L, heapBump)
      /\ \A d \in F : d # b => d \in Free /\ Size(t, d) = Size(mem, d)
      /\ \A d \in F : b + Size(t, b) # d
      /\ \A j \in 1..i : l[j] = freeList[j]
  BY DEF Linked
<1>2. b \in F
  BY <1>1 DEF Elements
<1>3. ASSUME NEW c \in F, c # b PROVE c + Size(t, c) # b
  <2>1. SUFFICES ASSUME c + Size(t, c) = b PROVE FALSE
    OBVIOUS
  <2>2. PICK k \in 1..Len(l) : c = l[k]
    BY DEF Elements
  <2>3. c \in F \cup L /\ b \in F \cup L
    BY <1>2
  <2>4. c \in Int /\ b \in Int /\ Size(t, c) \in Nat \ {0}
    BY <1>1, <2>3, BlockFacts
  <2>5. c < b
    BY <2>1, <2>4
  <2>6. k < i + 1
    BY <1>1, <2>2, <2>4, <2>5, SMTT(20) DEF Increasing
  <2>7. i \in 1..Len(l) /\ i > 0 /\ l[i] = freeList[i]
    BY <1>1, <2>6
  <2>8. k # i
    BY <1>1, <1>3, <2>1, <2>2, <2>7
  <2>9. k < i
    BY <2>6, <2>8
  <2>10. c < l[i] /\ l[i] < b
    BY <1>1, <2>2, <2>7, <2>9 DEF Increasing
  <2>11. l[i] \in F \cup L
    BY <2>7 DEF Elements
  <2>12. c + Size(t, c) <= l[i]
    BY <1>1, <2>3, <2>10, <2>11, BlocksDisjoint
  <2>13. l[i] \in Int
    BY <1>1, <2>7
  <2>14. QED
    BY <2>1, <2>4, <2>10, <2>12, <2>13
<1>4. Apart(t, F)
  <2>1. ASSUME NEW c \in F, c # b, NEW d \in F, d # b PROVE c + Size(t, c) # d
    <3>1. c \in Free /\ d \in Free /\ Size(t, c) = Size(mem, c)
      BY <1>1, <2>1
    <3>2. QED
      BY <3>1 DEF IInv, Coalesced, End, Size
  <2>2. QED
    BY <1>1, <1>3, <2>1 DEF Apart
<1>. HIDE DEF F, L
<1>5. live' = L /\ F = Elements(l)
  BY DEF F, L
<1>6. QED
  BY <1>1, <1>4, <1>5, RollBackInv

(* Linking a block in.                                                       *)
LEMMA LinkFreeInv ==
  ASSUME PlainCallers, IInv, NEW b \in live, NEW i, Place(b, i), LinkFree(b, i),
         live' = live \ {b}, last' = Ok, UNCHANGED limits
  PROVE  IInv'
<1> DEFINE c == freeList[i + 1]
           p == freeList[i]
           mergeNext == i < Len(freeList) /\ b + Size(mem, b) = c
           mergePrev == i > 0 /\ p + Size(mem, p) = b
           size == Size(mem, b) + (IF mergeNext THEN Size(mem, c) ELSE 0)
           l == IF mergeNext THEN ReplaceAt(freeList, i + 1, b) ELSE InsertAt(freeList, i + 1, b)
           t == Put(mem, b, Vacant(size))
<1>1. i \in Nat
  BY PlaceFacts
<1>2. b \in Free \cup live /\ Heap(mem, Free, live, heapBump) /\ b \in Addr /\ Size(mem, b) \in Nat
      /\ PlainMemory(mem)
  <2>1. b \in Free \cup live /\ Heap(mem, Free, live, heapBump)
    BY DEF IInv
  <2>2. QED
    BY <2>1, BlockFacts DEF Heap
<1>3. Linked(l, t, b, i)
  <2>1. CASE mergeNext
    <3>1. l = ReplaceAt(freeList, i + 1, b) /\ t = Put(mem, b, Vacant(Size(mem, b) + Size(mem, c)))
      BY <2>1
    <3>2. QED
      BY <2>1, <3>1, LinkNext
  <2>2. CASE ~mergeNext
    <3>1. l = InsertAt(freeList, i + 1, b) /\ t = Freed(mem, b)
      BY <1>2, <2>2 DEF Freed
    <3>2. QED
      BY <2>2, <3>1, LinkAlone
  <2>3. QED
    BY <2>1, <2>2
<1>4. Size(t, b) = size
  <2>1. b \in Elements(l) /\ Heap(t, Elements(l), live \ {b}, heapBump)
    BY <1>3 DEF Linked, Elements
  <2>2. t[b] = Vacant(size)
    BY <1>2 DEF Put, PlainMemory
  <2>3. size \in 0..(WordLimit - 1)
    <3>1. CASE mergeNext
      <4>1. c \in Free \cup live
        BY <1>1, <3>1, ListFacts
      <4>2. c + Size(mem, c) <= heapBump /\ Size(mem, c) \in Nat /\ c \in Int /\ b \in Int /\ HeapBase <= b
        BY <1>2, <4>1, BlockFacts
      <4>3. heapBump \in HeapBase..MaxMemory
        BY DEF IInv, TypeOK
      <4>4. size = Size(mem, b) + Size(mem, c) /\ b + Size(mem, b) = c
        BY <3>1
      <4>. HIDE DEF size, c
      <4>5. QED
        BY <1>2, <4>2, <4>3, <4>4, ConstantsAssumption DEF PlainCallers
    <3>2. CASE ~mergeNext
      <4>1. size = Size(mem, b)
        BY <1>2, <3>2
      <4>2. QED
        BY <1>2, <4>1, BlockFacts
    <3>3. QED
      BY <3>1, <3>2
  <2>. HIDE DEF size, t
  <2>4. QED
    BY <2>2, <2>3, HeaderFacts DEF Size
<1>5. LET list == IF mergePrev THEN RemoveAt(l, i + 1) ELSE l
          merged == IF mergePrev THEN Put(t, p, Vacant(Size(mem, p) + size)) ELSE t
      IN  mem' = merged /\ RollBack(list, merged)
  BY DEF LinkFree, Size, Put, Vacant
<1>. HIDE DEF l, t, size
<1>6. CASE mergePrev
  <2>1. /\ mem' = Put(t, p, Vacant(Size(mem, p) + Size(t, b)))
        /\ RollBack(RemoveAt(l, i + 1), Put(t, p, Vacant(Size(mem, p) + Size(t, b))))
    BY <1>4, <1>5, <1>6
  <2>2. QED
    BY <1>1, <1>3, <1>6, <2>1, LinkPrevious
<1>7. CASE ~mergePrev
  <2>1. mem' = t /\ RollBack(l, t)
    BY <1>5, <1>7
  <2>2. QED
    BY <1>1, <1>3, <1>7, <2>1, LinkOnly
<1>8. QED
  BY <1>6, <1>7

(* Taking a released block back.                                             *)
LEMMA ReclaimInv ==
  ASSUME PlainCallers, IInv, NEW b \in live, Reclaim(b),
         live' = live \ {b}, UNCHANGED limits
  PROVE  IInv'
<1>1. Heap(mem, Free, live, heapBump) /\ b \in Free \cup live /\ b \notin Free
  BY DEF IInv, Heap
<1>2. /\ heapBump \in HeapBase..MaxMemory /\ heapBump <= heapLimit /\ heapLimit' = heapLimit
      /\ memSize' = memSize /\ heapLimit = memSize /\ memSize \in HeapBase..MaxMemory
      /\ HeapBase \in Nat /\ MaxMemory \in Nat
  BY ConstantsAssumption DEF IInv, TypeOK, WithinMemory, limits
<1>3. b \in Int /\ HeapBase <= b /\ Size(mem, b) \in Nat /\ b + Size(mem, b) <= heapBump
  BY <1>1, BlockFacts
<1>4. CASE /\ freeList = << >>
           /\ AtWilderness(b)
           /\ heapBump' = b
           /\ last' = Ok
           /\ UNCHANGED <<mem, freeList>>
  <2>1. Free = {}
    BY <1>4 DEF Free
  <2>2. Heap(mem, Free \ {b}, live \ {b}, b)
    BY <1>1, <1>4, HeapPop DEF AtWilderness, Size
  <2>3. freeList' \in Seq(Int) /\ Increasing(freeList') /\ Elements(freeList') = {}
    BY <1>4, <2>1, ListFacts
  <2>4. Heap(mem', Elements(freeList'), live', heapBump')
    BY <1>4, <2>1, <2>2, <2>3
  <2>5. heapBump' <= heapLimit'
    BY <1>2, <1>3, <1>4
  <2>6. Apart(mem', Elements(freeList')) /\ \A c \in Elements(freeList') : c + Size(mem', c) # heapBump'
    BY <2>3 DEF Apart
  <2>7. QED
    BY <1>2, <1>4, <2>3, <2>4, <2>5, <2>6, AnswerFacts, HeapStep
<1>5. CASE /\ freeList = << >>
           /\ ~AtWilderness(b)
           /\ mem' = [mem EXCEPT ![b] = Header(mem[b].size, FALSE)]
           /\ freeList' = <<b>>
           /\ last' = Ok
           /\ UNCHANGED heapBump
  <2>1. Free = {}
    BY <1>5 DEF Free
  <2>2. mem' = Freed(mem, b)
    BY <1>5 DEF Freed, Put, Vacant, Size
  <2>3. Heap(mem', Free \cup {b}, live', heapBump') /\ Size(mem', b) = Size(mem, b)
    BY <1>1, <1>5, <2>2, FreedFacts
  <2>4. Elements(freeList') = {b} /\ freeList' \in Seq(Int) /\ Increasing(freeList')
    <3>1. freeList' \in Seq(Int) /\ Len(freeList') = 1 /\ freeList'[1] = b
      BY <1>3, <1>5
    <3>2. QED
      BY <3>1 DEF Elements, Increasing
  <2>5. Heap(mem', Elements(freeList'), live', heapBump')
    BY <2>1, <2>3, <2>4
  <2>6. b + Size(mem', b) # heapBump'
    BY <1>5, <2>3 DEF AtWilderness, Size
  <2>7. b + Size(mem', b) # b
    <3>1. Size(mem, b) # 0
      BY <1>1, BlockFacts
    <3>2. QED
      BY <1>3, <2>3, <3>1
  <2>8. Apart(mem', Elements(freeList')) /\ \A c \in Elements(freeList') : c + Size(mem', c) # heapBump'
    BY <2>4, <2>6, <2>7 DEF Apart
  <2>9. QED
    BY <1>2, <1>5, <2>4, <2>5, <2>8, AnswerFacts, HeapStep
<1>6. ASSUME NEW i \in 0..Len(freeList),
             \A j \in 1..i : freeList[j] < b,
             \/ i < Len(freeList) /\ freeList[i + 1] = b
             \/ /\ i < Len(freeList) => freeList[i + 1] > b
                /\ LinkFree(b, i)
                /\ last' = Ok
      PROVE  IInv'
  <2>1. ~(i < Len(freeList) /\ freeList[i + 1] = b)
    <3>1. i < Len(freeList) => i + 1 \in 1..Len(freeList)
      BY <1>6, ListFacts
    <3>2. QED
      BY <1>1, <3>1, ListFacts
  <2>2. Place(b, i)
    <3>1. i < Len(freeList) => i + 1 \in 1..Len(freeList)
      BY <1>6, ListFacts
    <3>2. i < Len(freeList) => b < freeList[i + 1]
      BY <1>3, <1>6, <2>1, <3>1, ListFacts
    <3>3. QED
      BY <1>6, <3>2 DEF Place
  <2>3. QED
    BY <1>6, <2>1, <2>2, LinkFreeInv
<1>7. QED
  BY <1>4, <1>5, <1>6 DEF Reclaim

(* releaseDocument: the document of an owned block is always taken back.     *)
LEMMA ReleaseReclaims ==
  ASSUME IInv, NEW b \in live, ReleaseDocument(b + HeaderSize)
  PROVE  Reclaim(b) /\ live' = live \ {b} /\ UNCHANGED limits
<1>1. /\ b \in Int /\ HeapBase <= b /\ mem[b].alloc
      /\ mem[b].size \in Nat /\ mem[b].size >= HeaderSize + 1
      /\ b + mem[b].size <= heapBump
      /\ (b + HeaderSize) - HeaderSize = b
      /\ HeapBase \in Nat /\ heapBump \in Nat /\ heapBump <= memSize
      /\ memSize \in HeapBase..MaxMemory /\ MaxMemory \in Nat
  BY OwnedFacts
<1>2. b + HeaderSize \in Addr /\ PlainMemory(mem)
  BY <1>1 DEF Addr, HeaderSize, IInv, Heap
<1>3. ~ExternalShape(b + HeaderSize)
  BY <1>2 DEF ExternalShape, PlainMemory
<1>4. Releasable(b + HeaderSize)
  BY <1>1 DEF Releasable, HeaderSize
<1>5. QED
  BY <1>1, <1>3, <1>4 DEF ReleaseDocument

LEMMA ReleaseInv ==
  ASSUME PlainCallers, IInv, NEW b \in live, ReleaseDocument(b + HeaderSize)
  PROVE  IInv'
  BY ReleaseReclaims, ReclaimInv

-----------------------------------------------------------------------------
(* Every step preserves the invariant.                                       *)
LEMMA NextInv ==
  ASSUME PlainCallers, IInv, [Next]_vars
  PROVE  IInv'
<1>1. ASSUME NEW n \in Payloads,
             AllocateDocument(n) \/ AllocateGrowableDocument(n) \/ CommitBytes(n)
      PROVE  IInv'
  BY <1>1, AllocateInv
<1>2. ASSUME NEW b \in live, NEW n \in Payloads,
             GrowDocument(b + HeaderSize, n) \/ ReserveDocument(b + HeaderSize, n)
      PROVE  IInv'
  <2>1. n \in Nat \ {0}
    BY DEF PlainCallers
  <2>2. GrowDocumentTo(b + HeaderSize, n, TRUE) \/ GrowDocumentTo(b + HeaderSize, n, FALSE)
    BY <1>2 DEF GrowDocument, ReserveDocument
  <2>3. QED
    BY <2>1, <2>2, GrowInv
<1>3. ASSUME NEW b \in live, NEW n \in Payloads, TrimDocument(b + HeaderSize, n)
      PROVE  IInv'
  BY <1>3, TrimInv DEF PlainCallers
<1>4. ASSUME NEW b \in live, ReleaseDocument(b + HeaderSize)
      PROVE  IInv'
  BY <1>4, ReleaseInv
<1>5. ASSUME NEW b \in live, WritePayload(b)
      PROVE  IInv'
  BY <1>5, WriteInv
<1>6. CASE EnsureBytes
  BY <1>6, EnsureInv
<1>7. CASE UNCHANGED vars
  <2>1. Refuse(last)
    BY <1>7 DEF vars, Refuse, heap, limits
  <2>2. last \in Answers
    BY DEF IInv, TypeOK, Answers
  <2>3. QED
    BY <2>1, <2>2, RefuseInv
<1>8. QED
  BY <1>1, <1>2, <1>3, <1>4, <1>5, <1>6, <1>7 DEF Next

(* The invariant holds of the allocator.                                     *)
THEOREM Invariance == ASSUME PlainCallers PROVE Spec => []IInv
<1>1. Init => IInv
  BY InitInv
<1>2. IInv /\ [Next]_vars => IInv'
  BY NextInv
<1>3. QED
  BY <1>1, <1>2, PTL DEF Spec

-----------------------------------------------------------------------------
(* What follows from the invariant.                                          *)

(* Type correctness of the allocator's globals and of memory.                *)
THEOREM TypeCorrect == ASSUME PlainCallers PROVE Spec => []TypeOK
<1>1. IInv => TypeOK
  BY DEF IInv
<1>2. QED
  BY <1>1, Invariance, PTL

(* allocateBlock and releaseDocument never let two blocks share a granule.   *)
THEOREM BlocksApart == ASSUME PlainCallers PROVE Spec => []NoOverlap
<1>1. ASSUME IInv PROVE NoOverlap
  <2>1. Heap(mem, Free, live, heapBump) /\ Blocks = Free \cup live /\ Free \cap live = {}
    BY <1>1 DEF IInv, Heap, Blocks
  <2>2. ASSUME NEW b \in Blocks
        PROVE  HeapBase <= b /\ b < b + Size(mem, b) /\ b + Size(mem, b) <= heapBump
    <3>1. /\ b \in Int /\ HeapBase <= b /\ Size(mem, b) \in Nat \ {0}
          /\ b + Size(mem, b) <= heapBump
      BY <2>1, BlockFacts
    <3>2. QED
      BY <3>1
  <2>3. ASSUME NEW b \in Blocks, NEW c \in Blocks, b < c
        PROVE  b + Size(mem, b) <= c
    BY <2>1, <2>3, BlocksDisjoint
  <2>4. QED
    BY <2>1, <2>2, <2>3 DEF NoOverlap, End, Size
<1>2. QED
  BY <1>1, Invariance, PTL

(* No operation loses memory: owned and free blocks cover the used heap.     *)
THEOREM NothingLeaks == ASSUME PlainCallers PROVE Spec => []NoLeak
<1>1. ASSUME IInv PROVE NoLeak
  <2>1. Tiles(SizeOf(mem), Blocks, HeapBase, heapBump) /\ Blocks \subseteq Addr
    BY <1>1 DEF IInv, Heap, Blocks
  <2>2. \A b \in Blocks : SizeOf(mem)[b] = mem[b].size
    BY <2>1, SizeOfFacts DEF Size
  <2>3. QED
    BY <2>1, <2>2 DEF NoLeak, Tiles, End
<1>2. QED
  BY <1>1, Invariance, PTL

(* The insertion walk of releaseDocument keeps the free list in address      *)
(* order: it never stops at the wrong place.                                *)
THEOREM FreeListKept == ASSUME PlainCallers PROVE Spec => []FreeListSorted
<1>1. IInv => FreeListSorted
  BY DEF IInv
<1>2. QED
  BY <1>1, Invariance, PTL

(* releaseDocument leaves no two adjacent free blocks, and none at the end   *)
(* of the heap, in whatever order the documents are released.               *)
THEOREM FreeBlocksMerged == ASSUME PlainCallers PROVE Spec => []Coalesced
<1>1. IInv => Coalesced
  BY DEF IInv
<1>2. QED
  BY <1>1, Invariance, PTL

(* The allocation bit of a header always tells owned from free.              *)
THEOREM HeadersKept == ASSUME PlainCallers PROVE Spec => []HeadersAgree
<1>1. IInv => HeadersAgree
  BY DEF IInv, Heap, HeadersAgree
<1>2. QED
  BY <1>1, Invariance, PTL

(* The heap never reaches past the memory the instance has.                  *)
THEOREM StaysInMemory == ASSUME PlainCallers PROVE Spec => []WithinMemory
<1>1. IInv => WithinMemory
  BY DEF IInv
<1>2. QED
  BY <1>1, Invariance, PTL

(* When the last document is released the heap is empty: with no owner left  *)
(* only one free block could cover the used heap, and it would end at the    *)
(* wilderness, where none is left.                                          *)
THEOREM ReleasesReclaim == ASSUME PlainCallers PROVE Spec => []AllReclaimed
<1>1. ASSUME IInv, live = {} PROVE heapBump = HeapBase /\ freeList = << >>
  <2>1. /\ Heap(mem, Free, live, heapBump)
        /\ \A c \in Free : c + Size(mem, c) # heapBump
        /\ \A b, c \in Free : b + Size(mem, b) # c
    BY <1>1 DEF IInv, Coalesced, End, Size
  <2>2. heapBump \in HeapBase..MaxMemory /\ HeapBase \in Nat /\ MaxMemory \in Nat
    BY <1>1, ConstantsAssumption DEF IInv, TypeOK
  <2>3. ASSUME NEW a \in HeapBase..(heapBump - 1)
        PROVE  \E b \in Free : b <= a /\ a < b + Size(mem, b)
    <3>1. Tiles(SizeOf(mem), Free, HeapBase, heapBump) /\ Free \subseteq Addr
      BY <1>1, <2>1 DEF Heap
    <3>2. \A b \in Free : SizeOf(mem)[b] = Size(mem, b)
      BY <3>1, SizeOfFacts
    <3>3. QED
      BY <3>1, <3>2 DEF Tiles
  <2>4. heapBump = HeapBase
    <3>1. SUFFICES ASSUME HeapBase < heapBump PROVE FALSE
      BY <2>2
    <3>2. heapBump - 1 \in HeapBase..(heapBump - 1)
      BY <2>2, <3>1
    <3>3. PICK b \in Free : b <= heapBump - 1 /\ heapBump - 1 < b + Size(mem, b)
      BY <2>3, <3>2
    <3>4. b \in Free \cup live
      OBVIOUS
    <3>5. b \in Int /\ Size(mem, b) \in Nat /\ b + Size(mem, b) <= heapBump
      BY <2>1, <3>4, BlockFacts
    <3>6. b + Size(mem, b) = heapBump
      BY <2>2, <3>3, <3>5
    <3>7. QED
      BY <2>1, <3>6
  <2>5. Free = {}
    <3>1. SUFFICES ASSUME NEW b \in Free PROVE FALSE
      OBVIOUS
    <3>2. b \in Free \cup live
      OBVIOUS
    <3>3. b \in Int /\ HeapBase <= b /\ Size(mem, b) \in Nat \ {0} /\ b + Size(mem, b) <= heapBump
      BY <2>1, <3>2, BlockFacts
    <3>4. QED
      BY <2>2, <2>4, <3>3
  <2>6. freeList = << >>
    <3>1. freeList \in Seq(Addr) /\ Len(freeList) \in Nat /\ DOMAIN freeList = 1..Len(freeList)
      BY <1>1 DEF IInv, TypeOK
    <3>2. 1 \notin DOMAIN freeList
      BY <2>5 DEF Free
    <3>3. Len(freeList) = 0
      BY <3>1, <3>2
    <3>4. QED
      BY <3>1, <3>3
  <2>7. QED
    BY <2>4, <2>6
<1>2. IInv => AllReclaimed
  BY <1>1 DEF AllReclaimed
<1>3. QED
  BY <1>2, Invariance, PTL

-----------------------------------------------------------------------------
(* The limit an exhausted allocation reports.                                *)

(* An answer that says memory is exhausted names the end that the block it   *)
(* was asked for would have had.                                            *)
Reports(answer, bump) ==
  (answer.status = "memory_exhausted" /\ answer.payload \in 1..MaxPayload)
  => answer.required = Wrap(bump + answer.payload + HeaderSize)

(* Other answers say nothing of the kind.                                    *)
LEMMA ReportFacts ==
  ASSUME NEW bump
  PROVE  /\ Reports(Ok, bump) /\ Reports(Invalid, bump) /\ Reports(ScratchExhausted, bump)
         /\ \A r : Reports(Exhausted(r, 0), bump)
         /\ \A n \in Nat : n > MaxPayload => Reports(Exhausted(n, n), bump)
         /\ \A n \in Nat : Reports(Exhausted(Wrap(bump + n + HeaderSize), n), bump)
  BY ConstantsAssumption
     DEF Reports, Ok, Invalid, ScratchExhausted, Exhausted, MaxPayload, HeaderSize

(* Every step keeps the report true of the heap it was made for.             *)
LEMMA ReportsKept ==
  ASSUME PlainCallers, IInv, Reports(last, heapBump), [Next]_vars
  PROVE  Reports(last', heapBump')
<1>1. ASSUME NEW n \in Payloads, NEW reuse, NEW fill, AllocateBlock(n, reuse, fill)
      PROVE  Reports(last', heapBump')
  <2>1. n \in Nat
    BY DEF PlainCallers
  <2>2. CASE n > MaxPayload /\ Refuse(Exhausted(n, n))
    BY <2>1, <2>2, ReportFacts DEF Refuse
  <2>3. CASE TakeFree(n, fill)
    BY <2>3, ReportFacts DEF TakeFree
  <2>4. CASE TakeWilderness(n, fill)
    <3>1. CASE Refuse(Exhausted(Wrap(heapBump + n + HeaderSize), n))
      BY <2>1, <3>1, ReportFacts DEF Refuse, heap
    <3>2. CASE last' = Ok
      BY <3>2, ReportFacts
    <3>3. QED
      BY <2>4, <3>1, <3>2 DEF TakeWilderness
  <2>5. QED
    BY <1>1, <2>2, <2>3, <2>4 DEF AllocateBlock
<1>2. ASSUME NEW n \in Payloads,
             AllocateDocument(n) \/ AllocateGrowableDocument(n) \/ CommitBytes(n)
      PROVE  Reports(last', heapBump')
  BY <1>1, <1>2, ReportFacts
     DEF AllocateDocument, AllocateGrowableDocument, CommitBytes, Refuse
<1>3. ASSUME NEW document, NEW n, NEW geometric, GrowDocumentTo(document, n, geometric)
      PROVE  Reports(last', heapBump')
  BY <1>3, ReportFacts DEF GrowDocumentTo, Refuse, Resize
<1>4. ASSUME NEW document, NEW n, GrowDocument(document, n) \/ ReserveDocument(document, n)
      PROVE  Reports(last', heapBump')
  BY <1>3, <1>4 DEF GrowDocument, ReserveDocument
<1>5. ASSUME NEW document, NEW n, TrimDocument(document, n)
      PROVE  Reports(last', heapBump')
  BY <1>5, ReportFacts DEF TrimDocument, Refuse, Resize
<1>6. ASSUME NEW b \in live, ReleaseDocument(b + HeaderSize)
      PROVE  Reports(last', heapBump')
  BY <1>6, ReportFacts DEF ReleaseDocument, Reclaim
<1>7. ASSUME UNCHANGED <<last, heapBump>>
      PROVE  Reports(last', heapBump')
  BY <1>7
<1>8. CASE EnsureBytes
  BY <1>7, <1>8 DEF EnsureBytes, heap
<1>9. ASSUME NEW b \in live, WritePayload(b)
      PROVE  Reports(last', heapBump')
  BY <1>7, <1>9 DEF WritePayload
<1>10. CASE UNCHANGED vars
  BY <1>7, <1>10 DEF vars
<1>11. QED
  BY <1>2, <1>4, <1>5, <1>6, <1>8, <1>9, <1>10 DEF Next

(* Once memory has grown to the limit an exhausted allocation reported, the  *)
(* retry of the same size fits: the host need not grow twice.               *)
THEOREM RetriesFit == ASSUME PlainCallers PROVE Spec => []RetryFits
<1> DEFINE Reported == Reports(last, heapBump)
<1>1. Init => Reported
  BY ReportFacts DEF Init
<1>2. IInv /\ Reported /\ [Next]_vars => Reported'
  BY ReportsKept
<1>3. IInv /\ Reported => RetryFits
  <2> SUFFICES ASSUME IInv, Reported,
                      last.status = "memory_exhausted",
                      last.payload \in 1..MaxPayload,
                      heapBump + last.payload + HeaderSize <= MaxMemory,
                      last.required <= memSize
               PROVE  heapBump + last.payload + HeaderSize <= heapLimit
    BY DEF RetryFits
  <2>1. /\ last.required = Wrap(heapBump + last.payload + HeaderSize)
        /\ heapLimit = memSize /\ heapBump \in HeapBase..MaxMemory
    BY DEF Reports, IInv, WithinMemory, TypeOK
  <2>2. heapBump + last.payload + HeaderSize \in Nat
    BY <2>1, ConstantsAssumption DEF HeaderSize, MaxPayload
  <2>3. Wrap(heapBump + last.payload + HeaderSize) = heapBump + last.payload + HeaderSize
    BY <2>2, ConstantsAssumption DEF Wrap
  <2>4. QED
    BY <2>1, <2>3
<1>. HIDE DEF Reported
<1>4. QED
  BY <1>1, <1>2, <1>3, Invariance, PTL DEF Spec

=============================================================================
